-------------------------- MODULE MessageDecision --------------------------
(***************************************************************************)
(* handleMessage decides on one event.  The properties compare the         *)
(* decision with those it would take on related events for one content.    *)
(***************************************************************************)
EXTENDS MessageRouting

VARIABLES message, decision

decisionVars == <<message, decision>>

DecisionInit == message \in Message /\ decision = "pending"

Decide ==
    /\ decision = "pending"
    /\ decision' = IF Eligible(message) THEN Route(message) ELSE "drop"
    /\ UNCHANGED message

DecisionSpec == DecisionInit /\ [][Decide]_decisionVars

-----------------------------------------------------------------------------
(* A delete that does without the content: what handleMessage reads from   *)
(* the content is gone (schema.EnrichedContent.Content), the headers of    *)
(* the Kafka message are what they were.                                   *)
Emptied(m) ==
    [m EXCEPT !.deleted = TRUE, !.hasContent = FALSE, !.type = NoType,
              !.identifiers = << >>]

(* The guards before the Deleted branch (lines 135-153) also apply to a    *)
(* delete, which needs neither a type nor content.  An event that would be *)
(* indexed is sent to DeleteData when it is flagged deleted and keeps its  *)
(* content.  Without the content it is if, and only if, its headers stand  *)
(* in for it: a type header, the origin of a known system, or PAC's.  Any  *)
(* other such delete is dropped, and the document stays in the index.      *)
WrittenIsDeletable ==
    decision = "write" =>
        /\ Route([message EXCEPT !.deleted = TRUE]) = "delete"
        /\ Route(Emptied(message)) = "delete"
           <=> \/ message.header # "none"
               \/ message.origin \in System \cup {"pac"}

(* A metadata publish carries the same content with PAC as its origin      *)
(* (TestHandlePACMessageWithSparkContent).  As long as the content names a *)
(* known system, its type, and so the collection it is filed under, must   *)
(* not depend on who published last.                                       *)
RepublishKeepsType ==
    (decision = "write" /\ \E i \in DOMAIN message.identifiers :
                               message.identifiers[i] \in System)
    => \A o \in {"pac", "other"} \cup System :
          LET again == [message EXCEPT !.origin = o]
          IN  /\ Route(again) = "write"
              /\ ReadContentType(again) = ReadContentType(message)

(* A document without a collection is not found by a query for one.  Every *)
(* type that the headers, the identifiers or the origin can lead to has    *)
(* its entry in app.yml, but the one of live events.                       *)
DocumentsAreCollected ==
    (decision = "write" /\ message.header # "live-event")
    => ReadContentType(message) \in DOMAIN Collection

=============================================================================
