-------------------------- MODULE MCMessageHandler --------------------------
(***************************************************************************)
(* Two partitions, two documents and a handful of topics: the events of a  *)
(* document in one partition or spread over both, deletes, documents with  *)
(* and without annotations, events that must not reach the index.          *)
(***************************************************************************)
EXTENDS MessageHandler, TLC

CONSTANTS p1, p2, u1, u2

Article(u) ==
    [uuid |-> u, synthetic |-> FALSE, json |-> TRUE, publication |-> "pink",
     type |-> "Article", header |-> "none", identifiers |-> <<"methode">>,
     origin |-> "methode", hasContent |-> TRUE, deleted |-> FALSE,
     annotated |-> TRUE]

Plain(u)     == [Article(u) EXCEPT !.annotated = FALSE]
Deleted(u)   == [Article(u) EXCEPT !.deleted = TRUE]
PacDelete(u) == [Article(u) EXCEPT !.deleted = TRUE, !.identifiers = << >>,
                     !.origin = "pac", !.type = NoType, !.hasContent = FALSE]
Synthetic(u) == [Article(u) EXCEPT !.synthetic = TRUE]
Garbage(u)   == [Article(u) EXCEPT !.json = FALSE]
Other(u)     == [Article(u) EXCEPT !.publication = "sv"]
Placeholder(u) == [Article(u) EXCEPT !.type = "Content"]
Unknown(u)   == [Article(u) EXCEPT !.identifiers = << >>, !.origin = "other"]
Bare(u)      == [Article(u) EXCEPT !.hasContent = FALSE]

Log(s, t) == (p1 :> s) @@ (p2 :> t)

(* A document rewritten, deleted or written again, in one partition and in *)
(* both; an event to be dropped for every reason.                          *)
MCTopics ==
    {Log(<<Plain(u1), Plain(u1)>>, <<Deleted(u1)>>),
     Log(<<Deleted(u1), Plain(u1)>>, <<Deleted(u1)>>),
     Log(<<Article(u1), Deleted(u1)>>, <<Synthetic(u2)>>),
     Log(<<Plain(u1), PacDelete(u1)>>, <<Garbage(u2)>>),
     Log(<<Synthetic(u1), Other(u1)>>, <<Garbage(u1), Placeholder(u2)>>),
     Log(<<Unknown(u1), Plain(u1)>>, <<Bare(u2)>>)}

(* A lookup, and a handler beside it.                                      *)
LookupTopics ==
    {Log(<<Article(u1)>>, <<Deleted(u1)>>),
     Log(<<Synthetic(u1), Other(u1)>>, <<Plain(u1)>>)}

=============================================================================
