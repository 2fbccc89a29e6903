--------------------------- MODULE MessageRouting ---------------------------
(***************************************************************************)
(* The decisions pkg/message takes about one combined post publication     *)
(* event: which events are ignored, what type of content an event carries, *)
(* and whether it ends in a write, a delete or nothing.  The decisions are *)
(* pure functions of the event, of the shipped configs/app.yml and of the  *)
(* verdict of the policy agent.                                            *)
(*                                                                         *)
(* Strings are replaced by what the code can tell about them: a header is  *)
(* the one marker it contains, an identifier or an origin the one          *)
(* configured system whose name it contains (the names in app.yml are      *)
(* disjoint, so the order in which Go walks the map does not matter).      *)
(***************************************************************************)
EXTENDS Naturals, Sequences

CONSTANT Uuid      \* the identifiers of the content

(* Mutant: a type that app.yml does not know.                              *)
ContentMetadataUncollected ==
    [methode |-> "article", wordpress |-> "wordpress", video |-> "video",
     cct |-> "article", spark |-> "article"]

(* app.yml: the type of the content each known system publishes.           *)
ContentMetadata ==
    [methode |-> "article", wordpress |-> "blog", video |-> "video",
     cct |-> "article", spark |-> "article"]

System == DOMAIN ContentMetadata

(* app.yml: the collection of the index each type is filed under.          *)
Collection ==
    [article |-> "FTCom", blog |-> "FTBlogs", video |-> "FTVideos",
     audio |-> "FTPodcasts"]

Untyped == "untyped"          \* readContentType's empty result
NoType  == "no type"          \* an empty or missing "type" property

AllowedTypes ==
    {"Article", "Video", "MediaResource", "Audio", "ContentPackage", NoType}

(* What a Kafka message can look like to the handler.                      *)
Message ==
    [uuid        : Uuid,
     synthetic   : BOOLEAN,              \* the tid contains SYNTHETIC-REQ
     json        : BOOLEAN,              \* the body can be unmarshalled
     publication : {"pink", "sv"},       \* all that the policy looks at
     type        : AllowedTypes \cup {"Content"},
     header      : {"none", "audio", "article", "live-event"},
     identifiers : Seq(System \cup {"other"}),
     origin      : System \cup {"pac", "other"},
     hasContent  : BOOLEAN,              \* Content.UUID is not empty
     deleted     : BOOLEAN,
     annotated   : BOOLEAN]              \* has an annotation worth looking up

-----------------------------------------------------------------------------

(* Mutant: no type is excluded.                                            *)
IsAnyType(type) == type \in AllowedTypes \cup {"Content"}

IsAllowedType(type) == type \in AllowedTypes

(* Mutant: the origin is looked at before the identifiers.                 *)
NamesOriginFirst(m) == <<m.origin>> \o m.identifiers

(* What names the system an event comes from: its identifiers, its origin. *)
Names(m) == m.identifiers \o <<m.origin>>

Known(m) == {j \in DOMAIN Names(m) : Names(m)[j] \in System}

FirstKnown(m) == Names(m)[CHOOSE j \in Known(m) : \A k \in Known(m) : j <= k]

ReadContentType(m) ==
    IF m.header = "audio" \/ m.type = "Audio" THEN "audio"
    ELSE IF m.header # "none" THEN m.header
    ELSE IF Known(m) # {} THEN ContentMetadata[FirstKnown(m)]
    ELSE Untyped

(* Dropped before the policy agent is asked.                               *)
IsIgnored(m) == m.synthetic \/ ~m.json

(* The policy agent's verdict: only FT Pink content is indexed.            *)
Skip(m) == m.publication = "sv"

(* Mutant: content is asked for before the Deleted branch.                 *)
RouteContentFirst(m) ==
    IF ~IsAllowedType(m.type) \/ ReadContentType(m) = Untyped \/ ~m.hasContent
    THEN "drop" ELSE IF m.deleted THEN "delete" ELSE "write"

(* What the handler does with an event the policy agent let through.       *)
Route(m) ==
    LET typed == ReadContentType(m) # Untyped
    IN  IF ~IsAllowedType(m.type) \/ (~typed /\ m.origin # "pac") THEN "drop"
        ELSE IF m.deleted THEN "delete"
        ELSE IF m.hasContent /\ typed THEN "write"
        ELSE "drop"

(* An event that ought to change the index.                                *)
Eligible(m) == ~IsIgnored(m) /\ ~Skip(m) /\ Route(m) # "drop"

=============================================================================
