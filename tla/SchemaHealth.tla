---------------------------- MODULE SchemaHealth ----------------------------
(***************************************************************************)
(* ElasticsearchService.GetSchemaHealth and the package variable           *)
(* referenceIndex it fills when it is first called.  /__health and /__gtg  *)
(* call it from the goroutine of each request, so calls overlap; nothing   *)
(* protects the variable.                                                  *)
(*                                                                         *)
(* referenceIndex points to an object that is created with a nil map; when *)
(* the reference file has been read, json.Unmarshal makes a map, unless it *)
(* finds one, and inserts the reference index.                             *)
(***************************************************************************)
EXTENDS Naturals, FiniteSets

CONSTANTS
    Checker,       \* requests that may be served at the same time
    Lives,         \* what the name of the index may stand for
    MaxRestarts    \* bound: how often the process ends and is started again

(* An index in Elasticsearch, by how its settings (but those that differ   *)
(* from index to index) and its mappings compare with the reference file.  *)
Index == [settings : {"same", "other"}, mappings : {"same", "other"}]

ASSUME LivesAssumption == Lives \subseteq SUBSET Index

ASSUME RestartsAssumption == MaxRestarts \in Nat

VARIABLES
    live,            \* the indices behind the name, which may be an alias
    client,          \* ElasticClient has been set
    referenceIndex,  \* the object pointed to; 0 is nil
    created,         \* number of objects created
    made,            \* the objects whose map is not nil
    filled,          \* the objects whose map has the reference index
    pc,              \* where each call is
    target,          \* the object each call unmarshals into
    answer,          \* what each call returned, until the next one
    restarts,        \* restarts so far
    misread          \* history: since the process started the file could not
                     \* be read or parsed

shared == <<client, referenceIndex, created, made, filled>>
vars == <<live, shared, pc, target, answer, restarts, misread>>

Answer == {"none", "ok", "wrong settings", "wrong mappings", "no connection",
           "wrong referenceIndex", "no index", "error", "panic"}

Init ==
    /\ live \in Lives
    /\ client = FALSE
    /\ referenceIndex = 0
    /\ created = 0
    /\ made = {}
    /\ filled = {}
    /\ pc = [c \in Checker |-> "idle"]
    /\ target = [c \in Checker |-> 0]
    /\ answer = [c \in Checker |-> "none"]
    /\ restarts = 0
    /\ misread = FALSE

(* Handler.Start has reached the cluster.                                  *)
SetClient ==
    /\ ~client
    /\ client' = TRUE
    /\ UNCHANGED <<live, misread, referenceIndex, created, made, filled, pc, target,
                   answer, restarts>>

Goto(c, l) == pc' = [pc EXCEPT ![c] = l]
Answering(c, a) == Goto(c, "idle") /\ answer' = [answer EXCEPT ![c] = a]

(* The process is gone, and started again.                                 *)
ProcessEnds ==
    /\ restarts < MaxRestarts
    /\ restarts' = restarts + 1
    /\ client' = FALSE
    /\ misread' = FALSE
    /\ referenceIndex' = 0
    /\ pc' = [c \in Checker |-> "idle"]
    /\ target' = [c \in Checker |-> 0]
    /\ answer' = [c \in Checker |-> "none"]
    /\ UNCHANGED <<live, created, made, filled>>

(* if referenceIndex == nil                                                *)
CheckReference(c) ==
    /\ pc[c] = "idle"
    /\ Goto(c, IF referenceIndex = 0 THEN "create" ELSE "guard")
    /\ answer' = [answer EXCEPT ![c] = "none"]
    /\ UNCHANGED <<live, misread, shared, target, restarts>>

(* referenceIndex = new(elasticIndex)                                      *)
CreateReference(c) ==
    /\ pc[c] = "create"
    /\ created' = created + 1
    /\ referenceIndex' = created'
    /\ Goto(c, "read")
    /\ UNCHANGED <<live, misread, client, made, filled, target, answer, restarts>>

(* ReadConfigFile; &referenceIndex.index is evaluated when it is done.     *)
ReadReference(c) ==
    /\ pc[c] = "read"
    /\ target' = [target EXCEPT ![c] = referenceIndex]
    /\ Goto(c, "unmarshal")
    /\ UNCHANGED <<live, misread, shared, answer, restarts>>

(* os.Open fails: log.Fatal.                                               *)
OpenFails(c) ==
    /\ pc[c] = "read"
    /\ ProcessEnds

ReadFails(c) ==
    /\ pc[c] = "read"
    /\ Answering(c, "error")
    /\ misread' = TRUE
    /\ UNCHANGED <<live, shared, target, restarts>>

(* json.Unmarshal finds out before it touches the map.                     *)
UnmarshalFails(c) ==
    /\ pc[c] = "unmarshal"
    /\ Answering(c, "error")
    /\ misread' = TRUE
    /\ target' = [target EXCEPT ![c] = 0]
    /\ UNCHANGED <<live, shared, restarts>>

(* json.Unmarshal, on &referenceIndex.index.                               *)
CheckMap(c) ==
    /\ pc[c] = "unmarshal"
    /\ Goto(c, IF target[c] \in made THEN "insert" ELSE "make")
    /\ UNCHANGED <<live, misread, shared, target, answer, restarts>>

(* The new map takes the place of one that another call made meanwhile.    *)
MakeMap(c) ==
    /\ pc[c] = "make"
    /\ made' = made \cup {target[c]}
    /\ filled' = filled \ {target[c]}
    /\ Goto(c, "insert")
    /\ UNCHANGED <<live, misread, client, referenceIndex, created, target, answer,
                   restarts>>

(* Mutant: json.Unmarshal gets a copy of the map.                          *)
InsertIntoCopy(c) ==
    /\ pc[c] = "insert"
    /\ target' = [target EXCEPT ![c] = 0]
    /\ Goto(c, "guard")
    /\ UNCHANGED <<live, misread, shared, answer, restarts>>

Insert(c) ==
    /\ pc[c] = "insert"
    /\ filled' = filled \cup {target[c]}
    /\ target' = [target EXCEPT ![c] = 0]
    /\ Goto(c, "guard")
    /\ UNCHANGED <<live, misread, client, referenceIndex, created, made, answer, restarts>>

(* A call inserts into a map that another one inserts into or reads: the   *)
(* runtime may notice and end the process.                                 *)
ConcurrentMapAccess ==
    /\ \E c, d \in Checker :
          /\ c # d
          /\ pc[c] = "insert"
          /\ \/ pc[d] = "insert" /\ target[d] = target[c]
             \/ pc[d] \in {"guard", "settings", "fetch"} /\ referenceIndex = target[c]
    /\ ProcessEnds

(* The entry of an empty map is a nil pointer: dereferencing it ends the   *)
(* request, or the process when the check has a goroutine of its own.      *)
Panics(c) ==
    /\ pc[c] \in {"settings", "fetch"}
    /\ referenceIndex \notin filled
    /\ \/ /\ Answering(c, "panic")
          /\ UNCHANGED <<live, misread, shared, target, restarts>>
       \/ ProcessEnds

(* The checks before Elasticsearch is asked for the live index; the entry  *)
(* is looked up again for its settings.                                    *)
CheckEntry(c) ==
    /\ pc[c] = "guard"
    /\ IF referenceIndex \in filled
       THEN Goto(c, "settings") /\ UNCHANGED answer
       ELSE Answering(c, "wrong referenceIndex")
    /\ UNCHANGED <<live, misread, shared, target, restarts>>

CheckClient(c) ==
    /\ pc[c] = "settings"
    /\ referenceIndex \in filled
    /\ IF client
       THEN Goto(c, "fetch") /\ UNCHANGED answer
       ELSE Answering(c, "no connection")
    /\ UNCHANGED <<live, misread, shared, target, restarts>>

FetchFails(c) ==
    /\ pc[c] = "fetch"
    /\ Answering(c, "error")
    /\ UNCHANGED <<live, misread, shared, target, restarts>>

NoIndex(c) ==
    /\ pc[c] = "fetch"
    /\ live = {}
    /\ Answering(c, "no index")
    /\ UNCHANGED <<live, misread, shared, target, restarts>>

Verdict(i) ==
    IF i.settings # "same" THEN "wrong settings"
    ELSE IF i.mappings # "same" THEN "wrong mappings"
    ELSE "ok"

(* Whichever index Go's map yields first is compared, with what             *)
(* referenceIndex points to by now.                                        *)
Compare(c) ==
    /\ pc[c] = "fetch"
    /\ referenceIndex \in filled
    /\ \E i \in live : Answering(c, Verdict(i))
    /\ UNCHANGED <<live, misread, shared, target, restarts>>

GetSchemaHealth(c) ==
    \/ CheckReference(c) \/ CreateReference(c)
    \/ ReadReference(c) \/ OpenFails(c) \/ ReadFails(c) \/ UnmarshalFails(c)
    \/ CheckMap(c) \/ MakeMap(c) \/ Insert(c)
    \/ CheckEntry(c) \/ CheckClient(c) \/ FetchFails(c) \/ NoIndex(c)
    \/ Compare(c)
    \/ Panics(c)

Next ==
    \/ SetClient
    \/ \E c \in Checker : GetSchemaHealth(c)
    \/ ConcurrentMapAccess

Spec == Init /\ [][Next]_vars

-----------------------------------------------------------------------------
TypeOK ==
    /\ live \in Lives
    /\ client \in BOOLEAN
    /\ created \in Nat
    /\ referenceIndex \in 0 .. created
    /\ made \subseteq 1 .. created
    /\ filled \subseteq made
    /\ pc \in [Checker -> {"idle", "create", "read", "unmarshal", "make", "insert",
                           "guard", "settings", "fetch"}]
    /\ target \in [Checker -> 0 .. created]
    /\ answer \in [Checker -> Answer]
    /\ restarts \in Nat
    /\ misread \in BOOLEAN

Initialising(c) == pc[c] \in {"create", "read", "unmarshal", "make", "insert"}

(* However the first calls overlap, once they are through, the object that *)
(* is left in referenceIndex is a filled one (unless a read has failed):    *)
(* a wrong answer is over with the overlap.                                *)
SettlesFilled ==
    (referenceIndex # 0 /\ ~misread /\ \A c \in Checker : ~Initialising(c))
    => referenceIndex \in filled

Blames(a) == a \in {"wrong referenceIndex", "panic"}

(* A check blames the reference, or breaks on it, only while another one is *)
(* still initialising it, or after a file that could not be read: when the  *)
(* overlapping first calls are over, so are their wrong answers.            *)
WrongOnlyWhileInitialising ==
    [][\A c \in Checker :
          (Blames(answer'[c]) /\ ~Blames(answer[c]))
          => misread \/ \E d \in Checker \ {c} : Initialising(d)]_vars

Matches ==
    live # {} /\ \A i \in live : i.settings = "same" /\ i.mappings = "same"

(* "Elasticsearch mapping does not match expected mapping" is what the     *)
(* failing check says (health/healthcheck.go:127): a check of a matching   *)
(* index, if the cluster answers, does not say so, nor does it break,      *)
(* whatever calls overlap and whatever became of the calls before.         *)
FailsOnlyOnMismatch ==
    \A c \in Checker : Matches => ~Blames(answer[c])

=============================================================================
