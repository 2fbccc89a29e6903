--------------------------- MODULE MessageHandler ---------------------------
(***************************************************************************)
(* One instance of content-rw-elasticsearch between its Kafka topic and    *)
(* the Elasticsearch index: pkg/message/message_handler.go with the        *)
(* service of pkg/es/service.go it writes through.                         *)
(*                                                                         *)
(* The Kafka client runs one goroutine per partition; each hands the       *)
(* partition's events to handleMessage one at a time, marks an event when  *)
(* handleMessage returns, whatever became of it, and commits later.  The   *)
(* handlers of different partitions interleave.  They share the mapper and *)
(* the Elasticsearch service, whose mutex is held for a whole request and  *)
(* let go before the handler logs what became of it.                       *)
(*                                                                         *)
(* A request outlives the handler that gave up on it at its deadline, and  *)
(* the process that sent it: Elasticsearch may still apply it, at any      *)
(* later moment, or never.                                                 *)
(***************************************************************************)
EXTENDS MessageRouting, FiniteSets

CONSTANTS
    Partition,    \* the partitions this instance consumes
    Topics,       \* the contents of the topic that are considered
    Absent,       \* no document under an identifier
    Free,         \* nobody holds the mutex
    MaxRestarts   \* bound: how often the process is killed and started again

ASSUME TopicsAssumption == Topics \subseteq [Partition -> Seq(Message)]
ASSUME FreeAssumption == Free \notin Partition
ASSUME RestartsAssumption == MaxRestarts \in Nat

VARIABLES
    topic,       \* the log of every partition; never changes
    client,      \* ElasticClient has been set
    starter,     \* where the goroutine of Handler.Start is
    mu,          \* holder of the service's mutex
    pc,          \* where the handler of each partition is
    enriched,    \* its payload has the annotation fields
    ctx,         \* its ten second context
    req,         \* its request to Elasticsearch
    orphans,     \* requests nobody waits for that may still be applied
    index,       \* the documents of the Elasticsearch index
    pos,         \* events of each partition whose handler has returned
    committed,   \* the offset a new instance would resume from
    life,        \* number of restarts
    reported,    \* history: what the monitoring events last said of a document
    stray,       \* history: documents last changed by an unreported request
    crossed      \* history: documents last written while an earlier success
                 \* about them was not logged yet

outsideVars == <<topic, committed, life>>
startVars   == <<client, starter>>
handlerVars == <<mu, pc, enriched, ctx, req, pos>>
storeVars   == <<index, orphans>>
historyVars == <<reported, stray, crossed>>
vars == <<topic, client, starter, mu, pc, enriched, ctx, req, orphans, index,
          pos, committed, life, reported, stray, crossed>>

Event == [part : Partition, off : Nat \ {0}]
Doc   == [event : Event, enriched : BOOLEAN]
Value == Doc \cup {Absent}
Orphan == [event : Event, enriched : BOOLEAN, life : Nat]

ASSUME AbsentAssumption == Absent \notin Doc

-----------------------------------------------------------------------------
(* What a handler is working on. *)

Msg(e)     == topic[e.part][e.off]
Current(p) == [part |-> p, off |-> pos[p] + 1]
Pending(p) == pos[p] < Len(topic[p])

(* Mutant: the Deleted branch is not there.                                *)
EffectNeverDeletes(e, b) == [event |-> e, enriched |-> b]

(* DeleteData removes the document, WriteData replaces it as a whole. *)
Effect(e, b) == IF Msg(e).deleted THEN Absent ELSE [event |-> e, enriched |-> b]

CurrentUuid(p)   == Msg(Current(p)).uuid
CurrentEffect(p) == Effect(Current(p), enriched[p])

(* Elasticsearch answers a delete of a missing document with 404, which    *)
(* the client library returns as an error.                                 *)
Misses(e) == Msg(e).deleted /\ index[Msg(e).uuid] = Absent

(* Mutant: the service takes a read lock.                                  *)
MutexShared == TRUE

(* WriteData, DeleteData and SetClient take the write lock.                *)
MutexFree == mu = Free

(* Mutant: the mutex is not unlocked.                                      *)
KeptLocked(p) == mu

(* The deferred Unlock of WriteData and DeleteData.                        *)
Unlocked(p) == IF mu = p THEN Free ELSE mu

(* handleMessage returns: its deferred cancel runs, the event is marked,   *)
(* and the next one can be delivered.                                      *)
Return(p) ==
    /\ pc' = [pc EXCEPT ![p] = "idle"]
    /\ enriched' = [enriched EXCEPT ![p] = FALSE]
    /\ ctx' = [ctx EXCEPT ![p] = "none"]
    /\ req' = [req EXCEPT ![p] = "none"]
    /\ pos' = [pos EXCEPT ![p] = @ + 1]

(* The handlers of Q no longer wait for their requests: one that has been  *)
(* sent may be applied yet, one that has been applied is not reported.     *)
LeaveBehind(Q) ==
    /\ orphans' = orphans \cup
          {[event |-> Current(p), enriched |-> enriched[p], life |-> life] :
              p \in {q \in Q : req[q] = "sent"}}
    /\ stray' = stray \cup
          {CurrentUuid(p) : p \in {q \in Q : req[q] = "done"}}

-----------------------------------------------------------------------------
Init ==
    /\ topic \in Topics
    /\ client = FALSE
    /\ starter = "connecting"
    /\ mu = Free
    /\ pc = [p \in Partition |-> "idle"]
    /\ enriched = [p \in Partition |-> FALSE]
    /\ ctx = [p \in Partition |-> "none"]
    /\ req = [p \in Partition |-> "none"]
    /\ orphans = {}
    /\ index = [u \in Uuid |-> Absent]
    /\ pos = [p \in Partition |-> 0]
    /\ committed = [p \in Partition |-> 0]
    /\ life = 0
    /\ reported = [u \in Uuid |-> Absent]
    /\ stray = {}
    /\ crossed = {}

(* The goroutine of Handler.Start. *)

(* Mutant: the failure is logged and start-up goes on.                     *)
ConnectFailsGoesOn ==
    /\ starter = "connecting"
    /\ starter' = "connected"
    /\ UNCHANGED <<outsideVars, client, handlerVars, storeVars, historyVars>>

ConnectFails ==
    /\ starter = "connecting"
    /\ starter' = "sleeping"
    /\ UNCHANGED <<outsideVars, client, handlerVars, storeVars, historyVars>>

WakeUp ==
    /\ starter = "sleeping"
    /\ starter' = "connecting"
    /\ UNCHANGED <<outsideVars, client, handlerVars, storeVars, historyVars>>

SetClient ==
    /\ starter = "connecting"
    /\ MutexFree
    /\ client' = TRUE
    /\ starter' = "connected"
    /\ UNCHANGED <<outsideVars, handlerVars, storeVars, historyVars>>

StartConsumer ==
    /\ starter = "connected"
    /\ starter' = "consuming"
    /\ UNCHANGED <<outsideVars, client, handlerVars, storeVars, historyVars>>

-----------------------------------------------------------------------------
(* handleMessage. *)

Ignore(p) ==
    /\ starter = "consuming"
    /\ pc[p] = "idle"
    /\ Pending(p)
    /\ IsIgnored(Msg(Current(p)))
    /\ Return(p)
    /\ UNCHANGED <<outsideVars, startVars, mu, storeVars, historyVars>>

Deliver(p) ==
    /\ starter = "consuming"
    /\ pc[p] = "idle"
    /\ Pending(p)
    /\ ~IsIgnored(Msg(Current(p)))
    /\ pc' = [pc EXCEPT ![p] = "policy"]
    /\ UNCHANGED <<outsideVars, startVars, mu, enriched, ctx, req, pos,
                   storeVars, historyVars>>

PolicyFails(p) ==
    /\ pc[p] = "policy"
    /\ Return(p)
    /\ UNCHANGED <<outsideVars, startVars, mu, storeVars, historyVars>>

(* Skipped by the policy, or by one of the checks that follow it. *)
PolicyDrops(p) ==
    /\ pc[p] = "policy"
    /\ ~Eligible(Msg(Current(p)))
    /\ Return(p)
    /\ UNCHANGED <<outsideVars, startVars, mu, storeVars, historyVars>>

(* The ten seconds start here, before the annotations are looked up.  A    *)
(* delete and a document without annotations go straight to the service.   *)
PolicyAllows(p) ==
    LET m == Msg(Current(p))
    IN  /\ pc[p] = "policy"
        /\ Eligible(m)
        /\ ctx' = [ctx EXCEPT ![p] = "live"]
        /\ pc' = [pc EXCEPT ![p] =
                     IF m.annotated /\ ~m.deleted THEN "concordance" ELSE "lock"]
        /\ UNCHANGED <<outsideVars, startVars, mu, enriched, req, pos,
                       storeVars, historyVars>>

(* When the lookup fails the document is written without the annotation    *)
(* fields.  The lookup does not see the context.                           *)
ConcordanceReplies(p) ==
    /\ pc[p] = "concordance"
    /\ \E ok \in BOOLEAN : enriched' = [enriched EXCEPT ![p] = ok]
    /\ pc' = [pc EXCEPT ![p] = "lock"]
    /\ UNCHANGED <<outsideVars, startVars, mu, ctx, req, pos, storeVars,
                   historyVars>>

(* Mutant: context.Background() without a timeout.                         *)
DeadlineNeverPasses(p) == ctx[p] = "expired" /\ UNCHANGED vars

DeadlinePasses(p) ==
    /\ ctx[p] = "live"
    /\ ctx' = [ctx EXCEPT ![p] = "expired"]
    /\ UNCHANGED <<outsideVars, startVars, mu, pc, enriched, req, pos,
                   storeVars, historyVars>>

(* WriteData and DeleteData wait for the mutex without looking at the      *)
(* context; a request on an expired context fails before it is sent.       *)
SendRequest(p) ==
    /\ pc[p] = "lock"
    /\ MutexFree
    /\ mu' = p
    /\ pc' = [pc EXCEPT ![p] = "es"]
    /\ req' = [req EXCEPT ![p] = IF ctx[p] = "live" THEN "sent" ELSE "failed"]
    /\ UNCHANGED <<outsideVars, startVars, enriched, ctx, pos, storeVars,
                   historyVars>>

(* The context expires before the answer is read: Do returns an error.      *)
GiveUp(p) ==
    /\ pc[p] = "es"
    /\ ctx[p] = "expired"
    /\ req[p] \in {"sent", "done"}
    /\ req' = [req EXCEPT ![p] = "failed"]
    /\ LeaveBehind({p})
    /\ UNCHANGED <<outsideVars, startVars, mu, pc, enriched, ctx, pos, index,
                   reported, crossed>>

(* Do has returned, and the service returns to the handler: its deferred   *)
(* Unlock lets the next request go before this one is logged.              *)
ServiceReturns(p) ==
    /\ pc[p] = "es"
    /\ req[p] \in {"done", "failed"}
    /\ mu' = Unlocked(p)
    /\ pc' = [pc EXCEPT ![p] = "log"]
    /\ UNCHANGED <<outsideVars, startVars, enriched, ctx, req, pos, storeVars,
                   historyVars>>

(* There was no error, and the handler says so in the log. *)
Report(p) ==
    /\ pc[p] = "log"
    /\ req[p] = "done"
    /\ reported' = [reported EXCEPT ![CurrentUuid(p)] = CurrentEffect(p)]
    /\ Return(p)
    /\ UNCHANGED <<outsideVars, startVars, mu, storeVars, stray, crossed>>

(* Mutant: the error is not looked at.                                     *)
LogFailureAsSuccess(p) ==
    /\ pc[p] = "log"
    /\ req[p] = "failed"
    /\ reported' = [reported EXCEPT ![CurrentUuid(p)] = CurrentEffect(p)]
    /\ Return(p)
    /\ UNCHANGED <<outsideVars, startVars, mu, storeVars, stray, crossed>>

LogFailure(p) ==
    /\ pc[p] = "log"
    /\ req[p] = "failed"
    /\ Return(p)
    /\ UNCHANGED <<outsideVars, startVars, mu, storeVars, historyVars>>

-----------------------------------------------------------------------------
(* Elasticsearch, which lives outside this repository. *)

(* Others have been told that their request on the same document succeeded *)
(* and have yet to log it.                                                 *)
Unlogged(p) ==
    \E q \in Partition \ {p} :
        pc[q] = "log" /\ req[q] = "done" /\ CurrentUuid(q) = CurrentUuid(p)

EsApplies(p) ==
    /\ req[p] = "sent"
    /\ ~Misses(Current(p))
    /\ index' = [index EXCEPT ![CurrentUuid(p)] = CurrentEffect(p)]
    /\ req' = [req EXCEPT ![p] = "done"]
    /\ stray' = stray \ {CurrentUuid(p)}
    /\ crossed' = IF Unlogged(p) THEN crossed \cup {CurrentUuid(p)}
                                 ELSE crossed \ {CurrentUuid(p)}
    /\ UNCHANGED <<outsideVars, startVars, mu, pc, enriched, ctx, pos,
                   orphans, reported>>

(* An error answer: a missing document, or a refused request.              *)
EsRefuses(p) ==
    /\ req[p] = "sent"
    /\ req' = [req EXCEPT ![p] = "failed"]
    /\ UNCHANGED <<outsideVars, startVars, mu, pc, enriched, ctx, pos,
                   storeVars, historyVars>>

(* The connection breaks before the answer is read: an error at once.      *)
ConnectionBreaks(p) ==
    /\ pc[p] = "es"
    /\ req[p] \in {"sent", "done"}
    /\ req' = [req EXCEPT ![p] = "failed"]
    /\ LeaveBehind({p})
    /\ UNCHANGED <<outsideVars, startVars, mu, pc, enriched, ctx, pos, index,
                   reported, crossed>>

OrphanLands(o) ==
    /\ o \in orphans
    /\ orphans' = orphans \ {o}
    /\ index' = [index EXCEPT ![Msg(o.event).uuid] = Effect(o.event, o.enriched)]
    /\ stray' = stray \cup {Msg(o.event).uuid}
    /\ UNCHANGED <<outsideVars, startVars, handlerVars, reported, crossed>>

OrphanIsLost(o) ==
    /\ o \in orphans
    /\ orphans' = orphans \ {o}
    /\ UNCHANGED <<outsideVars, startVars, handlerVars, index, historyVars>>

(* The Kafka client commits the marked offsets from time to time.          *)
Commit(p) ==
    /\ committed[p] < pos[p]
    /\ committed' = [committed EXCEPT ![p] = pos[p]]
    /\ UNCHANGED <<topic, life, startVars, handlerVars, storeVars,
                   historyVars>>

(* Mutant: the offset resumed from is one too low.                         *)
ResumeOneBack == [p \in Partition |-> committed[p] - 1]

Resume == committed

(* The process is killed at any moment and started again: everything it    *)
(* had in memory is gone, what it had sent is not.                         *)
Restart ==
    /\ life < MaxRestarts
    /\ life' = life + 1
    /\ client' = FALSE
    /\ starter' = "connecting"
    /\ mu' = Free
    /\ pc' = [p \in Partition |-> "idle"]
    /\ enriched' = [p \in Partition |-> FALSE]
    /\ ctx' = [p \in Partition |-> "none"]
    /\ req' = [p \in Partition |-> "none"]
    /\ pos' = Resume
    /\ LeaveBehind(Partition)
    /\ UNCHANGED <<topic, committed, index, reported, crossed>>

-----------------------------------------------------------------------------
Handle(p) ==
    \/ Ignore(p) \/ Deliver(p)
    \/ PolicyFails(p) \/ PolicyDrops(p) \/ PolicyAllows(p)
    \/ ConcordanceReplies(p) \/ DeadlinePasses(p) \/ SendRequest(p)
    \/ GiveUp(p) \/ ServiceReturns(p) \/ Report(p) \/ LogFailure(p)

Elasticsearch ==
    \/ \E p \in Partition : EsApplies(p) \/ EsRefuses(p) \/ ConnectionBreaks(p)
    \/ \E o \in orphans : OrphanLands(o) \/ OrphanIsLost(o)

Next ==
    \/ ConnectFails \/ WakeUp \/ SetClient \/ StartConsumer
    \/ \E p \in Partition : Handle(p) \/ Commit(p)
    \/ Elasticsearch
    \/ Restart

Spec == Init /\ [][Next]_vars

(* What the code's scheduling justifies: goroutines run, timers fire, a     *)
(* mutex that is free again and again is granted (Go's mutex is starvation  *)
(* free).  Of its surroundings it is assumed that the policy agent answers, *)
(* with a decision or an error, and that Elasticsearch accepts a connection *)
(* if it is tried often enough.  Nothing is asked of Elasticsearch's        *)
(* answers to requests, nor of commits.                                     *)
OwnFairness ==
    /\ WF_vars(WakeUp) /\ WF_vars(StartConsumer) /\ SF_vars(SetClient)
    /\ \A p \in Partition :
          /\ WF_vars(Ignore(p) \/ Deliver(p))
          /\ WF_vars(PolicyFails(p) \/ PolicyDrops(p) \/ PolicyAllows(p))
          /\ WF_vars(DeadlinePasses(p))
          /\ SF_vars(SendRequest(p))
          /\ WF_vars(GiveUp(p) \/ ServiceReturns(p))
          /\ WF_vars(Report(p) \/ LogFailure(p))

(* The Concordances API answers; the code waits for it without a limit.     *)
LookupFairness == \A p \in Partition : WF_vars(ConcordanceReplies(p))

OwnSpec == Spec /\ OwnFairness
FairSpec == OwnSpec /\ LookupFairness

-----------------------------------------------------------------------------
(* Properties. *)

TypeOK ==
    /\ topic \in Topics
    /\ client \in BOOLEAN
    /\ starter \in {"connecting", "sleeping", "connected", "consuming"}
    /\ mu \in Partition \cup {Free}
    /\ pc \in [Partition -> {"idle", "policy", "concordance", "lock", "es", "log"}]
    /\ enriched \in [Partition -> BOOLEAN]
    /\ ctx \in [Partition -> {"none", "live", "expired"}]
    /\ req \in [Partition -> {"none", "sent", "done", "failed"}]
    /\ orphans \subseteq Orphan
    /\ index \in [Uuid -> Value]
    /\ pos \in [Partition -> Nat]
    /\ committed \in [Partition -> Nat]
    /\ life \in Nat
    /\ reported \in [Uuid -> Value]
    /\ stray \subseteq Uuid
    /\ crossed \subseteq Uuid

(* WriteData and DeleteData dereference ElasticClient without a check: no   *)
(* handler may be running before SetClient, also right after a restart.     *)
ClientBeforeHandlers == \A p \in Partition : pc[p] # "idle" => client

(* The mutex belongs to the handler inside WriteData or DeleteData, and a   *)
(* request is awaited only there: an instance has one request at a time in  *)
(* Elasticsearch that it still waits for.                                   *)
OneRequestAtATime ==
    \A p \in Partition :
        /\ (mu = p) <=> (pc[p] = "es")
        /\ req[p] = "sent" => mu = p

(* The handler of one document that the log will call "Successfully saved"  *)
(* or "deleted": while it holds the mutex the index has what it wrote, and  *)
(* from there until its log line no other handler of the instance has put   *)
(* something else there, unless it wrote the same document in that very     *)
(* gap (crossed).  Only an orphaned request can come between otherwise.     *)
SavedMeansIndexed ==
    \A p \in Partition :
        /\ req[p] = "done"
        /\ CurrentUuid(p) \notin stray
        /\ mu = p \/ CurrentUuid(p) \notin crossed
        => index[CurrentUuid(p)] = CurrentEffect(p)

(* Documents whose events are spread over several partitions.               *)
Spread(u) ==
    \E p, q \in Partition :
        /\ p # q
        /\ \E i \in DOMAIN topic[p], j \in DOMAIN topic[q] :
               topic[p][i].uuid = u /\ topic[q][j].uuid = u

(* The monitoring events are how a publication is traced: the last one      *)
(* about a document says what the index holds, or its handler is about to   *)
(* log it.  There are two exceptions and no more: a request was applied     *)
(* that nobody reports; or the document's events are in two partitions and  *)
(* two handlers wrote it before the first of them had logged, whose lines   *)
(* may come in either order.                                                *)
ReportsAccountForIndex ==
    \A u \in Uuid :
        \/ u \in stray
        \/ u \in crossed /\ Spread(u)
        \/ index[u] = reported[u]
        \/ \E p \in Partition : req[p] = "done" /\ CurrentUuid(p) = u

(* Whatever the order of crashes, redeliveries and late requests, a         *)
(* document comes from an event that carries it: with content, of an        *)
(* indexable type that could be inferred, pink, not synthetic.              *)
OnlyEligibleIndexed ==
    \A u \in Uuid : index[u] # Absent =>
        LET m == Msg(index[u].event)
        IN  /\ m.uuid = u
            /\ ~m.synthetic /\ m.publication = "pink"
            /\ m.type \in AllowedTypes
            /\ ReadContentType(m) # Untyped
            /\ m.hasContent /\ ~m.deleted
            /\ index[u].enriched => m.annotated

(* The first event of a partition whose fate is not decided: a request that *)
(* was answered or given up is decided before its handler returns.          *)
Undecided == [p \in Partition |->
                 pos[p] + (IF req[p] \in {"done", "failed"} THEN 2 ELSE 1)]

Ordered == INSTANCE OrderedIndex WITH next <- Undecided, late <- orphans

(* Each partition reaches the index in the order of its log and at most     *)
(* once between two restarts; a restart repeats events back to the          *)
(* committed offset and no further; only an abandoned request is applied    *)
(* out of order.                                                            *)
RefinesOrderedIndex == Ordered!Spec

(* The handlers get to the end of the topic, with Elasticsearch silent from *)
(* some point on as much as with Elasticsearch answering: the deadline      *)
(* reaches every request made under the mutex, and those that wait for it.  *)
TopicConsumed ==
    <>[](\A p \in Partition : pos[p] = Len(topic[p]))

(* A lookup that fails costs the document its annotation fields and no      *)
(* more: its handler goes on, whatever the Concordances API does.           *)
LookupCostsOnlyFields ==
    \A p \in Partition : pc[p] = "concordance" ~> pc[p] # "concordance"

=============================================================================
