--------------------------- MODULE ConsumerGroup ---------------------------
(***************************************************************************)
(* The instances of the program that share one consumer group and one      *)
(* index (helm/content-rw-elasticsearch/values.yaml asks for two).  Each   *)
(* has a mutex of its own; nothing keeps the requests of two instances     *)
(* apart.                                                                  *)
(*                                                                         *)
(* A rebalance gives every partition to an instance that is done with its  *)
(* handlers.  An instance that is not is left out, but its handlers are    *)
(* not stopped: handleMessage takes no context from the Kafka client, so   *)
(* it maps, waits for the mutex and writes on behalf of a partition that   *)
(* has a new owner, which starts from the committed offset.                *)
(*                                                                         *)
(* A handler's steps are those of MessageHandler, taken together where no  *)
(* other actor can come between them to any effect.                        *)
(***************************************************************************)
EXTENDS MessageRouting, FiniteSets

CONSTANTS
    Instance,     \* the instances of the program
    Partition,
    Topics,
    Absent,       \* no document under an identifier
    Free,         \* nobody holds an instance's mutex
    Nobody,       \* a partition without an owner
    Idle,         \* no handler at work
    MaxTroubles   \* bound: instances killed, and rebalances nobody needed

ASSUME TopicsAssumption == Topics \subseteq [Partition -> Seq(Message)]
ASSUME FreeAssumption == Free \notin Partition
ASSUME NobodyAssumption == Nobody \notin Instance
ASSUME TroublesAssumption == MaxTroubles \in Nat

VARIABLES
    topic,       \* the log of every partition; never changes
    index,       \* the documents of the Elasticsearch index
    committed,   \* the offset a new owner resumes from
    owner,       \* the instance each partition belongs to
    pos,         \* events marked in the owner's session
    session,     \* the generation of the group
    troubles,    \* instances killed so far, rebalances nobody needed
    consuming,   \* the instances that have called consumer.Start
    mu,          \* holder of each instance's mutex
    work,        \* the handler of each instance and partition
    orphans,     \* requests nobody waits for that may still be applied
    handled      \* history: events that a handler has returned from

vars == <<topic, index, committed, owner, pos, session, troubles, consuming,
          mu, work, orphans, handled>>
groupVars == <<topic, owner, session, troubles, consuming>>

Event == [part : Partition, off : Nat \ {0}]
Doc   == [event : Event, enriched : BOOLEAN]
Value == Doc \cup {Absent}

(* A handler past its guards.                                              *)
Job == [event : Event, session : Nat, live : BOOLEAN, enriched : BOOLEAN,
        stage : {"mapping", "waiting", "sent", "done", "failed"}]

Orphan == [event : Event, session : Nat, enriched : BOOLEAN]

ASSUME AbsentAssumption == Absent \notin Doc
ASSUME IdleAssumption == Idle \notin Job

-----------------------------------------------------------------------------
Msg(e)     == topic[e.part][e.off]
Current(p) == [part |-> p, off |-> pos[p] + 1]
Pending(p) == pos[p] < Len(topic[p])

Effect(e, b) == IF Msg(e).deleted THEN Absent ELSE [event |-> e, enriched |-> b]

Stage(i, p) == IF work[i][p] = Idle THEN "idle" ELSE work[i][p].stage

(* A handler whose partition has been given to another instance.           *)
Stale(i, p) == owner[p] # i

MutexFree(i) == mu[i] = Free

Put(i, p, j) == work' = [work EXCEPT ![i][p] = j]
Go(i, p, stage) == Put(i, p, [work[i][p] EXCEPT !.stage = stage])

(* What is left of the requests of instance i for the partitions of Q.     *)
Leavings(i, Q) ==
    {[event |-> work[i][p].event, session |-> work[i][p].session,
      enriched |-> work[i][p].enriched] : p \in {q \in Q : Stage(i, q) = "sent"}}

(* Mutant: the mutex is not unlocked.                                      *)
KeptLocked(i, p) == mu

Unlocked(i, p) == [mu EXCEPT ![i] = IF @ = p THEN Free ELSE @]

(* Only the session's owner moves its position: what a stale handler marks *)
(* belongs to a session that is over.                                      *)
Mark(i, p, e) ==
    /\ pos' = IF Stale(i, p) THEN pos ELSE [pos EXCEPT ![p] = @ + 1]
    /\ handled' = handled \cup {e}

-----------------------------------------------------------------------------
Init ==
    /\ topic \in Topics
    /\ index = [u \in Uuid |-> Absent]
    /\ committed = [p \in Partition |-> 0]
    /\ owner = [p \in Partition |-> Nobody]
    /\ pos = [p \in Partition |-> 0]
    /\ session = 0
    /\ troubles = 0
    /\ consuming = {}
    /\ mu = [i \in Instance |-> Free]
    /\ work = [i \in Instance |-> [p \in Partition |-> Idle]]
    /\ orphans = {}
    /\ handled = {}

(* The goroutine of Start reaches Elasticsearch, however many attempts it   *)
(* takes, sets the client and joins the group.                             *)
Connect(i) ==
    /\ i \notin consuming
    /\ consuming' = consuming \cup {i}
    /\ UNCHANGED <<topic, index, committed, owner, pos, session, troubles,
                   mu, work, orphans, handled>>

-----------------------------------------------------------------------------
(* handleMessage. *)

Delivered(i, p) ==
    /\ owner[p] = i
    /\ work[i][p] = Idle
    /\ Pending(p)

(* Ignored, refused by the policy agent or dropped by a guard.             *)
PassOver(i, p) ==
    /\ Delivered(i, p)
    /\ Mark(i, p, Current(p))
    /\ UNCHANGED <<groupVars, index, committed, mu, work, orphans>>

(* Mutant: the event is marked before it is handled.                       *)
BeginMarked(i, p) ==
    LET m == Msg(Current(p))
    IN  /\ Delivered(i, p)
        /\ Eligible(m)
        /\ Put(i, p, [event |-> Current(p), session |-> session, live |-> TRUE,
                      enriched |-> FALSE, stage |-> "waiting"])
        /\ pos' = [pos EXCEPT ![p] = @ + 1]
        /\ UNCHANGED <<groupVars, index, committed, mu, orphans, handled>>

Begin(i, p) ==
    LET m == Msg(Current(p))
    IN  /\ Delivered(i, p)
        /\ Eligible(m)
        /\ Put(i, p, [event |-> Current(p), session |-> session, live |-> TRUE,
                      enriched |-> FALSE,
                      stage |-> IF m.annotated /\ ~m.deleted THEN "mapping"
                                ELSE "waiting"])
        /\ UNCHANGED <<groupVars, index, committed, pos, mu, orphans, handled>>

MapDocument(i, p) ==
    /\ Stage(i, p) = "mapping"
    /\ \E ok \in BOOLEAN :
          Put(i, p, [work[i][p] EXCEPT !.stage = "waiting", !.enriched = ok])
    /\ UNCHANGED <<groupVars, index, committed, pos, mu, orphans, handled>>

DeadlinePasses(i, p) ==
    /\ work[i][p] # Idle
    /\ work[i][p].live
    /\ Put(i, p, [work[i][p] EXCEPT !.live = FALSE])
    /\ UNCHANGED <<groupVars, index, committed, pos, mu, orphans, handled>>

SendRequest(i, p) ==
    /\ Stage(i, p) = "waiting"
    /\ MutexFree(i)
    /\ mu' = [mu EXCEPT ![i] = p]
    /\ Go(i, p, IF work[i][p].live THEN "sent" ELSE "failed")
    /\ UNCHANGED <<groupVars, index, committed, pos, orphans, handled>>

(* Mutant: context.Background() without a timeout.                         *)
FinishAnswered(i, p) ==
    /\ Stage(i, p) \in {"done", "failed"}
    /\ Put(i, p, Idle)
    /\ mu' = Unlocked(i, p)
    /\ Mark(i, p, work[i][p].event)
    /\ UNCHANGED <<groupVars, index, committed, orphans>>

(* The handler returns: after an answer, an error, or at its deadline.     *)
Finish(i, p) ==
    /\ \/ Stage(i, p) \in {"done", "failed"}
       \/ Stage(i, p) = "sent" /\ ~work[i][p].live
    /\ Put(i, p, Idle)
    /\ mu' = Unlocked(i, p)
    /\ orphans' = orphans \cup Leavings(i, {p})
    /\ Mark(i, p, work[i][p].event)
    /\ UNCHANGED <<groupVars, index, committed>>

-----------------------------------------------------------------------------
(* Elasticsearch and the network. *)

EsApplies(i, p) ==
    LET e == work[i][p].event
    IN  /\ Stage(i, p) = "sent"
        /\ ~(Msg(e).deleted /\ index[Msg(e).uuid] = Absent)
        /\ index' = [index EXCEPT ![Msg(e).uuid] = Effect(e, work[i][p].enriched)]
        /\ Go(i, p, "done")
        /\ UNCHANGED <<groupVars, committed, pos, mu, orphans, handled>>

EsRefuses(i, p) ==
    /\ Stage(i, p) = "sent"
    /\ Go(i, p, "failed")
    /\ UNCHANGED <<groupVars, index, committed, pos, mu, orphans, handled>>

(* Mutant: the handler tries again after a broken connection.              *)
ConnectionBreaksRetried(i, p) ==
    /\ Stage(i, p) = "sent"
    /\ Go(i, p, "waiting")
    /\ mu' = Unlocked(i, p)
    /\ orphans' = orphans \cup Leavings(i, {p})
    /\ UNCHANGED <<groupVars, index, committed, pos, handled>>

ConnectionBreaks(i, p) ==
    /\ Stage(i, p) \in {"sent", "done"}
    /\ Go(i, p, "failed")
    /\ orphans' = orphans \cup Leavings(i, {p})
    /\ UNCHANGED <<groupVars, index, committed, pos, mu, handled>>

OrphanLands(o) ==
    /\ orphans' = orphans \ {o}
    /\ index' = [index EXCEPT ![Msg(o.event).uuid] = Effect(o.event, o.enriched)]
    /\ UNCHANGED <<groupVars, committed, pos, mu, work, handled>>

OrphanIsLost(o) ==
    /\ orphans' = orphans \ {o}
    /\ UNCHANGED <<groupVars, index, committed, pos, mu, work, handled>>

-----------------------------------------------------------------------------
(* The group. *)

Commit(p) ==
    /\ committed[p] < pos[p]
    /\ committed' = [committed EXCEPT ![p] = pos[p]]
    /\ UNCHANGED <<groupVars, index, pos, mu, work, orphans, handled>>

(* Mutants: handleMessage returns and leaves the work to a goroutine; the  *)
(* consumer is started before there is a client.                           *)
ReadyAtOnce == consuming
ReadyUnconnected ==
    {i \in Instance : \A p \in Partition : work[i][p] = Idle}

(* Only an instance whose handlers have returned can join a generation.    *)
Ready == {i \in consuming : \A p \in Partition : work[i][p] = Idle}

Orphaned == \E p \in Partition : owner[p] = Nobody

(* A rebalance that is called for, or one that comes of itself: a missed   *)
(* heartbeat, a scaling of the deployment.                                 *)
Rebalance ==
    /\ Orphaned \/ troubles < MaxTroubles
    /\ owner' \in [Partition -> Ready]
    /\ pos' = committed
    /\ session' = session + 1
    /\ troubles' = IF Orphaned THEN troubles ELSE troubles + 1
    /\ UNCHANGED <<topic, index, committed, consuming, mu, work, orphans,
                   handled>>

Crash(i) ==
    /\ troubles < MaxTroubles
    /\ troubles' = troubles + 1
    /\ consuming' = consuming \ {i}
    /\ owner' = [p \in Partition |-> IF owner[p] = i THEN Nobody ELSE owner[p]]
    /\ pos' = [p \in Partition |-> IF owner[p] = i THEN committed[p] ELSE pos[p]]
    /\ mu' = [mu EXCEPT ![i] = Free]
    /\ work' = [work EXCEPT ![i] = [p \in Partition |-> Idle]]
    /\ orphans' = orphans \cup Leavings(i, Partition)
    /\ UNCHANGED <<topic, index, committed, session, handled>>

-----------------------------------------------------------------------------
Handle(i, p) ==
    \/ PassOver(i, p) \/ Begin(i, p) \/ MapDocument(i, p)
    \/ DeadlinePasses(i, p) \/ SendRequest(i, p) \/ Finish(i, p)

Elasticsearch ==
    \/ \E i \in Instance, p \in Partition :
          EsApplies(i, p) \/ EsRefuses(i, p) \/ ConnectionBreaks(i, p)
    \/ \E o \in orphans : OrphanLands(o) \/ OrphanIsLost(o)

Group ==
    \/ \E p \in Partition : Commit(p)
    \/ Rebalance
    \/ \E i \in Instance : Connect(i) \/ Crash(i)

Next ==
    \/ \E i \in Instance, p \in Partition : Handle(i, p)
    \/ Elasticsearch
    \/ Group

Spec == Init /\ [][Next]_vars

(* As in MessageHandler, and: an instance that is up gets to its consumer,  *)
(* the client commits what is marked, and the group does not leave a        *)
(* partition without an owner.                                              *)
Fairness ==
    /\ \A i \in Instance : WF_vars(Connect(i))
    /\ \A i \in Instance, p \in Partition :
          /\ WF_vars(PassOver(i, p) \/ Begin(i, p))
          /\ WF_vars(MapDocument(i, p))
          /\ WF_vars(DeadlinePasses(i, p))
          /\ SF_vars(SendRequest(i, p))
          /\ WF_vars(Finish(i, p))
    /\ \A p \in Partition : WF_vars(Commit(p))
    /\ WF_vars(Orphaned /\ Rebalance)

FairSpec == Spec /\ Fairness

-----------------------------------------------------------------------------
(* Properties. *)

TypeOK ==
    /\ topic \in Topics
    /\ index \in [Uuid -> Value]
    /\ committed \in [Partition -> Nat]
    /\ owner \in [Partition -> consuming \cup {Nobody}]
    /\ pos \in [Partition -> Nat]
    /\ session \in Nat /\ troubles \in Nat
    /\ consuming \subseteq Instance
    /\ mu \in [Instance -> Partition \cup {Free}]
    /\ work \in [Instance -> [Partition -> Job \cup {Idle}]]
    /\ orphans \subseteq Orphan
    /\ handled \subseteq Event

(* The mutex of each instance is held by the one handler it has inside      *)
(* WriteData or DeleteData, also while that handler works for a partition   *)
(* the instance has lost: at most one request per instance is awaited.      *)
OneRequestPerInstance ==
    \A i \in Instance, p \in Partition :
        mu[i] = p <=> Stage(i, p) \in {"sent", "done", "failed"}

(* A partition is handled by its owner's current session, or by stale       *)
(* handlers of earlier ones: an instance that is given a partition back     *)
(* never runs two handlers of it, nor an old event in the new session.      *)
OwnersWorkOnTheirSession ==
    \A i \in Instance, p \in Partition :
        work[i][p] # Idle =>
            /\ work[i][p].session <= session
            /\ owner[p] = i <=> work[i][p].session = session
            /\ owner[p] = i => work[i][p].event = Current(p)

(* No event is skipped: whatever is committed was in the hands of a handler *)
(* that returned, however often the partition changed hands in between.     *)
AtLeastOnce ==
    \A p \in Partition : \A o \in 1 .. committed[p] :
        [part |-> p, off |-> o] \in handled

(* The first event of a partition whose fate its owner has not decided.     *)
Undecided ==
    [p \in Partition |->
        pos[p] + (IF \E i \in Instance : owner[p] = i /\ Stage(i, p) \in {"done", "failed"}
                  THEN 2 ELSE 1)]

(* Events that reach the index outside the order, if at all: those of       *)
(* requests nobody waits for and of stale handlers before their answer.     *)
Identity(d) == [event |-> d.event, session |-> d.session]
Late ==
    {Identity(o) : o \in orphans} \cup
    {Identity(work[ip[1]][ip[2]]) : ip \in
        {jp \in Instance \X Partition :
            /\ Stage(jp[1], jp[2]) \in {"mapping", "waiting", "sent"}
            /\ Stale(jp[1], jp[2])}}

Ordered == INSTANCE OrderedIndex WITH next <- Undecided, late <- Late

(* Instances that come, go and keep working on partitions they have lost    *)
(* promise no less than one instance that restarts: each partition reaches  *)
(* the index in the order of its log and at most once between two changes   *)
(* of owner; only what was under way at such a change, or was given up,     *)
(* comes late, and once.                                                    *)
GroupRefinesOrderedIndex == Ordered!Spec

(* Crashes and rebalances that come to an end do not keep the group from    *)
(* consuming the topic and committing it, with Elasticsearch silent as much *)
(* as with Elasticsearch answering.                                         *)
TopicCommitted ==
    <>[](\A p \in Partition : committed[p] = Len(topic[p]))

=============================================================================
