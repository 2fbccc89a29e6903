------------------------ MODULE MessageHandlerProofs ------------------------
(***************************************************************************)
(* The safety of MessageHandler for any number of partitions, documents    *)
(* and restarts and any topics; what reaches the index and in what order:  *)
(* only events entitled to it, and as OrderedIndex promises; and how the   *)
(* decisions about related events go together, for any event.              *)
(*                                                                         *)
(* SavedMeansIndexed and ReportsAccountForIndex are inductive only         *)
(* together and beside five facts: the mutex, the place and the request    *)
(* of a handler go together (HandlerInv), a handler at work has an event   *)
(* to work on (WorkInv), so has an orphaned request (OrphanInv), two       *)
(* handlers that have yet to log a success about one document have crossed *)
(* (OneReporter), and only documents spread over partitions are crossed    *)
(* (CrossedSpread).                                                        *)
(***************************************************************************)
EXTENDS MessageHandler, MessageDecision, WellFoundedInduction, TLAPS

(* The mutex is held, and a request awaited, exactly inside the service;    *)
(* the handler keeps the answer until it has logged.                        *)
HandlerInv ==
    \A p \in Partition :
        /\ (mu = p) <=> (pc[p] = "es")
        /\ (req[p] # "none") <=> (pc[p] \in {"es", "log"})
        /\ req[p] = "sent" => pc[p] = "es"

(* A handler at work has an event of its partition.                         *)
WorkInv == \A p \in Partition : pc[p] # "idle" => Pending(p)

(* An orphaned request belongs to an event of the topic.                    *)
OrphanInv ==
    \A o \in orphans : o.event.off \in 1 .. Len(topic[o.event.part])

(* Events are delivered after the client is there.                          *)
StarterInv ==
    /\ starter \in {"connected", "consuming"} => client
    /\ \A p \in Partition : pc[p] # "idle" => starter = "consuming"

(* Two successes about one document wait to be logged only after crossing.  *)
OneReporter ==
    \A p, q \in Partition :
        /\ p # q
        /\ req[p] = "done"
        /\ req[q] = "done"
        /\ CurrentUuid(p) = CurrentUuid(q)
        => CurrentUuid(p) \in crossed

CrossedSpread == \A u \in crossed : Spread(u)

IndexInv ==
    SavedMeansIndexed /\ ReportsAccountForIndex /\ OneReporter /\ CrossedSpread

IInv == TypeOK /\ HandlerInv /\ WorkInv /\ OrphanInv /\ StarterInv /\ IndexInv

-----------------------------------------------------------------------------
(* What an event of the topic and its effect are.                           *)

LEMMA MsgType ==
    ASSUME TypeOK, NEW e, e.part \in Partition,
           e.off \in 1 .. Len(topic[e.part])
    PROVE  /\ Msg(e).uuid \in Uuid
           /\ Msg(e).deleted \in BOOLEAN
  <1>1. topic \in [Partition -> Seq(Message)]
    BY TopicsAssumption DEF TypeOK
  <1>2. Msg(e) \in Message
    BY <1>1 DEF Msg
  <1>3. QED
    BY <1>2 DEF Message

LEMMA EffectType ==
    ASSUME TypeOK, NEW e \in Event, e.off \in 1 .. Len(topic[e.part]),
           NEW b \in BOOLEAN
    PROVE  Effect(e, b) \in Value
  BY DEF Effect, Value, Doc

LEMMA CurrentType ==
    ASSUME TypeOK, NEW p \in Partition, Pending(p)
    PROVE  /\ Current(p) \in Event
           /\ Current(p).part = p
           /\ Current(p).off \in 1 .. Len(topic[p])
           /\ CurrentUuid(p) \in Uuid
           /\ CurrentEffect(p) \in Value
  <1>1. topic \in [Partition -> Seq(Message)]
    BY TopicsAssumption DEF TypeOK
  <1>2. /\ pos[p] \in Nat
        /\ Len(topic[p]) \in Nat
        /\ pos[p] < Len(topic[p])
    BY <1>1 DEF TypeOK, Pending
  <1>3. /\ Current(p) \in Event
        /\ Current(p).part = p
        /\ Current(p).off \in 1 .. Len(topic[p])
    BY <1>2 DEF Current, Event
  <1>4. CurrentUuid(p) \in Uuid
    BY <1>3, MsgType DEF CurrentUuid
  <1>5. enriched[p] \in BOOLEAN
    BY DEF TypeOK
  <1>6. CurrentEffect(p) \in Value
    BY <1>3, <1>5, EffectType DEF CurrentEffect
  <1>7. QED
    BY <1>3, <1>4, <1>6

(* A step that leaves a handler's event and payload alone leaves its        *)
(* document and its effect alone.                                           *)
LEMMA CurrentFrame ==
    ASSUME NEW p \in Partition, topic' = topic, pos'[p] = pos[p],
           enriched'[p] = enriched[p]
    PROVE  /\ CurrentUuid(p)' = CurrentUuid(p)
           /\ CurrentEffect(p)' = CurrentEffect(p)
  BY DEF CurrentUuid, CurrentEffect, Current, Effect, Msg

-----------------------------------------------------------------------------
(* Type correctness.  An event is looked at only while it is pending.       *)

LEMMA ReturnType ==
    ASSUME TypeOK, NEW p \in Partition, Return(p)
    PROVE  /\ pc' \in [Partition -> {"idle", "policy", "concordance", "lock", "es", "log"}]
           /\ enriched' \in [Partition -> BOOLEAN]
           /\ ctx' \in [Partition -> {"none", "live", "expired"}]
           /\ req' \in [Partition -> {"none", "sent", "done", "failed"}]
           /\ pos' \in [Partition -> Nat]
  BY DEF TypeOK, Return

LEMMA LeaveBehindType ==
    ASSUME TypeOK, HandlerInv, WorkInv, OrphanInv,
           NEW Q \in SUBSET Partition, LeaveBehind(Q), topic' = topic
    PROVE  /\ orphans' \subseteq Orphan
           /\ stray' \subseteq Uuid
           /\ OrphanInv'
  <1>1. ASSUME NEW p \in Q, req[p] \in {"sent", "done"}
        PROVE  /\ Current(p) \in Event
               /\ Current(p).off \in 1 .. Len(topic[Current(p).part])
               /\ CurrentUuid(p) \in Uuid
    BY <1>1, CurrentType DEF HandlerInv, WorkInv
  <1>2. stray' \subseteq Uuid
    BY <1>1 DEF LeaveBehind, TypeOK
  <1>3. ASSUME NEW o \in orphans'
        PROVE  /\ o \in Orphan
               /\ o.event.off \in 1 .. Len(topic[o.event.part])
    <2>1. CASE o \in orphans
      BY <2>1 DEF TypeOK, OrphanInv
    <2>2. CASE o \notin orphans
      <3>1. PICK p \in Q : /\ req[p] = "sent"
                           /\ o = [event |-> Current(p), enriched |-> enriched[p],
                                   life |-> life]
        BY <2>2 DEF LeaveBehind
      <3>2. enriched[p] \in BOOLEAN /\ life \in Nat
        BY DEF TypeOK
      <3>3. QED
        BY <1>1, <3>1, <3>2 DEF Orphan
    <2>3. QED
      BY <2>1, <2>2
  <1>4. QED
    BY <1>2, <1>3 DEF OrphanInv

LEMMA TypeStep ==
    ASSUME TypeOK, HandlerInv, WorkInv, OrphanInv, [Next]_vars
    PROVE  TypeOK'
  <1> USE DEF TypeOK, outsideVars, startVars, handlerVars, storeVars, historyVars
  <1>1. CASE ConnectFails \/ WakeUp \/ SetClient \/ StartConsumer
    BY <1>1 DEF ConnectFails, WakeUp, SetClient, StartConsumer
  <1>2. ASSUME NEW p \in Partition, Handle(p) \/ Commit(p) PROVE TypeOK'
    <2>1. CASE Ignore(p) \/ PolicyFails(p) \/ PolicyDrops(p) \/ LogFailure(p)
      BY <2>1, ReturnType DEF Ignore, PolicyFails, PolicyDrops, LogFailure
    <2>2. CASE Deliver(p) \/ PolicyAllows(p)
      BY <2>2 DEF Deliver, PolicyAllows
    <2>3. CASE ConcordanceReplies(p) \/ DeadlinePasses(p)
      BY <2>3 DEF ConcordanceReplies, DeadlinePasses
    <2>4. CASE SendRequest(p)
      BY <2>4 DEF SendRequest
    <2>5. CASE Report(p)
      <3>1. CurrentUuid(p) \in Uuid /\ CurrentEffect(p) \in Value
        BY <2>5, CurrentType DEF Report, WorkInv
      <3>2. QED
        BY <2>5, <3>1, ReturnType DEF Report
    <2>6. CASE GiveUp(p)
      <3>1. orphans' \subseteq Orphan /\ stray' \subseteq Uuid
        BY <2>6, LeaveBehindType DEF GiveUp
      <3>2. QED
        BY <2>6, <3>1 DEF GiveUp
    <2>7. CASE ServiceReturns(p) \/ Commit(p)
      BY <2>7 DEF ServiceReturns, Unlocked, Commit
    <2>8. QED
      BY <1>2, <2>1, <2>2, <2>3, <2>4, <2>5, <2>6, <2>7 DEF Handle
  <1>3. ASSUME NEW p \in Partition, EsApplies(p) PROVE TypeOK'
    <2>1. CurrentUuid(p) \in Uuid /\ CurrentEffect(p) \in Value
      BY <1>3, CurrentType DEF EsApplies, WorkInv, HandlerInv
    <2>2. QED
      BY <1>3, <2>1 DEF EsApplies
  <1>4. ASSUME NEW p \in Partition, EsRefuses(p) PROVE TypeOK'
    BY <1>4 DEF EsRefuses
  <1>5. ASSUME NEW p \in Partition, ConnectionBreaks(p) PROVE TypeOK'
    <2>1. orphans' \subseteq Orphan /\ stray' \subseteq Uuid
      BY <1>5, LeaveBehindType DEF ConnectionBreaks
    <2>2. QED
      BY <1>5, <2>1 DEF ConnectionBreaks
  <1>6. ASSUME NEW o \in orphans, OrphanLands(o) PROVE TypeOK'
    <2>1. /\ o.event \in Event
          /\ o.event.part \in Partition
          /\ o.enriched \in BOOLEAN
          /\ o.event.off \in 1 .. Len(topic[o.event.part])
      BY <1>6 DEF Orphan, Event, OrphanInv
    <2>2. Msg(o.event).uuid \in Uuid /\ Effect(o.event, o.enriched) \in Value
      BY <2>1, MsgType, EffectType
    <2>3. QED
      BY <1>6, <2>2 DEF OrphanLands
  <1>7. ASSUME NEW o \in orphans, OrphanIsLost(o) PROVE TypeOK'
    BY <1>7 DEF OrphanIsLost
  <1>8. CASE Restart
    <2>1. orphans' \subseteq Orphan /\ stray' \subseteq Uuid
      BY <1>8, LeaveBehindType DEF Restart
    <2>2. /\ life' \in Nat
          /\ pos' \in [Partition -> Nat]
          /\ UNCHANGED <<topic, committed, index, reported, crossed>>
      BY <1>8 DEF Restart, Resume
    <2>3. /\ client' \in BOOLEAN
          /\ starter' = "connecting"
          /\ mu' \in Partition \cup {Free}
          /\ pc' \in [Partition -> {"idle", "policy", "concordance", "lock", "es", "log"}]
          /\ enriched' \in [Partition -> BOOLEAN]
          /\ ctx' \in [Partition -> {"none", "live", "expired"}]
          /\ req' \in [Partition -> {"none", "sent", "done", "failed"}]
      BY <1>8 DEF Restart
    <2>4. QED
      BY <2>1, <2>2, <2>3
  <1>9. CASE UNCHANGED vars
    BY <1>9 DEF vars
  <1>10. QED
    BY <1>1, <1>2, <1>3, <1>4, <1>5, <1>6, <1>7, <1>8, <1>9
       DEF Next, Elasticsearch

-----------------------------------------------------------------------------
(* The mutex, the place and the request of a handler go together.           *)

LEMMA ReturnHandler ==
    ASSUME TypeOK, HandlerInv, NEW p \in Partition, pc[p] # "es", Return(p),
           mu' = mu
    PROVE  HandlerInv'
  BY DEF TypeOK, HandlerInv, Return

LEMMA HandlerStep ==
    ASSUME TypeOK, HandlerInv, [Next]_vars
    PROVE  HandlerInv'
  <1> USE DEF TypeOK, HandlerInv, outsideVars, startVars, handlerVars, storeVars, historyVars
  <1>1. CASE ConnectFails \/ WakeUp \/ SetClient \/ StartConsumer
    BY <1>1 DEF ConnectFails, WakeUp, SetClient, StartConsumer
  <1>2. ASSUME NEW p \in Partition, Handle(p) \/ Commit(p) PROVE HandlerInv'
    <2>1. CASE \/ Ignore(p) \/ PolicyFails(p) \/ PolicyDrops(p)
               \/ Report(p) \/ LogFailure(p)
      BY <2>1, ReturnHandler
         DEF Ignore, PolicyFails, PolicyDrops, Report, LogFailure
    <2>2. CASE Deliver(p) \/ PolicyAllows(p) \/ ConcordanceReplies(p)
      BY <2>2 DEF Deliver, PolicyAllows, ConcordanceReplies
    <2>3. CASE DeadlinePasses(p) \/ Commit(p)
      BY <2>3 DEF DeadlinePasses, Commit
    <2>4. CASE SendRequest(p)
      BY <2>4, FreeAssumption DEF SendRequest, MutexFree
    <2>5. CASE GiveUp(p) \/ ServiceReturns(p)
      BY <2>5, FreeAssumption DEF GiveUp, ServiceReturns, Unlocked
    <2>6. QED
      BY <1>2, <2>1, <2>2, <2>3, <2>4, <2>5 DEF Handle
  <1>3. ASSUME NEW p \in Partition,
               EsApplies(p) \/ EsRefuses(p) \/ ConnectionBreaks(p)
        PROVE  HandlerInv'
    BY <1>3 DEF EsApplies, EsRefuses, ConnectionBreaks
  <1>4. ASSUME NEW o \in orphans, OrphanLands(o) \/ OrphanIsLost(o)
        PROVE  HandlerInv'
    BY <1>4 DEF OrphanLands, OrphanIsLost
  <1>5. CASE Restart
    BY <1>5, FreeAssumption DEF Restart
  <1>6. CASE UNCHANGED vars
    BY <1>6 DEF vars
  <1>7. QED
    BY <1>1, <1>2, <1>3, <1>4, <1>5, <1>6 DEF Next, Elasticsearch

-----------------------------------------------------------------------------
(* Handlers and orphaned requests have an event of the topic.               *)

LEMMA WorkStep ==
    ASSUME TypeOK, WorkInv, [Next]_vars
    PROVE  WorkInv'
  <1> USE DEF TypeOK, WorkInv, Pending, outsideVars, startVars, handlerVars, storeVars, historyVars
  <1>1. CASE ConnectFails \/ WakeUp \/ SetClient \/ StartConsumer
    BY <1>1 DEF ConnectFails, WakeUp, SetClient, StartConsumer
  <1>2. ASSUME NEW p \in Partition, Handle(p) \/ Commit(p) PROVE WorkInv'
    <2>1. CASE \/ Ignore(p) \/ PolicyFails(p) \/ PolicyDrops(p)
               \/ Report(p) \/ LogFailure(p)
      BY <2>1
         DEF Ignore, PolicyFails, PolicyDrops, Report, LogFailure, Return
    <2>2. CASE Deliver(p) \/ PolicyAllows(p) \/ ConcordanceReplies(p)
      BY <2>2 DEF Deliver, PolicyAllows, ConcordanceReplies
    <2>3. CASE \/ DeadlinePasses(p) \/ SendRequest(p) \/ Commit(p)
               \/ GiveUp(p) \/ ServiceReturns(p)
      BY <2>3 DEF DeadlinePasses, SendRequest, Commit, GiveUp, ServiceReturns
    <2>4. QED
      BY <1>2, <2>1, <2>2, <2>3 DEF Handle
  <1>3. ASSUME NEW p \in Partition,
               EsApplies(p) \/ EsRefuses(p) \/ ConnectionBreaks(p)
        PROVE  WorkInv'
    BY <1>3 DEF EsApplies, EsRefuses, ConnectionBreaks
  <1>4. ASSUME NEW o \in orphans, OrphanLands(o) \/ OrphanIsLost(o)
        PROVE  WorkInv'
    BY <1>4 DEF OrphanLands, OrphanIsLost
  <1>5. CASE Restart
    BY <1>5 DEF Restart
  <1>6. CASE UNCHANGED vars
    BY <1>6 DEF vars
  <1>7. QED
    BY <1>1, <1>2, <1>3, <1>4, <1>5, <1>6 DEF Next, Elasticsearch

LEMMA OrphanStep ==
    ASSUME TypeOK, HandlerInv, WorkInv, OrphanInv, [Next]_vars
    PROVE  OrphanInv'
  <1>1. topic' = topic
    BY DEF Next, Handle, Elasticsearch, vars, outsideVars, ConnectFails, WakeUp,
           SetClient, StartConsumer, Ignore, Deliver, PolicyFails, PolicyDrops,
           PolicyAllows, ConcordanceReplies, DeadlinePasses, SendRequest, Report,
           LogFailure, GiveUp, ServiceReturns, EsApplies, EsRefuses, ConnectionBreaks,
           OrphanLands, OrphanIsLost, Commit, Restart
  <1>2. CASE orphans' \subseteq orphans
    BY <1>1, <1>2 DEF OrphanInv
  <1>3. CASE \E p \in Partition : GiveUp(p) \/ ConnectionBreaks(p)
    BY <1>1, <1>3, LeaveBehindType DEF GiveUp, ConnectionBreaks
  <1>4. CASE Restart
    BY <1>1, <1>4, LeaveBehindType DEF Restart
  <1>5. QED
    BY <1>2, <1>3, <1>4
       DEF Next, Handle, Elasticsearch, vars, storeVars, ConnectFails, WakeUp,
           SetClient, StartConsumer, Ignore, Deliver, PolicyFails, PolicyDrops,
           PolicyAllows, ConcordanceReplies, DeadlinePasses, SendRequest, Report,
           LogFailure, ServiceReturns, EsApplies, EsRefuses, OrphanLands, OrphanIsLost, Commit

LEMMA StarterStep ==
    ASSUME TypeOK, StarterInv, [Next]_vars
    PROVE  StarterInv'
  <1> USE DEF TypeOK, StarterInv, outsideVars, startVars, handlerVars, storeVars, historyVars
  <1>1. CASE ConnectFails \/ WakeUp \/ SetClient \/ StartConsumer
    BY <1>1 DEF ConnectFails, WakeUp, SetClient, StartConsumer
  <1>2. ASSUME NEW p \in Partition, Handle(p) \/ Commit(p) PROVE StarterInv'
    <2>1. CASE \/ Ignore(p) \/ PolicyFails(p) \/ PolicyDrops(p)
               \/ Report(p) \/ LogFailure(p)
      BY <2>1
         DEF Ignore, PolicyFails, PolicyDrops, Report, LogFailure, Return
    <2>2. CASE Deliver(p) \/ PolicyAllows(p) \/ ConcordanceReplies(p)
      BY <2>2 DEF Deliver, PolicyAllows, ConcordanceReplies
    <2>3. CASE \/ DeadlinePasses(p) \/ SendRequest(p) \/ Commit(p)
               \/ GiveUp(p) \/ ServiceReturns(p)
      BY <2>3 DEF DeadlinePasses, SendRequest, Commit, GiveUp, ServiceReturns
    <2>4. QED
      BY <1>2, <2>1, <2>2, <2>3 DEF Handle
  <1>3. ASSUME NEW p \in Partition,
               EsApplies(p) \/ EsRefuses(p) \/ ConnectionBreaks(p)
        PROVE  StarterInv'
    BY <1>3 DEF EsApplies, EsRefuses, ConnectionBreaks
  <1>4. ASSUME NEW o \in orphans, OrphanLands(o) \/ OrphanIsLost(o)
        PROVE  StarterInv'
    BY <1>4 DEF OrphanLands, OrphanIsLost
  <1>5. CASE Restart
    BY <1>5 DEF Restart
  <1>6. CASE UNCHANGED vars
    BY <1>6 DEF vars
  <1>7. QED
    BY <1>1, <1>2, <1>3, <1>4, <1>5, <1>6 DEF Next, Elasticsearch

-----------------------------------------------------------------------------
(* The index and the reports.                                               *)

(* Nothing is lost by a step that touches neither the index nor the reports *)
(* nor an applied request, and locks the mutex for none of those.           *)
LEMMA IndexFrame ==
    ASSUME IndexInv,
           UNCHANGED <<topic, index, reported, stray, crossed>>,
           \A p \in Partition : req'[p] = "done" <=> req[p] = "done",
           \A p \in Partition :
               req[p] = "done" => /\ pos'[p] = pos[p] /\ enriched'[p] = enriched[p]
                                  /\ mu' = p => mu = p
    PROVE  IndexInv'
  <1>1. ASSUME NEW p \in Partition, req[p] = "done"
        PROVE  /\ CurrentUuid(p)' = CurrentUuid(p)
               /\ CurrentEffect(p)' = CurrentEffect(p)
    BY <1>1, CurrentFrame
  <1>2. SavedMeansIndexed'
    BY <1>1 DEF IndexInv, SavedMeansIndexed
  <1>3. ReportsAccountForIndex'
    BY <1>1 DEF IndexInv, ReportsAccountForIndex, Spread
  <1>4. OneReporter' /\ CrossedSpread'
    BY <1>1 DEF IndexInv, OneReporter, CrossedSpread, Spread
  <1>5. QED
    BY <1>2, <1>3, <1>4 DEF IndexInv

(* A handler returns, and the request had not been applied, if there was    *)
(* one.                                                                     *)
LEMMA IndexReturn ==
    ASSUME TypeOK, IndexInv, NEW p \in Partition, Return(p),
           req[p] # "done", UNCHANGED <<topic, mu, index, reported, stray, crossed>>
    PROVE  IndexInv'
  <1>1. \A q \in Partition : req'[q] = "done" <=> req[q] = "done"
    BY DEF TypeOK, Return
  <1>2. \A q \in Partition :
            req[q] = "done" => pos'[q] = pos[q] /\ enriched'[q] = enriched[q]
    BY DEF TypeOK, Return
  <1>3. QED
    BY <1>1, <1>2, IndexFrame

LEMMA ReportIndex ==
    ASSUME TypeOK, IndexInv, NEW p \in Partition, Report(p)
    PROVE  IndexInv'
  <1> DEFINE u == CurrentUuid(p)
  <1>1. UNCHANGED <<topic, index, stray, crossed, mu>>
    BY DEF Report, outsideVars, storeVars
  <1>2. ASSUME NEW q \in Partition, q # p
        PROVE  /\ req'[q] = req[q]
               /\ CurrentUuid(q)' = CurrentUuid(q)
               /\ CurrentEffect(q)' = CurrentEffect(q)
    BY <1>1, <1>2, CurrentFrame DEF Report, Return, TypeOK
  <1>3. req[p] = "done" /\ req'[p] # "done"
    BY DEF Report, Return, TypeOK
  <1>4. SavedMeansIndexed'
    BY <1>1, <1>2, <1>3 DEF IndexInv, SavedMeansIndexed
  <1>5. OneReporter' /\ CrossedSpread'
    BY <1>1, <1>2, <1>3 DEF IndexInv, OneReporter, CrossedSpread, Spread
  <1>6. ASSUME NEW v \in Uuid, v \notin stray, v \notin crossed
        PROVE  \/ index[v] = reported'[v]
               \/ \E q \in Partition : req'[q] = "done" /\ CurrentUuid(q)' = v
    <2>1. CASE v = u
      <3>1. reported'[v] = CurrentEffect(p)
        BY <2>1 DEF Report, TypeOK
      <3>2. index[v] = CurrentEffect(p)
        BY <1>3, <1>6, <2>1 DEF IndexInv, SavedMeansIndexed
      <3>3. QED
        BY <3>1, <3>2
    <2>2. CASE v # u
      <3>1. reported'[v] = reported[v]
        BY <2>2 DEF Report, TypeOK
      <3>2. \/ index[v] = reported[v]
            \/ \E q \in Partition \ {p} : req[q] = "done" /\ CurrentUuid(q) = v
        BY <1>6, <2>2 DEF IndexInv, ReportsAccountForIndex
      <3>3. QED
        BY <1>2, <3>1, <3>2
    <2>3. QED
      BY <2>1, <2>2
  <1>7. ReportsAccountForIndex'
    BY <1>1, <1>5, <1>6 DEF ReportsAccountForIndex, CrossedSpread, Spread
  <1>8. QED
    BY <1>4, <1>5, <1>7 DEF IndexInv

(* A request that is no longer waited for: what it did is strayed.          *)
LEMMA LeaveBehindIndex ==
    ASSUME IndexInv, NEW Q \in SUBSET Partition, LeaveBehind(Q),
           \A q \in Partition : req'[q] = "done" <=> req[q] = "done" /\ q \notin Q,
           \A q \in Partition :
               req'[q] = "done" => /\ pos'[q] = pos[q] /\ enriched'[q] = enriched[q]
                                   /\ mu' = q => mu = q,
           UNCHANGED <<topic, index, reported, crossed>>
    PROVE  IndexInv'
  <1>1. stray \subseteq stray'
    BY DEF LeaveBehind
  <1>2. ASSUME NEW q \in Partition, req'[q] = "done"
        PROVE  /\ CurrentUuid(q)' = CurrentUuid(q)
               /\ CurrentEffect(q)' = CurrentEffect(q)
    BY <1>2, CurrentFrame
  <1>3. SavedMeansIndexed'
    BY <1>1, <1>2 DEF IndexInv, SavedMeansIndexed
  <1>4. OneReporter' /\ CrossedSpread'
    BY <1>2 DEF IndexInv, OneReporter, CrossedSpread, Spread
  <1>5. ASSUME NEW u \in Uuid, u \notin stray', u \notin crossed
        PROVE  \/ index[u] = reported[u]
               \/ \E q \in Partition : req'[q] = "done" /\ CurrentUuid(q)' = u
    <2>1. \/ index[u] = reported[u]
          \/ \E q \in Partition : req[q] = "done" /\ CurrentUuid(q) = u
      BY <1>1, <1>5 DEF IndexInv, ReportsAccountForIndex
    <2>2. ASSUME NEW q \in Partition, req[q] = "done", CurrentUuid(q) = u
          PROVE  req'[q] = "done"
      BY <1>5, <2>2 DEF LeaveBehind
    <2>3. QED
      BY <1>2, <2>1, <2>2
  <1>6. ReportsAccountForIndex'
    BY <1>4, <1>5 DEF ReportsAccountForIndex, CrossedSpread, Spread
  <1>7. QED
    BY <1>3, <1>4, <1>6 DEF IndexInv

(* A document that two handlers are about is spread over their partitions.  *)
LEMMA TwoWorkersSpread ==
    ASSUME TypeOK, WorkInv, NEW p \in Partition, NEW q \in Partition, p # q,
           pc[p] # "idle", pc[q] # "idle", CurrentUuid(p) = CurrentUuid(q)
    PROVE  Spread(CurrentUuid(p))
  <1>1. /\ Current(p).off \in 1 .. Len(topic[p]) /\ Current(p).part = p
        /\ Current(q).off \in 1 .. Len(topic[q]) /\ Current(q).part = q
    BY CurrentType DEF WorkInv
  <1>2. topic \in [Partition -> Seq(Message)]
    BY TopicsAssumption DEF TypeOK
  <1>3. /\ Current(p).off \in DOMAIN topic[p]
        /\ Current(q).off \in DOMAIN topic[q]
    BY <1>1, <1>2
  <1>4. /\ topic[p][Current(p).off].uuid = CurrentUuid(p)
        /\ topic[q][Current(q).off].uuid = CurrentUuid(p)
    BY <1>1 DEF CurrentUuid, Msg
  <1>5. QED
    BY <1>3, <1>4 DEF Spread

LEMMA EsAppliesIndex ==
    ASSUME TypeOK, HandlerInv, WorkInv, IndexInv, NEW p \in Partition,
           EsApplies(p)
    PROVE  IndexInv'
  <1> DEFINE u == CurrentUuid(p)
  <1>1. UNCHANGED <<topic, pos, enriched, reported, mu>>
    BY DEF EsApplies, outsideVars
  <1>2. \A q \in Partition : /\ CurrentUuid(q)' = CurrentUuid(q)
                             /\ CurrentEffect(q)' = CurrentEffect(q)
    BY <1>1, CurrentFrame
  <1>3. pc[p] = "es" /\ mu = p
    BY DEF EsApplies, HandlerInv
  <1>4. ASSUME NEW q \in Partition, q # p
        PROVE  /\ req'[q] = req[q]
               /\ req[q] = "done" => pc[q] = "log"
    BY <1>3, <1>4 DEF EsApplies, HandlerInv, TypeOK
  <1>5. req'[p] = "done"
    BY DEF EsApplies, TypeOK
  <1>6. /\ u \in Uuid
        /\ index'[u] = CurrentEffect(p)
        /\ \A v \in Uuid \ {u} : index'[v] = index[v]
    BY <1>3, CurrentType DEF EsApplies, TypeOK, WorkInv
  <1>7. \A v \in Uuid \ {u} : /\ v \in stray' <=> v \in stray
                              /\ v \in crossed' <=> v \in crossed
    BY DEF EsApplies
  <1>8. ASSUME NEW q \in Partition, q # p, req[q] = "done", CurrentUuid(q) = u
        PROVE  Unlogged(p) /\ u \in crossed'
    BY <1>4, <1>8 DEF Unlogged, EsApplies
  <1>9. \A q \in Partition : req[q] = "done" => CurrentUuid(q) \in Uuid
    BY CurrentType DEF HandlerInv, WorkInv
  <1>10. SavedMeansIndexed'
    <2>1. ASSUME NEW q \in Partition, req'[q] = "done", CurrentUuid(q) \notin stray',
                 mu' = q \/ CurrentUuid(q) \notin crossed'
          PROVE  index'[CurrentUuid(q)] = CurrentEffect(q)
      <3>1. CASE q = p
        BY <1>6, <3>1
      <3>2. CASE q # p
        <4>1. req[q] = "done" /\ mu' # q
          BY <1>1, <1>3, <1>4, <2>1, <3>2
        <4>2. CurrentUuid(q) \in Uuid \ {u}
          BY <1>8, <1>9, <2>1, <3>2, <4>1
        <4>3. QED
          BY <1>6, <1>7, <2>1, <4>1, <4>2 DEF IndexInv, SavedMeansIndexed
      <3>3. QED
        BY <3>1, <3>2
    <2>2. QED
      BY <1>2, <2>1 DEF SavedMeansIndexed
  <1>11. CrossedSpread'
    <2>1. Unlogged(p) => Spread(u)
      BY <1>3, TwoWorkersSpread DEF Unlogged
    <2>2. \A v \in crossed' : Spread(v)
      BY <2>1 DEF EsApplies, IndexInv, CrossedSpread
    <2>3. QED
      BY <1>1, <2>2 DEF CrossedSpread, Spread
  <1>12. OneReporter'
    <2>1. ASSUME NEW q \in Partition, NEW r \in Partition, q # r,
                 req'[q] = "done", req'[r] = "done", CurrentUuid(q) = CurrentUuid(r)
          PROVE  CurrentUuid(q) \in crossed'
      <3>1. CASE CurrentUuid(q) = u
        BY <1>4, <1>8, <2>1, <3>1
      <3>2. CASE CurrentUuid(q) # u
        <4>1. req[q] = "done" /\ req[r] = "done"
          BY <1>4, <2>1, <3>2
        <4>2. QED
          BY <1>7, <1>9, <2>1, <3>2, <4>1 DEF IndexInv, OneReporter
      <3>3. QED
        BY <3>1, <3>2
    <2>2. QED
      BY <1>2, <2>1 DEF OneReporter
  <1>13. ReportsAccountForIndex'
    <2>1. ASSUME NEW v \in Uuid, v # u, v \notin stray', v \notin crossed'
          PROVE  \/ index'[v] = reported[v]
                 \/ \E q \in Partition : req'[q] = "done" /\ CurrentUuid(q) = v
      BY <1>4, <1>6, <1>7, <2>1 DEF IndexInv, ReportsAccountForIndex
    <2>2. QED
      BY <1>1, <1>2, <1>5, <1>11, <2>1
         DEF ReportsAccountForIndex, CrossedSpread, Spread
  <1>14. QED
    BY <1>10, <1>11, <1>12, <1>13 DEF IndexInv

LEMMA OrphanLandsIndex ==
    ASSUME TypeOK, IndexInv, NEW o \in orphans, OrphanLands(o)
    PROVE  IndexInv'
  <1> DEFINE u == Msg(o.event).uuid
  <1>1. UNCHANGED <<topic, mu, pos, enriched, req, reported, crossed>>
    BY DEF OrphanLands, outsideVars, handlerVars
  <1>2. \A q \in Partition : /\ CurrentUuid(q)' = CurrentUuid(q)
                             /\ CurrentEffect(q)' = CurrentEffect(q)
    BY <1>1, CurrentFrame
  <1>3. stray' = stray \cup {u}
    BY DEF OrphanLands
  <1>4. \A v \in Uuid \ {u} : index'[v] = index[v]
    BY DEF OrphanLands, TypeOK
  <1>5. ReportsAccountForIndex'
    BY <1>1, <1>2, <1>3, <1>4 DEF IndexInv, ReportsAccountForIndex, Spread
  <1>6. SavedMeansIndexed'
    <2>1. ASSUME NEW q \in Partition, req[q] = "done", CurrentUuid(q) \notin stray',
                 mu = q \/ CurrentUuid(q) \notin crossed
          PROVE  index'[CurrentUuid(q)] = CurrentEffect(q)
      <3>1. index'[CurrentUuid(q)] = index[CurrentUuid(q)]
        BY <1>3, <2>1 DEF OrphanLands, TypeOK
      <3>2. QED
        BY <1>3, <2>1, <3>1 DEF IndexInv, SavedMeansIndexed
    <2>2. QED
      BY <1>1, <1>2, <2>1 DEF SavedMeansIndexed
  <1>7. OneReporter' /\ CrossedSpread'
    BY <1>1, <1>2 DEF IndexInv, OneReporter, CrossedSpread, Spread
  <1>8. QED
    BY <1>5, <1>6, <1>7 DEF IndexInv

LEMMA IndexStep ==
    ASSUME TypeOK, HandlerInv, WorkInv, IndexInv, [Next]_vars
    PROVE  IndexInv'
  <1> USE DEF outsideVars, startVars, handlerVars, storeVars, historyVars
  <1>1. CASE \/ ConnectFails \/ WakeUp \/ SetClient \/ StartConsumer
             \/ UNCHANGED vars
    BY <1>1, IndexFrame
       DEF ConnectFails, WakeUp, SetClient, StartConsumer, vars
  <1>2. ASSUME NEW p \in Partition, Handle(p) \/ Commit(p) PROVE IndexInv'
    <2>1. CASE Ignore(p) \/ PolicyFails(p) \/ PolicyDrops(p)
      <3>1. req[p] = "none"
        BY <2>1 DEF Ignore, PolicyFails, PolicyDrops, HandlerInv
      <3>2. QED
        BY <2>1, <3>1, IndexReturn DEF Ignore, PolicyFails, PolicyDrops
    <2>2. CASE Deliver(p) \/ PolicyAllows(p) \/ DeadlinePasses(p) \/ Commit(p)
      BY <2>2, IndexFrame DEF Deliver, PolicyAllows, DeadlinePasses, Commit
    <2>3. CASE ConcordanceReplies(p)
      <3>1. req[p] = "none"
        BY <2>3 DEF ConcordanceReplies, HandlerInv
      <3>2. \A q \in Partition : req[q] = "done" => enriched'[q] = enriched[q]
        BY <2>3, <3>1 DEF ConcordanceReplies, TypeOK
      <3>3. QED
        BY <2>3, <3>2, IndexFrame DEF ConcordanceReplies
    <2>4. CASE SendRequest(p)
      <3>1. req[p] = "none" /\ mu' = p
        BY <2>4 DEF SendRequest, HandlerInv
      <3>2. \A q \in Partition : req'[q] = "done" <=> req[q] = "done"
        BY <2>4, <3>1 DEF SendRequest, TypeOK
      <3>3. QED
        BY <2>4, <3>1, <3>2, IndexFrame DEF SendRequest
    <2>5. CASE Report(p)
      BY <2>5, ReportIndex
    <2>6. CASE LogFailure(p)
      BY <2>6, IndexReturn DEF LogFailure
    <2>7. CASE GiveUp(p)
      <3>1. \A q \in Partition : req'[q] = "done" <=> req[q] = "done" /\ q \notin {p}
        BY <2>7 DEF GiveUp, TypeOK
      <3>2. QED
        BY <2>7, <3>1, LeaveBehindIndex DEF GiveUp
    <2>8. CASE ServiceReturns(p)
      <3>1. \A q \in Partition : mu' = q => mu = q
        BY <2>8, FreeAssumption DEF ServiceReturns, Unlocked
      <3>2. QED
        BY <2>8, <3>1, IndexFrame DEF ServiceReturns
    <2>9. QED
      BY <1>2, <2>1, <2>2, <2>3, <2>4, <2>5, <2>6, <2>7, <2>8 DEF Handle
  <1>3. ASSUME NEW p \in Partition, EsApplies(p) PROVE IndexInv'
    BY <1>3, EsAppliesIndex
  <1>4. ASSUME NEW p \in Partition, EsRefuses(p) PROVE IndexInv'
    <2>1. \A q \in Partition : req'[q] = "done" <=> req[q] = "done"
      BY <1>4 DEF EsRefuses, TypeOK
    <2>2. QED
      BY <1>4, <2>1, IndexFrame DEF EsRefuses
  <1>5. ASSUME NEW p \in Partition, ConnectionBreaks(p) PROVE IndexInv'
    <2>1. \A q \in Partition : req'[q] = "done" <=> req[q] = "done" /\ q \notin {p}
      BY <1>5 DEF ConnectionBreaks, TypeOK
    <2>2. QED
      BY <1>5, <2>1, LeaveBehindIndex DEF ConnectionBreaks
  <1>6. ASSUME NEW o \in orphans, OrphanLands(o) PROVE IndexInv'
    BY <1>6, OrphanLandsIndex
  <1>7. ASSUME NEW o \in orphans, OrphanIsLost(o) PROVE IndexInv'
    BY <1>7, IndexFrame DEF OrphanIsLost
  <1>8. CASE Restart
    <2>1. \A q \in Partition :
              req'[q] = "done" <=> req[q] = "done" /\ q \notin Partition
      BY <1>8 DEF Restart
    <2>2. \A q \in Partition : req'[q] # "done"
      BY <1>8 DEF Restart
    <2>3. QED
      BY <1>8, <2>1, <2>2, LeaveBehindIndex DEF Restart
  <1>9. QED
    BY <1>1, <1>2, <1>3, <1>4, <1>5, <1>6, <1>7, <1>8 DEF Next, Elasticsearch

-----------------------------------------------------------------------------
(* The theorems.                                                            *)

LEMMA InitIInv == Init => IInv
  <1> SUFFICES ASSUME Init PROVE IInv
    OBVIOUS
  <1>1. TypeOK
    BY DEF Init, TypeOK, Value
  <1>2. HandlerInv /\ WorkInv /\ OrphanInv /\ StarterInv
    BY FreeAssumption DEF Init, HandlerInv, WorkInv, OrphanInv, StarterInv
  <1>3. IndexInv
    BY DEF Init, IndexInv, SavedMeansIndexed, ReportsAccountForIndex,
           OneReporter, CrossedSpread
  <1>4. QED
    BY <1>1, <1>2, <1>3 DEF IInv

LEMMA NextIInv == IInv /\ [Next]_vars => IInv'
  BY TypeStep, HandlerStep, WorkStep, OrphanStep, StarterStep, IndexStep DEF IInv

(* The invariant the others follow from.                                    *)
THEOREM Invariance == Spec => []IInv
  <1>1. QED
    BY InitIInv, NextIInv, PTL DEF Spec

(* Every variable keeps its type, through any number of restarts: offsets   *)
(* never run past what was delivered, requests are always about documents.  *)
THEOREM TypeCorrect == Spec => []TypeOK
  <1>1. IInv => TypeOK
    BY DEF IInv
  <1>2. QED
    BY <1>1, Invariance, PTL

(* WriteData and DeleteData never meet a nil client: Handler.Start delivers *)
(* events only after SetClient (message_handler.go:69-86).                  *)
THEOREM ClientReady == Spec => []ClientBeforeHandlers
  <1>1. IInv => ClientBeforeHandlers
    BY DEF IInv, StarterInv, ClientBeforeHandlers
  <1>2. QED
    BY <1>1, Invariance, PTL

(* The mutex of the service makes the requests of an instance exclusive,    *)
(* for any number of partitions (service.go:121-138).                       *)
THEOREM MutexExcludes == Spec => []OneRequestAtATime
  <1>1. IInv => OneRequestAtATime
    BY DEF IInv, HandlerInv, OneRequestAtATime
  <1>2. QED
    BY <1>1, Invariance, PTL

(* What "Successfully saved" and "Successfully deleted" say is true as long *)
(* as the handler holds the mutex (service.go:121-138), orphaned requests   *)
(* aside, and still true when it is logged (message_handler.go:164,180) if  *)
(* no other handler wrote the same document between the two.                *)
THEOREM SavedIsIndexed == Spec => []SavedMeansIndexed
  <1>1. IInv => SavedMeansIndexed
    BY DEF IInv, IndexInv
  <1>2. QED
    BY <1>1, Invariance, PTL

(* The monitoring events account for the index (message_handler.go:164,180) *)
(* as long as no request was applied that nobody reported, but for          *)
(* documents spread over partitions that two handlers wrote before the      *)
(* first of them had logged.                                                *)
THEOREM ReportsAccount == Spec => []ReportsAccountForIndex
  <1>1. IInv => ReportsAccountForIndex
    BY DEF IInv, IndexInv
  <1>2. QED
    BY <1>1, Invariance, PTL

-----------------------------------------------------------------------------
(* Only entitled events, and in the order of OrderedIndex.                 *)

(* The event may be applied, with the annotation fields if b.              *)
Entitled(e, b) == Eligible(Msg(e)) /\ (b => Msg(e).annotated)

(* A handler that is past its guards has an eligible event; annotation     *)
(* fields are looked up for annotated events only.                         *)
EntitledHandlers ==
    \A p \in Partition :
        /\ pc[p] \in {"concordance", "lock", "es"} => Eligible(Msg(Current(p)))
        /\ pc[p] = "concordance" \/ enriched[p] => Msg(Current(p)).annotated
        /\ pc[p] \in {"idle", "policy"} => ~enriched[p]

EntitledOrphans == \A o \in orphans : Entitled(o.event, o.enriched)

(* What OnlyEligibleIndexed asks of the message a document comes from.      *)
Carries(m, u, b) ==
    /\ m.uuid = u
    /\ ~m.synthetic /\ m.publication = "pink"
    /\ m.type \in AllowedTypes
    /\ ReadContentType(m) # Untyped
    /\ m.hasContent /\ ~m.deleted
    /\ b => m.annotated

EntitledInv == EntitledHandlers /\ EntitledOrphans /\ OnlyEligibleIndexed

-----------------------------------------------------------------------------
(* The topic never changes, so neither does what an event says.            *)
LEMMA TopicConstant ==
    ASSUME [Next]_vars
    PROVE  topic' = topic
  BY DEF Next, Handle, Elasticsearch, vars, outsideVars, ConnectFails, WakeUp,
         SetClient, StartConsumer, Ignore, Deliver, PolicyFails, PolicyDrops,
         PolicyAllows, ConcordanceReplies, DeadlinePasses, SendRequest, Report,
         LogFailure, GiveUp, ServiceReturns, EsApplies, EsRefuses, ConnectionBreaks,
         OrphanLands, OrphanIsLost, Commit, Restart

(* The document an entitled event leaves in the index is one of its own.   *)
LEMMA EffectEligible ==
    ASSUME TypeOK, NEW e \in Event, e.off \in 1 .. Len(topic[e.part]),
           NEW b \in BOOLEAN, Entitled(e, b), Effect(e, b) # Absent
    PROVE  /\ Effect(e, b) = [event |-> e, enriched |-> b]
           /\ Carries(Msg(e), Msg(e).uuid, b)
  <1>1. topic \in [Partition -> Seq(Message)]
    BY TopicsAssumption DEF TypeOK
  <1>2. e.part \in Partition
    BY DEF Event
  <1>3. Msg(e) \in Message
    BY <1>1, <1>2 DEF Msg
  <1>4. Effect(e, b) = [event |-> e, enriched |-> b] /\ ~Msg(e).deleted
    BY DEF Effect
  <1>5. Eligible(Msg(e)) /\ (b => Msg(e).annotated)
    BY DEF Entitled
  <1>6. ~Msg(e).synthetic
    BY <1>5 DEF Eligible, IsIgnored
  <1>7. Msg(e).publication = "pink"
    BY <1>3, <1>5 DEF Eligible, Skip, Message
  <1>8. /\ Msg(e).type \in AllowedTypes
        /\ ReadContentType(Msg(e)) # Untyped
        /\ Msg(e).hasContent
    BY <1>4, <1>5 DEF Eligible, Route, IsAllowedType
  <1>9. QED
    BY <1>4, <1>5, <1>6, <1>7, <1>8 DEF Carries

(* A step that applies an entitled event, or leaves the index alone.       *)
LEMMA PutEligible ==
    ASSUME TypeOK, OnlyEligibleIndexed, topic' = topic,
           NEW e \in Event, e.off \in 1 .. Len(topic[e.part]),
           NEW b \in BOOLEAN, Entitled(e, b),
           index' = [index EXCEPT ![Msg(e).uuid] = Effect(e, b)]
    PROVE  OnlyEligibleIndexed'
  <1> SUFFICES ASSUME NEW u \in Uuid, index'[u] # Absent
               PROVE  Carries(topic[index'[u].event.part][index'[u].event.off],
                              u, index'[u].enriched)
    BY DEF OnlyEligibleIndexed, Msg, Carries
  <1>1. CASE u = Msg(e).uuid
    <2>1. index'[u] = Effect(e, b)
      BY <1>1 DEF TypeOK
    <2>2. /\ index'[u] = [event |-> e, enriched |-> b]
          /\ Carries(Msg(e), u, b)
      BY <1>1, <2>1, EffectEligible
    <2>3. QED
      BY <2>2 DEF Msg
  <1>2. CASE u # Msg(e).uuid
    <2>1. index'[u] = index[u]
      BY <1>2 DEF TypeOK
    <2>2. QED
      BY <2>1 DEF OnlyEligibleIndexed, Msg, Carries
  <1>3. QED
    BY <1>1, <1>2

LEMMA KeepEligible ==
    ASSUME OnlyEligibleIndexed, topic' = topic, index' = index
    PROVE  OnlyEligibleIndexed'
  BY DEF OnlyEligibleIndexed, Msg

-----------------------------------------------------------------------------
(* Handlers.                                                               *)

LEMMA ReturnEntitled ==
    ASSUME TypeOK, EntitledHandlers, topic' = topic, NEW p \in Partition, Return(p)
    PROVE  EntitledHandlers'
  BY DEF TypeOK, EntitledHandlers, Return, Msg, Current

(* A step that moves neither a handler nor its event.                      *)
LEMMA KeepEntitled ==
    ASSUME EntitledHandlers, UNCHANGED <<topic, pc, enriched, pos>>
    PROVE  EntitledHandlers'
  BY DEF EntitledHandlers, Msg, Current

LEMMA EntitledHandlersStep ==
    ASSUME TypeOK, EntitledHandlers, [Next]_vars
    PROVE  EntitledHandlers'
  <1> USE DEF outsideVars, startVars, handlerVars, storeVars, historyVars
  <1>1. topic' = topic
    BY TopicConstant
  <1>2. CASE \/ ConnectFails \/ WakeUp \/ SetClient \/ StartConsumer
             \/ UNCHANGED vars
    BY <1>2, KeepEntitled
       DEF ConnectFails, WakeUp, SetClient, StartConsumer, vars
  <1>3. ASSUME NEW p \in Partition, Handle(p) \/ Commit(p)
        PROVE  EntitledHandlers'
    <2>1. CASE \/ Ignore(p) \/ PolicyFails(p) \/ PolicyDrops(p)
               \/ Report(p) \/ LogFailure(p)
      BY <1>1, <2>1, ReturnEntitled
         DEF Ignore, PolicyFails, PolicyDrops, Report, LogFailure
    <2>2. CASE Deliver(p)
      BY <1>1, <2>2 DEF Deliver, TypeOK, EntitledHandlers, Msg, Current
    <2>3. CASE PolicyAllows(p)
      BY <1>1, <2>3 DEF PolicyAllows, TypeOK, EntitledHandlers, Msg, Current
    <2>4. CASE ConcordanceReplies(p)
      BY <1>1, <2>4 DEF ConcordanceReplies, TypeOK, EntitledHandlers, Msg, Current
    <2>5. CASE SendRequest(p)
      BY <1>1, <2>5 DEF SendRequest, TypeOK, EntitledHandlers, Msg, Current
    <2>6. CASE DeadlinePasses(p) \/ GiveUp(p) \/ Commit(p)
      BY <2>6, KeepEntitled DEF DeadlinePasses, GiveUp, Commit
    <2>7. CASE ServiceReturns(p)
      BY <1>1, <2>7 DEF ServiceReturns, TypeOK, EntitledHandlers, Msg, Current
    <2>8. QED
      BY <1>3, <2>1, <2>2, <2>3, <2>4, <2>5, <2>6, <2>7 DEF Handle
  <1>4. ASSUME NEW p \in Partition,
               EsApplies(p) \/ EsRefuses(p) \/ ConnectionBreaks(p)
        PROVE  EntitledHandlers'
    BY <1>4, KeepEntitled DEF EsApplies, EsRefuses, ConnectionBreaks
  <1>5. ASSUME NEW o \in orphans, OrphanLands(o) \/ OrphanIsLost(o)
        PROVE  EntitledHandlers'
    BY <1>5, KeepEntitled DEF OrphanLands, OrphanIsLost
  <1>6. CASE Restart
    BY <1>6 DEF Restart, EntitledHandlers
  <1>7. QED
    BY <1>2, <1>3, <1>4, <1>5, <1>6 DEF Next, Elasticsearch

-----------------------------------------------------------------------------
(* Orphans come from handlers that wait for a request.                     *)

LEMMA LeaveBehindEntitled ==
    ASSUME TypeOK, HandlerInv, EntitledHandlers, EntitledOrphans, topic' = topic,
           NEW Q \in SUBSET Partition, LeaveBehind(Q)
    PROVE  EntitledOrphans'
  <1>1. ASSUME NEW o \in orphans'
        PROVE  Entitled(o.event, o.enriched)
    <2>1. CASE o \in orphans
      BY <2>1 DEF EntitledOrphans
    <2>2. CASE o \notin orphans
      <3>1. PICK p \in Q : /\ req[p] = "sent"
                           /\ o = [event |-> Current(p), enriched |-> enriched[p],
                                   life |-> life]
        BY <2>2 DEF LeaveBehind
      <3>2. /\ Eligible(Msg(Current(p)))
            /\ enriched[p] => Msg(Current(p)).annotated
        BY <3>1 DEF HandlerInv, EntitledHandlers
      <3>3. QED
        BY <3>1, <3>2 DEF Entitled
    <2>3. QED
      BY <2>1, <2>2
  <1>2. QED
    BY <1>1 DEF EntitledOrphans, Entitled, Msg

LEMMA EntitledOrphansStep ==
    ASSUME TypeOK, HandlerInv, EntitledHandlers, EntitledOrphans, [Next]_vars
    PROVE  EntitledOrphans'
  <1>1. topic' = topic
    BY TopicConstant
  <1>2. CASE orphans' \subseteq orphans
    BY <1>1, <1>2 DEF EntitledOrphans, Entitled, Msg
  <1>3. CASE \E p \in Partition : GiveUp(p) \/ ConnectionBreaks(p)
    BY <1>1, <1>3, LeaveBehindEntitled DEF GiveUp, ConnectionBreaks
  <1>4. CASE Restart
    BY <1>1, <1>4, LeaveBehindEntitled DEF Restart
  <1>5. QED
    BY <1>2, <1>3, <1>4
       DEF Next, Handle, Elasticsearch, vars, storeVars, ConnectFails, WakeUp,
           SetClient, StartConsumer, Ignore, Deliver, PolicyFails, PolicyDrops,
           PolicyAllows, ConcordanceReplies, DeadlinePasses, SendRequest, Report,
           LogFailure, ServiceReturns, EsApplies, EsRefuses, OrphanLands, OrphanIsLost, Commit

-----------------------------------------------------------------------------
(* The index.                                                              *)

LEMMA OnlyEligibleStep ==
    ASSUME TypeOK, HandlerInv, WorkInv, OrphanInv, EntitledInv, [Next]_vars
    PROVE  OnlyEligibleIndexed'
  <1>1. topic' = topic
    BY TopicConstant
  <1>2. ASSUME NEW p \in Partition, EsApplies(p) PROVE OnlyEligibleIndexed'
    <2>1. /\ Current(p) \in Event
          /\ Current(p).off \in 1 .. Len(topic[Current(p).part])
          /\ enriched[p] \in BOOLEAN
      BY <1>2, CurrentType DEF EsApplies, HandlerInv, WorkInv, TypeOK
    <2>2. Entitled(Current(p), enriched[p])
      BY <1>2 DEF EsApplies, HandlerInv, EntitledInv, EntitledHandlers, Entitled
    <2>3. index' = [index EXCEPT ![Msg(Current(p)).uuid] =
                                     Effect(Current(p), enriched[p])]
      BY <1>2 DEF EsApplies, CurrentUuid, CurrentEffect
    <2>4. QED
      BY <1>1, <2>1, <2>2, <2>3, PutEligible DEF EntitledInv
  <1>3. ASSUME NEW o \in orphans, OrphanLands(o) PROVE OnlyEligibleIndexed'
    <2>1. /\ o.event \in Event
          /\ o.event.off \in 1 .. Len(topic[o.event.part])
          /\ o.enriched \in BOOLEAN
      BY DEF TypeOK, Orphan, OrphanInv
    <2>2. Entitled(o.event, o.enriched)
      BY DEF EntitledInv, EntitledOrphans
    <2>3. QED
      BY <1>1, <1>3, <2>1, <2>2, PutEligible DEF EntitledInv, OrphanLands
  <1>4. CASE index' = index
    BY <1>1, <1>4, KeepEligible DEF EntitledInv
  <1>5. QED
    BY <1>2, <1>3, <1>4
       DEF Next, Handle, Elasticsearch, vars, storeVars, ConnectFails, WakeUp,
           SetClient, StartConsumer, Ignore, Deliver, PolicyFails, PolicyDrops,
           PolicyAllows, ConcordanceReplies, DeadlinePasses, SendRequest, Report,
           LogFailure, GiveUp, ServiceReturns, EsRefuses, ConnectionBreaks, OrphanIsLost, Commit,
           Restart

LEMMA InitEntitled == Init => EntitledInv
  BY DEF Init, EntitledInv, EntitledHandlers, EntitledOrphans, OnlyEligibleIndexed

LEMMA NextEntitled == IInv /\ EntitledInv /\ [Next]_vars => EntitledInv'
  BY EntitledHandlersStep, EntitledOrphansStep, OnlyEligibleStep
     DEF IInv, EntitledInv

LEMMA EntitledAlways == Spec => []EntitledInv
  <1>1. QED
    BY InitEntitled, NextEntitled, Invariance, PTL DEF Spec

(* Redelivery, late requests and crashes included, no document comes from   *)
(* an event that the guards of handleMessage (message_handler.go:106-171)   *)
(* drop.                                                                    *)
THEOREM OnlyEligible == Spec => []OnlyEligibleIndexed
  <1>1. EntitledInv => OnlyEligibleIndexed
    BY DEF EntitledInv
  <1>2. QED
    BY <1>1, EntitledAlways, PTL

-----------------------------------------------------------------------------
(* The refinement.  A step of the handler is a stutter of OrderedIndex, or *)
(* the step that decides the fate of the handler's event.                  *)

LEMMA SameKnown ==
    ASSUME NEW m
    PROVE  Ordered!Known(m) = Known(m) /\ Ordered!FirstKnown(m) = FirstKnown(m)
  <1>1. Ordered!Known(m) = Known(m)
    BY Zenon DEF Known, Ordered!Known, Names, Ordered!Names, System, Ordered!System,
       ContentMetadata, Ordered!ContentMetadata
  <1>2. QED
    BY <1>1, Zenon DEF FirstKnown, Ordered!FirstKnown, Names, Ordered!Names

LEMMA SameEligible == ASSUME NEW m PROVE Ordered!Eligible(m) <=> Eligible(m)
  BY SameKnown
     DEF Eligible, IsIgnored, Skip, Route, ReadContentType, IsAllowedType,
         AllowedTypes, Untyped, NoType, ContentMetadata,
         Ordered!Eligible, Ordered!IsIgnored, Ordered!Skip, Ordered!Route,
         Ordered!ReadContentType, Ordered!IsAllowedType, Ordered!AllowedTypes,
         Ordered!Untyped, Ordered!NoType, Ordered!ContentMetadata

(* The first undecided event of a handler at work is its current one, until *)
(* its request is answered.                                                 *)
LEMMA UndecidedType ==
    ASSUME TypeOK, WorkInv, NEW p \in Partition, pc[p] # "idle" \/ Pending(p)
    PROVE  /\ pos[p] \in Nat
           /\ pos[p] + 1 \in 1 .. Len(topic[p])
           /\ Ordered!Event(p, pos[p] + 1) = Current(p)
           /\ req[p] \notin {"done", "failed"} =>
                 /\ Undecided[p] = pos[p] + 1
                 /\ pos[p] + 1 \in Ordered!Ahead(p)
  <1>1. topic \in [Partition -> Seq(Message)]
    BY TopicsAssumption DEF TypeOK
  <1>2. pos[p] \in Nat /\ Len(topic[p]) \in Nat /\ pos[p] < Len(topic[p])
    BY <1>1 DEF TypeOK, WorkInv, Pending
  <1>3. QED
    BY <1>2 DEF Undecided, Ordered!Ahead, Ordered!Event, Current

(* Whatever decides an event moves the undecided one to the next.           *)
LEMMA DecidedNext ==
    ASSUME TypeOK, NEW p \in Partition, req[p] \notin {"done", "failed"},
           \/ /\ pos' = [pos EXCEPT ![p] = @ + 1]
              /\ req' = [req EXCEPT ![p] = "none"]
           \/ /\ pos' = pos
              /\ \E r \in {"done", "failed"} : req' = [req EXCEPT ![p] = r]
    PROVE  Undecided' = [Undecided EXCEPT ![p] = pos[p] + 2]
  <1>1. /\ pos[p] \in Nat
        /\ \A q \in Partition \ {p} : pos'[q] = pos[q] /\ req'[q] = req[q]
    BY DEF TypeOK
  <1>2. Undecided'[p] = pos[p] + 2
    <2>1. CASE pos'[p] = pos[p] + 1 /\ req'[p] = "none"
      BY <1>1, <2>1 DEF Undecided
    <2>2. CASE pos'[p] = pos[p] /\ req'[p] \in {"done", "failed"}
      BY <1>1, <2>2 DEF Undecided
    <2>3. QED
      BY <2>1, <2>2 DEF TypeOK
  <1>3. \A q \in Partition \ {p} : Undecided'[q] = Undecided[q]
    BY <1>1 DEF Undecided
  <1>4. /\ Undecided' = [q \in Partition |-> Undecided'[q]]
        /\ Undecided = [q \in Partition |-> Undecided[q]]
    BY DEF Undecided
  <1>5. QED
    BY <1>2, <1>3, <1>4

(* A handler that returns, or fails, after the decision changes nothing.    *)
LEMMA SameNext ==
    ASSUME TypeOK, NEW p \in Partition,
           \/ /\ req[p] \in {"done", "failed"}
              /\ pos' = [pos EXCEPT ![p] = @ + 1]
              /\ req' = [req EXCEPT ![p] = "none"]
           \/ /\ pos' = pos
              /\ \/ req' = req
                 \/ req[p] = "none" /\ req' = [req EXCEPT ![p] = "sent"]
                 \/ req[p] = "done" /\ req' = [req EXCEPT ![p] = "failed"]
    PROVE  Undecided' = Undecided
  BY DEF Undecided, TypeOK

(* An event that is passed over: the index does not change.                 *)
LEMMA PassedOver ==
    ASSUME TypeOK, WorkInv, NEW p \in Partition, pc[p] # "idle" \/ Pending(p),
           req[p] \notin {"done", "failed"},
           Undecided' = [Undecided EXCEPT ![p] = pos[p] + 2],
           UNCHANGED <<topic, index, orphans, committed>>
    PROVE  Ordered!Next
  <1>1. pos[p] + 1 \in Ordered!Ahead(p) /\ pos[p] + 2 = (pos[p] + 1) + 1
    BY UndecidedType
  <1>2. Ordered!PassOver(p, pos[p] + 1)
    BY <1>1 DEF Ordered!PassOver
  <1>3. QED
    BY <1>1, <1>2 DEF Ordered!Next

(* An event whose handler no longer waits for the request it has sent.      *)
LEMMA Abandoned ==
    ASSUME TypeOK, HandlerInv, WorkInv, EntitledHandlers, NEW p \in Partition,
           req[p] = "sent", LeaveBehind({p}),
           Undecided' = [Undecided EXCEPT ![p] = pos[p] + 2],
           UNCHANGED <<topic, index, committed>>
    PROVE  Ordered!Next
  <1>1. pc[p] = "es"
    BY DEF HandlerInv
  <1>2. /\ pos[p] \in Nat
        /\ pos[p] + 1 \in Ordered!Ahead(p)
        /\ Ordered!Event(p, pos[p] + 1) = Current(p)
    BY <1>1, UndecidedType
  <1>3. Ordered!Eligible(topic[p][pos[p] + 1])
    BY <1>1, SameEligible DEF EntitledHandlers, Msg, Current
  <1>4. orphans \subseteq orphans' /\ \A r \in orphans' \ orphans : r.event = Current(p)
    BY DEF LeaveBehind
  <1>5. Undecided' = [Undecided EXCEPT ![p] = (pos[p] + 1) + 1]
    <2>1. pos[p] + 2 = (pos[p] + 1) + 1
      BY <1>2
    <2>2. QED
      BY <2>1, Zenon
  <1>6. Ordered!Abandon(p, pos[p] + 1)
    BY <1>2, <1>3, <1>4, <1>5 DEF Ordered!Abandon
  <1>7. QED
    BY <1>2, <1>6 DEF Ordered!Next

LEMMA HandleRefines ==
    ASSUME TypeOK, HandlerInv, WorkInv, EntitledHandlers,
           NEW p \in Partition, Handle(p)
    PROVE  [Ordered!Next]_(Ordered!vars)
  <1> USE DEF outsideVars, startVars, handlerVars, storeVars, historyVars
  <1>1. CASE Ignore(p) \/ PolicyFails(p) \/ PolicyDrops(p)
    <2>1. req[p] = "none" /\ (pc[p] # "idle" \/ Pending(p))
      BY <1>1 DEF Ignore, PolicyFails, PolicyDrops, HandlerInv, TypeOK
    <2>2. Undecided' = [Undecided EXCEPT ![p] = pos[p] + 2]
      BY <1>1, <2>1, DecidedNext DEF Ignore, PolicyFails, PolicyDrops, Return
    <2>3. QED
      BY <1>1, <2>1, <2>2, PassedOver DEF Ignore, PolicyFails, PolicyDrops
  <1>2. CASE Deliver(p) \/ PolicyAllows(p) \/ ConcordanceReplies(p) \/ DeadlinePasses(p)
    <2>1. Undecided' = Undecided
      BY <1>2, SameNext
         DEF Deliver, PolicyAllows, ConcordanceReplies, DeadlinePasses
    <2>2. QED
      BY <1>2, <2>1
         DEF Deliver, PolicyAllows, ConcordanceReplies, DeadlinePasses, Ordered!vars
  <1>3. CASE SendRequest(p)
    <2>1. req[p] = "none" /\ pc[p] # "idle"
      BY <1>3 DEF SendRequest, HandlerInv, TypeOK
    <2>2. CASE ctx[p] = "live"
      <3>1. Undecided' = Undecided
        BY <1>3, <2>1, <2>2, SameNext DEF SendRequest
      <3>2. QED
        BY <1>3, <3>1 DEF SendRequest, Ordered!vars
    <2>3. CASE ctx[p] # "live"
      <3>1. Undecided' = [Undecided EXCEPT ![p] = pos[p] + 2]
        BY <1>3, <2>1, <2>3, DecidedNext DEF SendRequest
      <3>2. QED
        BY <1>3, <2>1, <3>1, PassedOver DEF SendRequest
    <2>4. QED
      BY <2>2, <2>3
  <1>4. CASE ServiceReturns(p) \/ Report(p) \/ LogFailure(p)
    <2>1. Undecided' = Undecided
      BY <1>4, SameNext DEF ServiceReturns, Report, LogFailure, Return
    <2>2. QED
      BY <1>4, <2>1 DEF ServiceReturns, Report, LogFailure, Ordered!vars
  <1>5. CASE GiveUp(p)
    <2>1. CASE req[p] = "sent"
      <3>1. Undecided' = [Undecided EXCEPT ![p] = pos[p] + 2]
        BY <1>5, <2>1, DecidedNext DEF GiveUp
      <3>2. QED
        BY <1>5, <2>1, <3>1, Abandoned DEF GiveUp
    <2>2. CASE req[p] = "done"
      <3>1. Undecided' = Undecided
        BY <1>5, <2>2, SameNext DEF GiveUp
      <3>2. orphans' = orphans
        BY <1>5, <2>2 DEF GiveUp, LeaveBehind
      <3>3. QED
        BY <1>5, <3>1, <3>2 DEF GiveUp, Ordered!vars
    <2>3. QED
      BY <1>5, <2>1, <2>2 DEF GiveUp
  <1>6. QED
    BY <1>1, <1>2, <1>3, <1>4, <1>5 DEF Handle

LEMMA EsAppliesRefines ==
    ASSUME TypeOK, HandlerInv, WorkInv, EntitledHandlers,
           NEW p \in Partition, EsApplies(p)
    PROVE  Ordered!Next
  <1>1. req[p] = "sent" /\ pc[p] = "es"
    BY DEF EsApplies, HandlerInv
  <1>2. /\ pos[p] \in Nat
        /\ pos[p] + 1 \in Ordered!Ahead(p)
        /\ Ordered!Event(p, pos[p] + 1) = Current(p)
    BY <1>1, UndecidedType
  <1>3. Ordered!Eligible(topic[p][pos[p] + 1])
    BY <1>1, SameEligible DEF EntitledHandlers, Msg, Current
  <1>4. Undecided' = [Undecided EXCEPT ![p] = (pos[p] + 1) + 1]
    <2>1. pos' = pos /\ req' = [req EXCEPT ![p] = "done"]
      BY DEF EsApplies, outsideVars
    <2>2. Undecided' = [Undecided EXCEPT ![p] = pos[p] + 2]
      BY <1>1, <2>1, DecidedNext
    <2>3. pos[p] + 2 = (pos[p] + 1) + 1
      BY <1>2
    <2>4. QED
      BY <2>2, <2>3, Zenon
  <1>5. Ordered!Put(Ordered!Event(p, pos[p] + 1), enriched[p])
    BY <1>2 DEF EsApplies, CurrentUuid, CurrentEffect, Effect, Msg,
                Ordered!Put, Ordered!Outcome, Ordered!Msg
  <1>6. Ordered!Apply(p, pos[p] + 1)
    BY <1>3, <1>4, <1>5 DEF Ordered!Apply, EsApplies, outsideVars, TypeOK
  <1>7. QED
    BY <1>2, <1>6 DEF Ordered!Next

LEMMA RestartRefines ==
    ASSUME TypeOK, HandlerInv, WorkInv, Restart
    PROVE  Ordered!Next
  <1>1. Undecided' = [p \in Partition |-> committed[p] + 1]
    BY DEF Restart, Resume, Undecided, TypeOK
  <1>2. ASSUME NEW r \in orphans' \ orphans
        PROVE  r.event.off \in Ordered!Ahead(r.event.part)
    <2>1. PICK p \in Partition : req[p] = "sent" /\ r.event = Current(p)
      BY DEF Restart, LeaveBehind
    <2>2. pos[p] + 1 \in Ordered!Ahead(p)
      BY <2>1, UndecidedType DEF HandlerInv
    <2>3. QED
      BY <2>1, <2>2 DEF Current
  <1>3. UNCHANGED <<topic, index, committed>>
    BY DEF Restart
  <1>4. Ordered!Restart(Partition)
    BY <1>1, <1>2, <1>3 DEF Ordered!Restart
  <1>5. QED
    BY <1>4 DEF Ordered!Next

LEMMA CommitRefines ==
    ASSUME TypeOK, NEW p \in Partition, Commit(p)
    PROVE  Ordered!Next
  <1>1. Undecided' = Undecided /\ UNCHANGED <<topic, index, orphans>>
    BY SameNext DEF Commit, handlerVars, storeVars
  <1>2. committed'[p] = pos[p] /\ committed' = [committed EXCEPT ![p] = pos[p]]
    BY DEF Commit, TypeOK
  <1>3. committed'[p] \in committed[p] .. Undecided[p] - 1
    BY <1>2 DEF Commit, TypeOK, Undecided
  <1>4. Ordered!Commit(p)
    BY <1>1, <1>2, <1>3 DEF Ordered!Commit
  <1>5. QED
    BY <1>4 DEF Ordered!Next

LEMMA StepRefines ==
    ASSUME IInv, EntitledInv, [Next]_vars
    PROVE  [Ordered!Next]_(Ordered!vars)
  <1> USE DEF IInv, EntitledInv, outsideVars, startVars, handlerVars, storeVars,
              historyVars
  <1>1. CASE \/ ConnectFails \/ WakeUp \/ SetClient \/ StartConsumer
             \/ UNCHANGED vars
    BY <1>1 DEF ConnectFails, WakeUp, SetClient, StartConsumer, vars,
                Undecided, Ordered!vars
  <1>2. ASSUME NEW p \in Partition, Handle(p) \/ Commit(p)
        PROVE  [Ordered!Next]_(Ordered!vars)
    BY <1>2, HandleRefines, CommitRefines
  <1>3. ASSUME NEW p \in Partition, EsApplies(p)
        PROVE  [Ordered!Next]_(Ordered!vars)
    BY <1>3, EsAppliesRefines
  <1>4. ASSUME NEW p \in Partition, EsRefuses(p)
        PROVE  [Ordered!Next]_(Ordered!vars)
    <2>1. req[p] = "sent" /\ pc[p] # "idle"
      BY <1>4 DEF EsRefuses, HandlerInv
    <2>2. Undecided' = [Undecided EXCEPT ![p] = pos[p] + 2]
      BY <1>4, <2>1, DecidedNext DEF EsRefuses
    <2>3. QED
      BY <1>4, <2>1, <2>2, PassedOver DEF EsRefuses
  <1>5. ASSUME NEW p \in Partition, ConnectionBreaks(p)
        PROVE  [Ordered!Next]_(Ordered!vars)
    <2>1. CASE req[p] = "sent"
      <3>1. Undecided' = [Undecided EXCEPT ![p] = pos[p] + 2]
        BY <1>5, <2>1, DecidedNext DEF ConnectionBreaks
      <3>2. QED
        BY <1>5, <2>1, <3>1, Abandoned DEF ConnectionBreaks
    <2>2. CASE req[p] = "done"
      <3>1. Undecided' = Undecided
        BY <1>5, <2>2, SameNext DEF ConnectionBreaks
      <3>2. orphans' = orphans
        BY <1>5, <2>2 DEF ConnectionBreaks, LeaveBehind
      <3>3. QED
        BY <1>5, <3>1, <3>2 DEF ConnectionBreaks, Ordered!vars
    <2>3. QED
      BY <1>5, <2>1, <2>2 DEF ConnectionBreaks
  <1>6. ASSUME NEW o \in orphans, OrphanLands(o)
        PROVE  [Ordered!Next]_(Ordered!vars)
    <2>1. Undecided' = Undecided
      BY <1>6 DEF OrphanLands, Undecided
    <2>2. Ordered!Eligible(Ordered!Msg(o.event))
      BY SameEligible DEF EntitledOrphans, Entitled, Msg, Ordered!Msg
    <2>3. Ordered!Put(o.event, o.enriched) /\ o.enriched \in BOOLEAN
      BY <1>6 DEF OrphanLands, Ordered!Put, Ordered!Outcome, Ordered!Msg,
                  Effect, Msg, TypeOK, Orphan
    <2>4. Ordered!ApplyLate(o)
      BY <1>6, <2>1, <2>2, <2>3 DEF OrphanLands, Ordered!ApplyLate
    <2>5. QED
      BY <2>4 DEF Ordered!Next
  <1>7. ASSUME NEW o \in orphans, OrphanIsLost(o)
        PROVE  [Ordered!Next]_(Ordered!vars)
    <2>1. Ordered!Forget
      BY <1>7 DEF OrphanIsLost, Undecided, Ordered!Forget
    <2>2. QED
      BY <2>1 DEF Ordered!Next
  <1>8. CASE Restart
    BY <1>8, RestartRefines
  <1>9. QED
    BY <1>1, <1>2, <1>3, <1>4, <1>5, <1>6, <1>7, <1>8 DEF Next, Elasticsearch

LEMMA InitRefines == Init => Ordered!Init
  BY DEF Init, Ordered!Init, Undecided

(* The handlers, the mutex, deadlines, broken connections, kills and        *)
(* redelivery (message_handler.go:69-181, service.go:115-138) keep the      *)
(* order of each partition's log, late requests excepted.                   *)
THEOREM ImplementsOrderedIndex == Spec => RefinesOrderedIndex
  <1>1. QED
    BY InitRefines, StepRefines, Invariance, EntitledAlways, PTL
       DEF Spec, RefinesOrderedIndex, Ordered!Spec

-----------------------------------------------------------------------------
(* The decisions about related events, for any event. *)

LEMMA LeastIndex ==
    ASSUME NEW S \in SUBSET Nat, S # {}
    PROVE  \E j \in S : \A k \in S : j <= k
  <1>1. IsWellFoundedOn(OpToRel(<, Nat), Nat)
    BY NatLessThanWellFounded
  <1>2. PICK j \in S : \A k \in S : ~(<<k, j>> \in OpToRel(<, Nat))
    BY <1>1, WFMin
  <1>3. \A k \in S : ~(k < j)
    BY <1>2 DEF OpToRel
  <1>4. QED
    BY <1>3

LEMMA NamesType ==
    ASSUME NEW m \in Message
    PROVE  /\ Names(m) \in Seq(System \cup {"pac", "other"})
           /\ DOMAIN Names(m) = 1 .. Len(m.identifiers) + 1
           /\ \A j \in DOMAIN m.identifiers : Names(m)[j] = m.identifiers[j]
           /\ DOMAIN m.identifiers = 1 .. Len(m.identifiers)
           /\ Len(m.identifiers) \in Nat
  BY DEF Message, Names

LEMMA FirstIsLeast ==
    ASSUME NEW m \in Message, Known(m) # {}
    PROVE  \E j \in Known(m) :
              FirstKnown(m) = Names(m)[j] /\ \A k \in Known(m) : j <= k
  <1>1. Known(m) \in SUBSET Nat
    BY NamesType DEF Known
  <1>2. \E j \in Known(m) : \A k \in Known(m) : j <= k
    BY <1>1, LeastIndex
  <1>3. QED
    BY <1>2 DEF FirstKnown

LEMMA KnownIdentifiers ==
    ASSUME NEW m \in Message
    PROVE  /\ Known(m) \subseteq 1 .. Len(m.identifiers) + 1
           /\ \A j \in DOMAIN m.identifiers :
                 j \in Known(m) <=> m.identifiers[j] \in System
           /\ \A j \in Known(m) :
                 j \in DOMAIN m.identifiers \/ j = Len(m.identifiers) + 1
  <1>1. Known(m) \subseteq 1 .. Len(m.identifiers) + 1
    BY NamesType DEF Known
  <1>2. ASSUME NEW j \in DOMAIN m.identifiers
        PROVE  j \in Known(m) <=> m.identifiers[j] \in System
    <2>1. j \in DOMAIN Names(m) /\ Names(m)[j] = m.identifiers[j]
      BY <1>2, NamesType
    <2>2. QED
      BY <2>1 DEF Known
  <1>3. QED
    BY <1>1, <1>2, NamesType

(* The first known system is among the identifiers if one of them is known, *)
(* whatever the origin.                                                    *)
LEMMA OriginComesLast ==
    ASSUME NEW m \in Message, NEW o \in System \cup {"pac", "other"},
           NEW i \in DOMAIN m.identifiers, m.identifiers[i] \in System
    PROVE  LET again == [m EXCEPT !.origin = o]
           IN  /\ Known(m) # {} /\ Known(again) # {}
               /\ FirstKnown(again) = FirstKnown(m)
  <1> DEFINE again == [m EXCEPT !.origin = o]
  <1>1. again \in Message /\ again.identifiers = m.identifiers
    BY DEF Message
  <1> HIDE DEF again
  <1>2. i \in Known(m) /\ i \in Known(again)
    BY <1>1, KnownIdentifiers
  <1>3. PICK j \in Known(m) :
           FirstKnown(m) = Names(m)[j] /\ \A k \in Known(m) : j <= k
    BY <1>2, FirstIsLeast
  <1>4. PICK k \in Known(again) :
           FirstKnown(again) = Names(again)[k] /\ \A l \in Known(again) : k <= l
    BY <1>1, <1>2, FirstIsLeast
  <1>5. DOMAIN m.identifiers = 1 .. Len(m.identifiers) /\ Len(m.identifiers) \in Nat
    BY NamesType
  <1>6. j <= i /\ k <= i
    BY <1>2, <1>3, <1>4
  <1>7. j \in DOMAIN m.identifiers
    BY <1>3, <1>5, <1>6, KnownIdentifiers
  <1>8. k \in DOMAIN m.identifiers
    BY <1>1, <1>4, <1>5, <1>6, KnownIdentifiers
  <1>9. j \in Known(again)
    BY <1>1, <1>3, <1>7, KnownIdentifiers
  <1>10. k \in Known(m)
    BY <1>1, <1>4, <1>8, KnownIdentifiers
  <1>11. j = k
    BY <1>3, <1>4, <1>5, <1>7, <1>8, <1>9, <1>10
  <1>12. Names(again)[j] = Names(m)[j]
    BY <1>1, <1>7, NamesType
  <1>13. QED
    BY <1>2, <1>3, <1>4, <1>11, <1>12 DEF again

(* A decision other than to drop the event is that of Route.                *)
DecisionInv ==
    /\ message \in Message
    /\ decision = "write" => Route(message) = "write"

LEMMA DecisionInvariance == DecisionSpec => []DecisionInv
  <1>1. DecisionInit => DecisionInv
    BY DEF DecisionInit, DecisionInv
  <1>2. DecisionInv /\ [Decide]_decisionVars => DecisionInv'
    BY DEF Decide, decisionVars, DecisionInv
  <1>3. QED
    BY <1>1, <1>2, PTL DEF DecisionSpec

(* An event without content has but its headers to tell its type.          *)
LEMMA EmptiedType ==
    ASSUME NEW m \in Message
    PROVE  ReadContentType(Emptied(m)) # Untyped
           <=> m.header # "none" \/ m.origin \in System
  <1> DEFINE e == Emptied(m)
  <1>1. /\ e.header = m.header /\ e.type = NoType
        /\ e.identifiers = << >> /\ e.origin = m.origin
    BY DEF Message, Emptied
  <1> HIDE DEF e
  <1>2. Names(e) = <<m.origin>>
    <2>1. << >> \o <<m.origin>> = <<m.origin>>
      OBVIOUS
    <2>2. QED
      BY <1>1, <2>1 DEF Names
  <1>3. Known(e) = IF m.origin \in System THEN {1} ELSE {}
    BY <1>2 DEF Known
  <1>4. ASSUME Known(e) # {}
        PROVE  ContentMetadata[FirstKnown(e)] # Untyped
    <2>1. Known(e) = {1} /\ m.origin \in System
      BY <1>3, <1>4
    <2>2. FirstKnown(e) = m.origin
      BY <1>2, <2>1 DEF FirstKnown
    <2>3. QED
      BY <2>1, <2>2 DEF System, ContentMetadata, Untyped
  <1>5. m.header \in {"none", "audio", "article", "live-event"}
    BY DEF Message
  <1>6. ReadContentType(e) # Untyped <=> m.header # "none" \/ Known(e) # {}
    BY <1>1, <1>4, <1>5 DEF ReadContentType, Untyped, NoType
  <1>7. QED
    BY <1>3, <1>6 DEF e

(* An event that would be indexed is not dropped once it is flagged         *)
(* deleted; one that comes without the content it had is dropped            *)
(* (message_handler.go:150-153) exactly if no header stands in for it.      *)
THEOREM WrittenDeletable == DecisionSpec => []WrittenIsDeletable
  <1>1. DecisionInv => WrittenIsDeletable
    <2> SUFFICES ASSUME DecisionInv, decision = "write"
                 PROVE  /\ Route([message EXCEPT !.deleted = TRUE]) = "delete"
                        /\ Route(Emptied(message)) = "delete"
                           <=> \/ message.header # "none"
                               \/ message.origin \in System \cup {"pac"}
      BY DEF WrittenIsDeletable
    <2> DEFINE flagged == [message EXCEPT !.deleted = TRUE]
               e == Emptied(message)
    <2>1. message \in Message /\ Route(message) = "write"
      BY DEF DecisionInv
    <2>2. /\ flagged.type = message.type /\ flagged.header = message.header
          /\ flagged.identifiers = message.identifiers
          /\ flagged.origin = message.origin /\ flagged.deleted
      BY <2>1 DEF Message
    <2>3. /\ e.type = NoType /\ e.origin = message.origin /\ e.deleted
      BY <2>1 DEF Message, Emptied
    <2>4. ReadContentType(e) # Untyped
          <=> message.header # "none" \/ message.origin \in System
      BY <2>1, EmptiedType
    <2> HIDE DEF flagged, e
    <2>5. Known(flagged) = Known(message) /\ FirstKnown(flagged) = FirstKnown(message)
      BY <2>2, Zenon DEF Known, FirstKnown, Names
    <2>6. ReadContentType(flagged) = ReadContentType(message)
      BY <2>2, <2>5, Zenon DEF ReadContentType
    <2>7. Route(flagged) = "delete"
      BY <2>1, <2>2, <2>6 DEF Route, IsAllowedType
    <2>8. Route(e) = "delete" <=> \/ message.header # "none"
                                  \/ message.origin \in System \cup {"pac"}
      <3>1. Route(e) = "delete" <=> \/ ReadContentType(e) # Untyped
                                    \/ message.origin = "pac"
        BY <2>3 DEF Route, IsAllowedType, AllowedTypes
      <3>2. QED
        BY <2>4, <3>1
    <2>9. QED
      BY <2>7, <2>8 DEF flagged, e
  <1>2. QED
    BY <1>1, DecisionInvariance, PTL

(* A metadata publish, or any other with the same content, is filed as the *)
(* content was: the origin never changes the type of what names a system.  *)
THEOREM RepublishedKeepsType == DecisionSpec => []RepublishKeepsType
  <1>1. DecisionInv => RepublishKeepsType
    <2>1. SUFFICES ASSUME DecisionInv, decision = "write",
                          NEW i \in DOMAIN message.identifiers,
                          message.identifiers[i] \in System,
                          NEW o \in {"pac", "other"} \cup System
                   PROVE  LET again == [message EXCEPT !.origin = o]
                          IN  /\ Route(again) = "write"
                              /\ ReadContentType(again) = ReadContentType(message)
      BY Zenon DEF RepublishKeepsType
    <2> DEFINE again == [message EXCEPT !.origin = o]
    <2>2. /\ again.type = message.type /\ again.header = message.header
          /\ again.identifiers = message.identifiers
          /\ again.deleted = message.deleted /\ again.hasContent = message.hasContent
      BY <2>1 DEF DecisionInv, Message
    <2>3. /\ Known(message) # {} /\ Known(again) # {}
          /\ FirstKnown(again) = FirstKnown(message)
      BY <2>1, OriginComesLast DEF DecisionInv
    <2> HIDE DEF again
    <2>4. ReadContentType(again) = ReadContentType(message)
      BY <2>2, <2>3, Zenon DEF ReadContentType
    <2>5. Route(message) = "write"
      BY <2>1 DEF DecisionInv
    <2>6. Route(again) = "write"
      BY <2>2, <2>4, <2>5 DEF Route, IsAllowedType
    <2>7. QED
      BY <2>4, <2>6 DEF again
  <1>2. QED
    BY <1>1, DecisionInvariance, PTL

(* Every document but that of a live event is filed under a collection.    *)
THEOREM DocumentsCollected == DecisionSpec => []DocumentsAreCollected
  <1>1. DecisionInv => DocumentsAreCollected
    <2>1. SUFFICES ASSUME DecisionInv, decision = "write", message.header # "live-event"
                   PROVE  ReadContentType(message) \in DOMAIN Collection
      BY DEF DocumentsAreCollected
    <2>2. ReadContentType(message) # Untyped
      BY <2>1 DEF DecisionInv, Route
    <2>3. ASSUME Known(message) # {}
          PROVE  ContentMetadata[FirstKnown(message)] \in DOMAIN Collection
      <3>1. FirstKnown(message) \in System
        BY <2>1, <2>3, FirstIsLeast DEF DecisionInv, Known
      <3>2. QED
        BY <3>1 DEF System, ContentMetadata, Collection
    <2>4. message.header \in {"none", "audio", "article", "live-event"}
      BY <2>1 DEF DecisionInv, Message
    <2>5. "audio" \in DOMAIN Collection /\ "article" \in DOMAIN Collection
      BY DEF Collection
    <2>6. QED
      BY <2>1, <2>2, <2>3, <2>4, <2>5 DEF ReadContentType
  <1>2. QED
    BY <1>1, DecisionInvariance, PTL

=============================================================================
