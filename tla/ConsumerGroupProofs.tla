------------------------ MODULE ConsumerGroupProofs ------------------------
(***************************************************************************)
(* The invariants of a consumer group, for any instances, partitions,      *)
(* topics, rebalances and crashes; and that it keeps the order of each     *)
(* partition's log, as OrderedIndex promises.                              *)
(***************************************************************************)
EXTENDS ConsumerGroup, TLAPS

(* The events before the position of a partition's owner have been in the  *)
(* hands of a handler that returned, and no more than those is committed.  *)
Marked ==
    \A p \in Partition :
        /\ committed[p] <= pos[p]
        /\ \A o \in 1 .. pos[p] : [part |-> p, off |-> o] \in handled

IInv == TypeOK /\ OneRequestPerInstance /\ OwnersWorkOnTheirSession /\ Marked

-----------------------------------------------------------------------------
(* Jobs and documents. *)

LEMMA CurrentEvent ==
    ASSUME TypeOK, NEW p \in Partition
    PROVE  Current(p) \in Event /\ Current(p).part = p /\ Current(p).off = pos[p] + 1
  BY DEF TypeOK, Current, Event

LEMMA WorkJob ==
    ASSUME TypeOK, NEW i \in Instance, NEW p \in Partition, work[i][p] # Idle
    PROVE  /\ work[i][p] \in Job
           /\ work[i][p].event \in Event
           /\ work[i][p].session \in Nat
           /\ work[i][p].enriched \in BOOLEAN
           /\ work[i][p].live \in BOOLEAN
           /\ Stage(i, p) = work[i][p].stage
<1>1. work[i][p] \in Job
  BY DEF TypeOK
<1> QED
  BY <1>1 DEF Job, Stage

LEMMA EffectValue ==
    ASSUME NEW e \in Event, NEW b \in BOOLEAN PROVE Effect(e, b) \in Value
  BY DEF Effect, Value, Doc

LEMMA LeavingsOrphans ==
    ASSUME TypeOK, NEW i \in Instance, NEW Q \in SUBSET Partition
    PROVE  Leavings(i, Q) \subseteq Orphan
<1> SUFFICES ASSUME NEW p \in Q, Stage(i, p) = "sent"
             PROVE  [event |-> work[i][p].event, session |-> work[i][p].session,
                     enriched |-> work[i][p].enriched] \in Orphan
  BY DEF Leavings
<1>1. p \in Partition /\ work[i][p] # Idle
  BY DEF Stage
<1> QED
  BY <1>1, WorkJob DEF Orphan

(* One job changes. *)
LEMMA PutWork ==
    ASSUME TypeOK, NEW i \in Instance, NEW p \in Partition,
           NEW j \in Job \cup {Idle}, Put(i, p, j)
    PROVE  /\ work' \in [Instance -> [Partition -> Job \cup {Idle}]]
           /\ \A k \in Instance, q \in Partition :
                 work'[k][q] = IF k = i /\ q = p THEN j ELSE work[k][q]
  BY DEF TypeOK, Put

-----------------------------------------------------------------------------
(* The initial states. *)

LEMMA InitInv == Init => IInv
<1> SUFFICES ASSUME Init PROVE IInv
  OBVIOUS
<1>1. TypeOK
  BY DEF Init, TypeOK, Value
<1>2. OneRequestPerInstance /\ OwnersWorkOnTheirSession
  BY FreeAssumption DEF Init, OneRequestPerInstance, OwnersWorkOnTheirSession, Stage
<1>3. Marked
  BY DEF Init, Marked
<1> QED
  BY <1>1, <1>2, <1>3 DEF IInv

-----------------------------------------------------------------------------
(* A job moves on: its event and session stay, and so does what the group  *)
(* knows.                                                                  *)
Moves(i, p, j) ==
    /\ work[i][p] # Idle
    /\ j \in Job
    /\ j.event = work[i][p].event
    /\ j.session = work[i][p].session
    /\ Put(i, p, j)
    /\ UNCHANGED <<groupVars, committed, pos, handled>>

LEMMA MovesKeeps ==
    ASSUME IInv, NEW i \in Instance, NEW p \in Partition, NEW j, Moves(i, p, j),
           index' \in [Uuid -> Value], orphans' \subseteq Orphan,
           mu' \in [Instance -> Partition \cup {Free}]
    PROVE  /\ TypeOK' /\ OwnersWorkOnTheirSession' /\ Marked'
           /\ \A k \in Instance, q \in Partition :
                 Stage(k, q)' = IF k = i /\ q = p THEN j.stage ELSE Stage(k, q)
<1>1. TypeOK /\ j \in Job /\ j # Idle
  BY IdleAssumption DEF IInv, Moves
<1>2. /\ work' \in [Instance -> [Partition -> Job \cup {Idle}]]
      /\ \A k \in Instance, q \in Partition :
            work'[k][q] = IF k = i /\ q = p THEN j ELSE work[k][q]
  BY <1>1, PutWork DEF Moves
<1>3. UNCHANGED <<topic, owner, session, troubles, consuming, committed, pos, handled>>
  BY DEF Moves, groupVars
<1>4. TypeOK'
  BY <1>1, <1>2, <1>3 DEF TypeOK
<1>5. \A q \in Partition : Current(q)' = Current(q)
  BY <1>3 DEF Current
<1>6. OwnersWorkOnTheirSession'
  BY <1>2, <1>3, <1>5 DEF IInv, OwnersWorkOnTheirSession, Moves
<1>7. Marked'
  BY <1>3 DEF IInv, Marked
<1>8. \A k \in Instance, q \in Partition :
         Stage(k, q)' = IF k = i /\ q = p THEN j.stage ELSE Stage(k, q)
  BY <1>1, <1>2 DEF Stage
<1> QED
  BY <1>4, <1>6, <1>7, <1>8

LEMMA JobStep ==
    ASSUME IInv, NEW i \in Instance, NEW p \in Partition,
           \/ MapDocument(i, p) \/ DeadlinePasses(i, p)
           \/ EsApplies(i, p) \/ EsRefuses(i, p) \/ ConnectionBreaks(i, p)
    PROVE  IInv'
<1>1. TypeOK
  BY DEF IInv
<1>2. work[i][p] # Idle
  BY DEF MapDocument, DeadlinePasses, EsApplies, EsRefuses, ConnectionBreaks, Stage
<1>3. /\ work[i][p] \in Job
      /\ work[i][p].event \in Event
      /\ work[i][p].enriched \in BOOLEAN
      /\ Stage(i, p) = work[i][p].stage
  BY <1>1, <1>2, WorkJob
<1>4. PICK j : /\ Moves(i, p, j)
               /\ \/ j.stage = Stage(i, p)
                  \/ {j.stage, Stage(i, p)} \subseteq {"mapping", "waiting"}
                  \/ {j.stage, Stage(i, p)} \subseteq {"sent", "done", "failed"}
  <2>1. CASE MapDocument(i, p)
    <3>1. PICK ok \in BOOLEAN :
             Put(i, p, [work[i][p] EXCEPT !.stage = "waiting", !.enriched = ok])
      BY <2>1 DEF MapDocument
    <3> DEFINE j == [work[i][p] EXCEPT !.stage = "waiting", !.enriched = ok]
    <3>2. /\ j \in Job /\ j.event = work[i][p].event /\ j.session = work[i][p].session
          /\ j.stage = "waiting"
      BY <1>3 DEF Job
    <3>3. Moves(i, p, j)
      BY <1>2, <2>1, <3>1, <3>2 DEF Moves, MapDocument
    <3>4. {j.stage, Stage(i, p)} \subseteq {"mapping", "waiting"}
      BY <2>1, <3>2 DEF MapDocument
    <3> QED
      BY <3>3, <3>4
  <2>2. CASE DeadlinePasses(i, p)
    <3> DEFINE j == [work[i][p] EXCEPT !.live = FALSE]
    <3>1. /\ j \in Job /\ j.event = work[i][p].event /\ j.session = work[i][p].session
          /\ j.stage = Stage(i, p)
      BY <1>3 DEF Job
    <3>2. Moves(i, p, j)
      BY <1>2, <2>2, <3>1 DEF Moves, DeadlinePasses
    <3> QED
      BY <3>1, <3>2
  <2>3. CASE EsApplies(i, p) \/ EsRefuses(i, p) \/ ConnectionBreaks(i, p)
    <3>1. PICK s \in {"done", "failed"} : Go(i, p, s)
      BY <2>3 DEF EsApplies, EsRefuses, ConnectionBreaks
    <3> DEFINE j == [work[i][p] EXCEPT !.stage = s]
    <3>2. /\ j \in Job /\ j.event = work[i][p].event /\ j.session = work[i][p].session
          /\ j.stage = s
      BY <1>3 DEF Job
    <3>3. Moves(i, p, j)
      BY <1>2, <2>3, <3>1, <3>2 DEF Moves, Go, EsApplies, EsRefuses, ConnectionBreaks
    <3>4. {j.stage, Stage(i, p)} \subseteq {"sent", "done", "failed"}
      BY <2>3, <3>2 DEF EsApplies, EsRefuses, ConnectionBreaks
    <3> QED
      BY <3>3, <3>4
  <2> QED
    BY <2>1, <2>2, <2>3
<1>5. mu' = mu /\ mu \in [Instance -> Partition \cup {Free}]
  BY <1>1 DEF TypeOK, MapDocument, DeadlinePasses, EsApplies, EsRefuses, ConnectionBreaks
<1>6. index' \in [Uuid -> Value]
  <2>1. CASE EsApplies(i, p)
    <3>1. Effect(work[i][p].event, work[i][p].enriched) \in Value
      BY <1>3, EffectValue
    <3> QED
      BY <2>1, <3>1, <1>1 DEF EsApplies, TypeOK
  <2> QED
    BY <2>1, <1>1 DEF TypeOK, MapDocument, DeadlinePasses, EsRefuses, ConnectionBreaks
<1>7. orphans' \subseteq Orphan
  <2>1. Leavings(i, {p}) \subseteq Orphan
    BY <1>1, LeavingsOrphans
  <2> QED
    BY <2>1, <1>1 DEF TypeOK, MapDocument, DeadlinePasses, EsApplies, EsRefuses,
       ConnectionBreaks
<1>8. /\ TypeOK' /\ OwnersWorkOnTheirSession' /\ Marked'
      /\ \A k \in Instance, q \in Partition :
            Stage(k, q)' = IF k = i /\ q = p THEN j.stage ELSE Stage(k, q)
  BY <1>4, <1>5, <1>6, <1>7, MovesKeeps
<1>9. OneRequestPerInstance'
  BY <1>4, <1>5, <1>8 DEF IInv, OneRequestPerInstance
<1> QED
  BY <1>8, <1>9 DEF IInv

LEMMA SendStep ==
    ASSUME IInv, NEW i \in Instance, NEW p \in Partition, SendRequest(i, p)
    PROVE  IInv'
<1>1. TypeOK
  BY DEF IInv
<1>2. work[i][p] # Idle
  BY DEF SendRequest, Stage
<1>3. work[i][p] \in Job
  BY <1>1, <1>2, WorkJob
<1>4. PICK s \in {"sent", "failed"} : Go(i, p, s)
  BY DEF SendRequest
<1> DEFINE j == [work[i][p] EXCEPT !.stage = s]
<1>5. /\ j \in Job /\ j.event = work[i][p].event /\ j.session = work[i][p].session
      /\ j.stage = s
  BY <1>3 DEF Job
<1>6. Moves(i, p, j)
  BY <1>2, <1>4, <1>5 DEF Moves, Go, SendRequest
<1> HIDE DEF j
<1>7. /\ mu' \in [Instance -> Partition \cup {Free}]
      /\ \A k \in Instance : mu'[k] = IF k = i THEN p ELSE mu[k]
      /\ mu[i] = Free
  BY <1>1 DEF SendRequest, TypeOK, MutexFree
<1>8. index' \in [Uuid -> Value] /\ orphans' \subseteq Orphan
  BY <1>1 DEF SendRequest, TypeOK
<1>9. /\ TypeOK' /\ OwnersWorkOnTheirSession' /\ Marked'
      /\ \A k \in Instance, q \in Partition :
            Stage(k, q)' = IF k = i /\ q = p THEN j.stage ELSE Stage(k, q)
  BY <1>6, <1>7, <1>8, MovesKeeps
<1>10. OneRequestPerInstance'
  BY <1>5, <1>7, <1>9, FreeAssumption DEF IInv, OneRequestPerInstance
<1> QED
  BY <1>9, <1>10 DEF IInv

-----------------------------------------------------------------------------
(* A handler begins, and returns. *)

LEMMA BeginStep ==
    ASSUME IInv, NEW i \in Instance, NEW p \in Partition, Begin(i, p)
    PROVE  IInv'
<1>1. /\ TypeOK /\ owner[p] = i /\ work[i][p] = Idle
      /\ UNCHANGED <<topic, owner, session, troubles, consuming, index, committed,
                     pos, mu, orphans, handled>>
  BY DEF IInv, Begin, Delivered, groupVars
<1>2. PICK j \in Job : /\ Put(i, p, j)
                      /\ j.event = Current(p) /\ j.session = session
                      /\ j.stage \in {"mapping", "waiting"}
  <2>1. PICK s \in {"mapping", "waiting"} :
           Put(i, p, [event |-> Current(p), session |-> session, live |-> TRUE,
                      enriched |-> FALSE, stage |-> s])
    BY DEF Begin
  <2>2. [event |-> Current(p), session |-> session, live |-> TRUE,
         enriched |-> FALSE, stage |-> s] \in Job
    BY <1>1, CurrentEvent DEF Job, TypeOK
  <2> QED
    BY <2>1, <2>2
<1>3. /\ work' \in [Instance -> [Partition -> Job \cup {Idle}]]
      /\ \A k \in Instance, q \in Partition :
            work'[k][q] = IF k = i /\ q = p THEN j ELSE work[k][q]
  BY <1>1, <1>2, PutWork
<1>4. TypeOK'
  BY <1>1, <1>3 DEF TypeOK
<1>5. j # Idle
  BY <1>2, IdleAssumption
<1>6. \A q \in Partition : Current(q)' = Current(q)
  BY <1>1 DEF Current
<1>7. OwnersWorkOnTheirSession'
  BY <1>1, <1>2, <1>3, <1>6 DEF IInv, OwnersWorkOnTheirSession, TypeOK
<1>8. \A k \in Instance, q \in Partition :
         Stage(k, q)' = IF k = i /\ q = p THEN j.stage ELSE Stage(k, q)
  BY <1>3, <1>5 DEF Stage
<1>9. Stage(i, p) = "idle"
  BY <1>1 DEF Stage
<1>10. OneRequestPerInstance'
  BY <1>1, <1>2, <1>8, <1>9 DEF IInv, OneRequestPerInstance
<1>11. Marked'
  BY <1>1 DEF IInv, Marked
<1> QED
  BY <1>4, <1>7, <1>10, <1>11 DEF IInv

(* The owner's position moves past the event its handler has returned from. *)
LEMMA MarkKeeps ==
    ASSUME IInv, NEW i \in Instance, NEW p \in Partition, NEW e \in Event,
           owner[p] = i => e = Current(p), Mark(i, p, e), committed' = committed
    PROVE  /\ Marked'
           /\ pos' \in [Partition -> Nat]
           /\ handled' \subseteq Event
           /\ \A q \in Partition : q # p => pos'[q] = pos[q]
           /\ owner[p] # i => pos' = pos
<1>1. pos \in [Partition -> Nat] /\ handled \subseteq Event /\ committed \in [Partition -> Nat]
  BY DEF IInv, TypeOK
<1>2. handled' = handled \cup {e}
  BY DEF Mark
<1>3. CASE owner[p] # i
  <2>1. pos' = pos
    BY <1>3 DEF Mark, Stale
  <2> QED
    BY <1>1, <1>2, <2>1 DEF IInv, Marked
<1>4. CASE owner[p] = i
  <2>1. pos' = [pos EXCEPT ![p] = @ + 1]
    BY <1>4 DEF Mark, Stale
  <2>2. pos' \in [Partition -> Nat] /\ \A q \in Partition : pos'[q] = IF q = p THEN pos[q] + 1 ELSE pos[q]
    BY <1>1, <2>1
  <2>3. e = [part |-> p, off |-> pos[p] + 1]
    BY <1>4 DEF Current
  <2>4. Marked'
    <3> SUFFICES ASSUME NEW q \in Partition
                 PROVE  /\ committed[q] <= pos'[q]
                        /\ \A o \in 1 .. pos'[q] : [part |-> q, off |-> o] \in handled'
      BY DEF Marked
    <3>1. committed[q] <= pos[q] /\ \A o \in 1 .. pos[q] : [part |-> q, off |-> o] \in handled
      BY DEF IInv, Marked
    <3>2. \A o \in 1 .. pos'[q] : o \in 1 .. pos[q] \/ (q = p /\ o = pos[p] + 1)
      BY <1>1, <2>2
    <3> QED
      BY <1>1, <1>2, <2>2, <2>3, <3>1, <3>2
  <2> QED
    BY <1>1, <1>2, <1>4, <2>2, <2>4
<1> QED
  BY <1>3, <1>4

LEMMA PassOverStep ==
    ASSUME IInv, NEW i \in Instance, NEW p \in Partition, PassOver(i, p)
    PROVE  IInv'
<1>1. /\ TypeOK /\ owner[p] = i /\ work[i][p] = Idle
      /\ UNCHANGED <<topic, owner, session, troubles, consuming, index, committed,
                     mu, work, orphans>>
  BY DEF IInv, PassOver, Delivered, groupVars
<1>2. Current(p) \in Event /\ Mark(i, p, Current(p))
  BY <1>1, CurrentEvent DEF PassOver
<1>3. /\ Marked'
      /\ pos' \in [Partition -> Nat]
      /\ handled' \subseteq Event
      /\ \A q \in Partition : q # p => pos'[q] = pos[q]
  BY <1>1, <1>2, MarkKeeps
<1>4. TypeOK'
  BY <1>1, <1>3 DEF TypeOK
<1>5. OneRequestPerInstance'
  BY <1>1 DEF IInv, OneRequestPerInstance, Stage
<1>6. \A q \in Partition : q # p => Current(q)' = Current(q)
  BY <1>3 DEF Current
<1>7. OwnersWorkOnTheirSession'
  BY <1>1, <1>6 DEF IInv, OwnersWorkOnTheirSession
<1> QED
  BY <1>3, <1>4, <1>5, <1>7 DEF IInv

LEMMA FinishStep ==
    ASSUME IInv, NEW i \in Instance, NEW p \in Partition, Finish(i, p)
    PROVE  IInv'
<1>1. /\ TypeOK /\ work[i][p] # Idle
      /\ Stage(i, p) \in {"sent", "done", "failed"}
      /\ UNCHANGED <<topic, owner, session, troubles, consuming, index, committed>>
  BY DEF IInv, Finish, groupVars, Stage
<1>2. work[i][p].event \in Event
  BY <1>1, WorkJob
<1>3. owner[p] = i => work[i][p].event = Current(p)
  BY <1>1 DEF IInv, OwnersWorkOnTheirSession
<1>4. /\ Marked'
      /\ pos' \in [Partition -> Nat]
      /\ handled' \subseteq Event
      /\ \A q \in Partition : q # p => pos'[q] = pos[q]
      /\ owner[p] # i => pos' = pos
  BY <1>1, <1>2, <1>3, MarkKeeps DEF Finish
<1>5. /\ work' \in [Instance -> [Partition -> Job \cup {Idle}]]
      /\ \A k \in Instance, q \in Partition :
            work'[k][q] = IF k = i /\ q = p THEN Idle ELSE work[k][q]
  BY <1>1, PutWork DEF Finish
<1>6. mu[i] = p
  BY <1>1 DEF IInv, OneRequestPerInstance
<1>7. /\ mu' \in [Instance -> Partition \cup {Free}]
      /\ \A k \in Instance : mu'[k] = IF k = i THEN Free ELSE mu[k]
  BY <1>1, <1>6 DEF Finish, Unlocked, TypeOK
<1>8. orphans' \subseteq Orphan
  <2>1. Leavings(i, {p}) \subseteq Orphan
    BY <1>1, LeavingsOrphans
  <2> QED
    BY <1>1, <2>1 DEF Finish, TypeOK
<1>9. TypeOK'
  BY <1>1, <1>4, <1>5, <1>7, <1>8 DEF TypeOK
<1>10. \A k \in Instance, q \in Partition :
         Stage(k, q)' = IF k = i /\ q = p THEN "idle" ELSE Stage(k, q)
  BY <1>5 DEF Stage
<1>11. OneRequestPerInstance'
  BY <1>6, <1>7, <1>10, FreeAssumption DEF IInv, OneRequestPerInstance
<1>12. \A q \in Partition : q # p \/ owner[p] # i => Current(q)' = Current(q)
  BY <1>4 DEF Current
<1>13. OwnersWorkOnTheirSession'
  BY <1>1, <1>5, <1>12 DEF IInv, OwnersWorkOnTheirSession
<1> QED
  BY <1>4, <1>9, <1>11, <1>13 DEF IInv

-----------------------------------------------------------------------------
(* Orphans, commits, and instances that come. *)

LEMMA OutsideStep ==
    ASSUME IInv,
           \/ \E o \in orphans : OrphanLands(o) \/ OrphanIsLost(o)
           \/ \E p \in Partition : Commit(p)
           \/ \E i \in Instance : Connect(i)
           \/ UNCHANGED vars
    PROVE  IInv'
<1>1. TypeOK
  BY DEF IInv
<1>2. UNCHANGED <<topic, owner, pos, session, troubles, mu, work, handled>>
  BY DEF OrphanLands, OrphanIsLost, Commit, Connect, groupVars, vars
<1>3. orphans' \subseteq Orphan
  BY <1>1 DEF OrphanLands, OrphanIsLost, Commit, Connect, groupVars, vars, TypeOK
<1>4. consuming \subseteq consuming' /\ consuming' \subseteq Instance
  BY <1>1 DEF OrphanLands, OrphanIsLost, Commit, Connect, groupVars, vars, TypeOK
<1>5. index' \in [Uuid -> Value]
  <2>1. ASSUME NEW o \in orphans, OrphanLands(o) PROVE index' \in [Uuid -> Value]
    <3>1. Effect(o.event, o.enriched) \in Value
      BY <1>1, EffectValue DEF TypeOK, Orphan
    <3> QED
      BY <1>1, <2>1, <3>1 DEF OrphanLands, TypeOK
  <2> QED
    BY <1>1, <2>1 DEF OrphanIsLost, Commit, Connect, groupVars, vars, TypeOK
<1>6. /\ committed' \in [Partition -> Nat]
      /\ \A p \in Partition : committed'[p] = committed[p] \/ committed'[p] = pos[p]
  BY <1>1 DEF OrphanLands, OrphanIsLost, Commit, Connect, groupVars, vars, TypeOK
<1>7. TypeOK'
  BY <1>1, <1>2, <1>3, <1>4, <1>5, <1>6 DEF TypeOK
<1>8. OneRequestPerInstance' /\ OwnersWorkOnTheirSession'
  BY <1>2 DEF IInv, OneRequestPerInstance, OwnersWorkOnTheirSession, Stage, Current
<1>9. Marked'
  BY <1>1, <1>2, <1>6 DEF IInv, Marked, TypeOK
<1> QED
  BY <1>7, <1>8, <1>9 DEF IInv

-----------------------------------------------------------------------------
(* Rebalances and crashes. *)

(* The new owners have no handler at work: whoever has one is of an earlier *)
(* session.                                                                *)
LEMMA RebalanceStep ==
    ASSUME IInv, Rebalance PROVE IInv'
<1>1. /\ TypeOK
      /\ owner' \in [Partition -> Ready]
      /\ pos' = committed /\ session' = session + 1
      /\ UNCHANGED <<topic, index, committed, consuming, mu, work, orphans, handled>>
  BY DEF IInv, Rebalance
<1>2. troubles' \in Nat
  BY <1>1 DEF Rebalance, TypeOK
<1>3. TypeOK'
  BY <1>1, <1>2 DEF TypeOK, Ready
<1>4. OneRequestPerInstance'
  BY <1>1 DEF IInv, OneRequestPerInstance, Stage
<1>5. \A i \in Instance, p \in Partition : owner'[p] = i => work[i][p] = Idle
  BY <1>1 DEF Ready
<1>6. OwnersWorkOnTheirSession'
  <2> SUFFICES ASSUME NEW i \in Instance, NEW p \in Partition, work[i][p] # Idle
               PROVE  /\ work[i][p].session <= session'
                      /\ owner'[p] # i /\ work[i][p].session # session'
    BY <1>1 DEF OwnersWorkOnTheirSession
  <2>1. work[i][p].session <= session /\ work[i][p].session \in Nat /\ session \in Nat
    BY <1>1, WorkJob DEF IInv, OwnersWorkOnTheirSession, TypeOK
  <2> QED
    BY <1>1, <1>5, <2>1
<1>7. Marked'
  BY <1>1 DEF IInv, Marked, TypeOK
<1> QED
  BY <1>3, <1>4, <1>6, <1>7 DEF IInv

LEMMA CrashStep ==
    ASSUME IInv, NEW i \in Instance, Crash(i) PROVE IInv'
<1>1. /\ TypeOK
      /\ UNCHANGED <<topic, index, committed, session, handled>>
  BY DEF IInv, Crash
<1>2. /\ work' \in [Instance -> [Partition -> Job \cup {Idle}]]
      /\ \A k \in Instance, q \in Partition :
            work'[k][q] = IF k = i THEN Idle ELSE work[k][q]
  BY <1>1 DEF Crash, TypeOK
<1>3. /\ mu' \in [Instance -> Partition \cup {Free}]
      /\ \A k \in Instance : mu'[k] = IF k = i THEN Free ELSE mu[k]
  BY <1>1 DEF Crash, TypeOK
<1>4. /\ owner' \in [Partition -> consuming' \cup {Nobody}]
      /\ \A q \in Partition : owner'[q] = IF owner[q] = i THEN Nobody ELSE owner[q]
      /\ consuming' \subseteq Instance
  BY <1>1 DEF Crash, TypeOK
<1>5. /\ pos' \in [Partition -> Nat]
      /\ \A q \in Partition : pos'[q] = IF owner[q] = i THEN committed[q] ELSE pos[q]
  BY <1>1 DEF Crash, TypeOK
<1>6. orphans' \subseteq Orphan
  BY <1>1, LeavingsOrphans DEF Crash, TypeOK
<1>7. troubles' \in Nat
  BY <1>1 DEF Crash, TypeOK
<1>8. TypeOK'
  BY <1>1, <1>2, <1>3, <1>4, <1>5, <1>6, <1>7 DEF TypeOK
<1>9. \A k \in Instance, q \in Partition :
         Stage(k, q)' = IF k = i THEN "idle" ELSE Stage(k, q)
  BY <1>2 DEF Stage
<1>10. OneRequestPerInstance'
  BY <1>3, <1>9, FreeAssumption DEF IInv, OneRequestPerInstance
<1>11. OwnersWorkOnTheirSession'
  <2> SUFFICES ASSUME NEW k \in Instance, NEW q \in Partition, work'[k][q] # Idle
               PROVE  (/\ work[k][q].session <= session
                       /\ owner[q] = k <=> work[k][q].session = session
                       /\ owner[q] = k => work[k][q].event = Current(q))'
    BY DEF OwnersWorkOnTheirSession
  <2>1. k # i /\ work'[k][q] = work[k][q] /\ session' = session
    BY <1>1, <1>2
  <2>2. owner'[q] = k <=> owner[q] = k
    BY <1>4, <2>1, NobodyAssumption
  <2>3. owner[q] = k => Current(q)' = Current(q)
    BY <1>5, <2>1 DEF Current
  <2> QED
    BY <2>1, <2>2, <2>3 DEF IInv, OwnersWorkOnTheirSession
<1>12. Marked'
  <2> SUFFICES ASSUME NEW q \in Partition
               PROVE  /\ committed[q] <= pos'[q]
                      /\ \A o \in 1 .. pos'[q] : [part |-> q, off |-> o] \in handled
    BY <1>1 DEF Marked
  <2>1. /\ committed[q] \in Nat /\ pos[q] \in Nat
        /\ committed[q] <= pos[q]
        /\ \A o \in 1 .. pos[q] : [part |-> q, off |-> o] \in handled
    BY <1>1 DEF IInv, Marked, TypeOK
  <2> QED
    BY <1>5, <2>1
<1> QED
  BY <1>8, <1>10, <1>11, <1>12 DEF IInv

-----------------------------------------------------------------------------
(* The inductive invariant holds throughout.                               *)
THEOREM Invariance == Spec => []IInv
<1>1. IInv /\ [Next]_vars => IInv'
  BY JobStep, SendStep, BeginStep, PassOverStep, FinishStep, OutsideStep, RebalanceStep,
     CrashStep DEF Next, Handle, Elasticsearch, Group
<1> QED
  BY InitInv, <1>1, PTL DEF Spec

(* Every variable has its type; a partition belongs to an instance that     *)
(* consumes or to nobody.                                                  *)
THEOREM TypeCorrect == Spec => []TypeOK
<1>1. IInv => TypeOK
  BY DEF IInv
<1> QED
  BY Invariance, <1>1, PTL

(* Each instance awaits at most one request, also while it works for        *)
(* partitions it has lost.                                                 *)
THEOREM OneRequest == Spec => []OneRequestPerInstance
<1>1. IInv => OneRequestPerInstance
  BY DEF IInv
<1> QED
  BY Invariance, <1>1, PTL

(* An owner's handler is at the owner's position in the current session;    *)
(* every other handler is of an earlier one.                               *)
THEOREM OwnersWork == Spec => []OwnersWorkOnTheirSession
<1>1. IInv => OwnersWorkOnTheirSession
  BY DEF IInv
<1> QED
  BY Invariance, <1>1, PTL

(* No event is skipped, however often partitions change hands: what is      *)
(* committed a handler has returned from.                                  *)
THEOREM NothingSkipped == Spec => []AtLeastOnce
<1>1. IInv => AtLeastOnce
  <2> SUFFICES ASSUME IInv, NEW p \in Partition, NEW o \in 1 .. committed[p]
               PROVE  [part |-> p, off |-> o] \in handled
    BY DEF AtLeastOnce
  <2>1. committed[p] \in Nat /\ pos[p] \in Nat
    BY DEF IInv, TypeOK
  <2>2. /\ committed[p] <= pos[p]
        /\ \A n \in 1 .. pos[p] : [part |-> p, off |-> n] \in handled
    BY DEF IInv, Marked
  <2>3. o \in 1 .. pos[p]
    BY <2>1, <2>2
  <2> QED
    BY <2>2, <2>3
<1> QED
  BY Invariance, <1>1, PTL

-----------------------------------------------------------------------------
(* The order of the log.  What comes late in the group, orphans and the    *)
(* jobs of lost partitions, is named by event and session.  The invariant  *)
(* sees to it that no two of them have one name: then what is applied late *)
(* is applied once.                                                        *)

Open    == {"mapping", "waiting", "sent"}
Decided == {"done", "failed"}

(* A job is about an eligible event of its partition.                      *)
EntitledJobs ==
    \A i \in Instance, p \in Partition :
        work[i][p] # Idle =>
            /\ work[i][p].event.part = p
            /\ work[i][p].event.off <= Len(topic[p])
            /\ Eligible(Msg(work[i][p].event))

(* A session has one owner for a partition.                                *)
OneJobPerSession ==
    \A i, k \in Instance, p \in Partition :
        /\ work[i][p] # Idle /\ work[k][p] # Idle
        /\ work[i][p].session = work[k][p].session
        => i = k

(* An orphan of the current session is of an event that is decided.        *)
OrphansDecided ==
    \A o \in orphans :
        /\ Eligible(Msg(o.event))
        /\ o.session <= session
        /\ o.session = session /\ owner[o.event.part] # Nobody =>
              o.event.off < Undecided[o.event.part]

NoTwins ==
    /\ \A o \in orphans, i \in Instance, p \in Partition :
          Stage(i, p) \in Open => Identity(o) # Identity(work[i][p])
    /\ \A o1, o2 \in orphans : Identity(o1) = Identity(o2) => o1 = o2

OrderInv == EntitledJobs /\ OneJobPerSession /\ OrphansDecided /\ NoTwins

-----------------------------------------------------------------------------
(* Undecided events and late ones. *)

LEMMA UndecidedOf ==
    \A q \in Partition :
        Undecided[q] = IF owner[q] \in Instance /\ Stage(owner[q], q) \in Decided
                       THEN pos[q] + 2 ELSE pos[q] + 1
  BY DEF Undecided, Decided

LEMMA UndecidedNext ==
    \A q \in Partition :
        Undecided'[q] = IF owner'[q] \in Instance /\ Stage(owner[q], q)' \in Decided
                        THEN pos'[q] + 2 ELSE pos'[q] + 1
  BY DEF Undecided, Decided

LEMMA SameUndecided ==
    ASSUME \A q \in Partition : Undecided'[q] = Undecided[q]
    PROVE  Undecided' = Undecided
<1>1. /\ Undecided' = [q \in Partition |-> Undecided'[q]]
      /\ Undecided = [q \in Partition |-> Undecided[q]]
  BY DEF Undecided
<1> QED
  BY <1>1

LEMMA MovedUndecided ==
    ASSUME NEW p \in Partition, NEW n, Undecided'[p] = n,
           \A q \in Partition : q # p => Undecided'[q] = Undecided[q]
    PROVE  Undecided' = [Undecided EXCEPT ![p] = n]
<1>1. /\ Undecided' = [q \in Partition |-> Undecided'[q]]
      /\ Undecided = [q \in Partition |-> Undecided[q]]
  BY DEF Undecided
<1> QED
  BY <1>1

LEMMA LateOf ==
    \A x : x \in Late <=>
        \/ \E o \in orphans : x = Identity(o)
        \/ \E i \in Instance, p \in Partition :
              Stage(i, p) \in Open /\ owner[p] # i /\ x = Identity(work[i][p])
<1> DEFINE Jobs == {jp \in Instance \X Partition :
                        Stage(jp[1], jp[2]) \in Open /\ owner[jp[2]] # jp[1]}
           Of(ip) == Identity(work[ip[1]][ip[2]])
<1>1. Late = {Identity(o) : o \in orphans} \cup {Of(ip) : ip \in Jobs}
  BY DEF Late, Open, Stale
<1> SUFFICES ASSUME NEW x
             PROVE  (\E ip \in Jobs : x = Of(ip)) <=>
                    \E i \in Instance, p \in Partition :
                       Stage(i, p) \in Open /\ owner[p] # i /\ x = Identity(work[i][p])
  BY <1>1
<1>2. ASSUME NEW ip \in Jobs, x = Of(ip)
      PROVE  \E i \in Instance, p \in Partition :
                Stage(i, p) \in Open /\ owner[p] # i /\ x = Identity(work[i][p])
  <2>1. ip[1] \in Instance /\ ip[2] \in Partition
    OBVIOUS
  <2> QED
    BY <1>2, <2>1
<1>3. ASSUME NEW i \in Instance, NEW p \in Partition, Stage(i, p) \in Open,
             owner[p] # i, x = Identity(work[i][p])
      PROVE  \E ip \in Jobs : x = Of(ip)
  <2>1. <<i, p>> \in Jobs /\ x = Of(<<i, p>>)
    BY <1>3
  <2> QED
    BY <2>1
<1> QED
  BY <1>2, <1>3

LEMMA LateNext ==
    \A x : x \in Late' <=>
        \/ \E o \in orphans' : x = Identity(o)
        \/ \E i \in Instance, p \in Partition :
              Stage(i, p)' \in Open /\ owner'[p] # i /\ x = Identity(work'[i][p])
<1> DEFINE Jobs == {jp \in Instance \X Partition :
                        Stage(jp[1], jp[2])' \in Open /\ owner'[jp[2]] # jp[1]}
           Of(ip) == Identity(work'[ip[1]][ip[2]])
<1>1. Late' = {Identity(o) : o \in orphans'} \cup {Of(ip) : ip \in Jobs}
  BY DEF Late, Open, Stale
<1> SUFFICES ASSUME NEW x
             PROVE  (\E ip \in Jobs : x = Of(ip)) <=>
                    \E i \in Instance, p \in Partition :
                       Stage(i, p)' \in Open /\ owner'[p] # i /\ x = Identity(work'[i][p])
  BY <1>1
<1>2. ASSUME NEW ip \in Jobs, x = Of(ip)
      PROVE  \E i \in Instance, p \in Partition :
                Stage(i, p)' \in Open /\ owner'[p] # i /\ x = Identity(work'[i][p])
  <2>1. ip[1] \in Instance /\ ip[2] \in Partition
    OBVIOUS
  <2> QED
    BY <1>2, <2>1
<1>3. ASSUME NEW i \in Instance, NEW p \in Partition, Stage(i, p)' \in Open,
             owner'[p] # i, x = Identity(work'[i][p])
      PROVE  \E ip \in Jobs : x = Of(ip)
  <2>1. <<i, p>> \in Jobs /\ x = Of(<<i, p>>)
    BY <1>3
  <2> QED
    BY <2>1
<1> QED
  BY <1>2, <1>3

-----------------------------------------------------------------------------
(* The steps of a job past its guards.                                     *)

Turns(i, p, j) ==
    /\ work[i][p] # Idle
    /\ Put(i, p, j)
    /\ j = Idle \/ (j \in Job /\ j.event = work[i][p].event /\ j.session = work[i][p].session)
    /\ UNCHANGED <<topic, owner, session, committed>>

Returns(i, p, j) ==
    /\ j = Idle
    /\ pos' = IF owner[p] = i THEN [pos EXCEPT ![p] = @ + 1] ELSE pos

(* Nothing is decided, or nothing more.                                    *)
Quiet(i, p, j) ==
    /\ Turns(i, p, j)
    /\ j # Idle
    /\ \/ Stage(i, p) \in Open /\ j.stage \in Open
       \/ Stage(i, p) \in Decided /\ j.stage \in Decided
    /\ UNCHANGED <<pos, index, orphans>>

(* The event is decided.                                                   *)
Settled(i, p, j) ==
    /\ Turns(i, p, j)
    /\ Stage(i, p) \in Open
    /\ j # Idle /\ j.stage \in Decided
    /\ UNCHANGED <<pos, orphans>>

(* A request is left behind.                                               *)
Left(i, p, j) ==
    /\ Turns(i, p, j)
    /\ Stage(i, p) \in Open
    /\ \/ j # Idle /\ j.stage \in Decided /\ pos' = pos
       \/ Returns(i, p, j)
    /\ \E o : /\ orphans' = orphans \cup {o}
              /\ o.event = work[i][p].event /\ o.session = work[i][p].session
    /\ UNCHANGED index

(* The handler returns from a decided event.                               *)
Ended(i, p, j) ==
    /\ Turns(i, p, j)
    /\ Stage(i, p) \in Decided
    /\ Returns(i, p, j)
    /\ UNCHANGED <<index, orphans>>

LEMMA GoTurns ==
    ASSUME TypeOK, NEW i \in Instance, NEW p \in Partition, work[i][p] # Idle,
           NEW s \in {"mapping", "waiting", "sent", "done", "failed"}, Go(i, p, s),
           UNCHANGED <<topic, owner, session, committed>>
    PROVE  \E j : Turns(i, p, j) /\ j # Idle /\ j.stage = s
<1> DEFINE j == [work[i][p] EXCEPT !.stage = s]
<1>1. work[i][p] \in Job
  BY WorkJob
<1>2. /\ j \in Job /\ j.event = work[i][p].event /\ j.session = work[i][p].session
      /\ j.stage = s
  BY <1>1 DEF Job
<1>3. Turns(i, p, j) /\ j # Idle
  BY <1>2, IdleAssumption DEF Turns, Go
<1> QED
  BY <1>2, <1>3

LEMMA Leaving ==
    ASSUME NEW i \in Instance, NEW p \in Partition
    PROVE  /\ Stage(i, p) # "sent" => Leavings(i, {p}) = {}
           /\ Stage(i, p) = "sent" =>
                 \E o : /\ Leavings(i, {p}) = {o}
                        /\ o.event = work[i][p].event /\ o.session = work[i][p].session
<1>1. CASE Stage(i, p) = "sent"
  <2> DEFINE o == [event |-> work[i][p].event, session |-> work[i][p].session,
                   enriched |-> work[i][p].enriched]
  <2>1. Leavings(i, {p}) = {o}
    BY <1>1 DEF Leavings
  <2>2. o.event = work[i][p].event /\ o.session = work[i][p].session
    OBVIOUS
  <2> HIDE DEF o
  <2> QED
    BY <1>1, <2>1, <2>2
<1>2. CASE Stage(i, p) # "sent"
  BY <1>2 DEF Leavings
<1> QED
  BY <1>1, <1>2

LEMMA JobClasses ==
    ASSUME TypeOK, NEW i \in Instance, NEW p \in Partition,
           \/ MapDocument(i, p) \/ DeadlinePasses(i, p) \/ SendRequest(i, p)
           \/ Finish(i, p) \/ EsRefuses(i, p) \/ ConnectionBreaks(i, p)
    PROVE  \E j : \/ Quiet(i, p, j) \/ (Settled(i, p, j) /\ UNCHANGED index)
                  \/ Left(i, p, j) \/ Ended(i, p, j)
<1> USE DEF groupVars, Open, Decided
<1>1. /\ work[i][p] # Idle
      /\ UNCHANGED <<topic, owner, session, committed>>
  BY DEF MapDocument, DeadlinePasses, SendRequest, Finish, EsRefuses, ConnectionBreaks, Stage
<1>2. /\ work[i][p] \in Job /\ Stage(i, p) = work[i][p].stage
      /\ Stage(i, p) \in {"mapping", "waiting", "sent", "done", "failed"}
  BY <1>1, WorkJob DEF Job
<1>3. CASE MapDocument(i, p)
  <2>1. PICK ok \in BOOLEAN :
           Put(i, p, [work[i][p] EXCEPT !.stage = "waiting", !.enriched = ok])
    BY <1>3 DEF MapDocument
  <2> DEFINE j == [work[i][p] EXCEPT !.stage = "waiting", !.enriched = ok]
  <2>2. /\ j \in Job /\ j.event = work[i][p].event /\ j.session = work[i][p].session
        /\ j.stage = "waiting" /\ j # Idle
    BY <1>2, IdleAssumption DEF Job
  <2>3. Quiet(i, p, j)
    BY <1>1, <1>3, <2>1, <2>2 DEF Quiet, Turns, MapDocument
  <2> QED
    BY <2>3
<1>4. CASE DeadlinePasses(i, p)
  <2> DEFINE j == [work[i][p] EXCEPT !.live = FALSE]
  <2>1. /\ j \in Job /\ j.event = work[i][p].event /\ j.session = work[i][p].session
        /\ j.stage = Stage(i, p) /\ j # Idle
    BY <1>2, IdleAssumption DEF Job
  <2>2. Quiet(i, p, j)
    BY <1>1, <1>2, <1>4, <2>1 DEF Quiet, Turns, DeadlinePasses
  <2> QED
    BY <2>2
<1>5. CASE SendRequest(i, p)
  <2>1. PICK s \in {"sent", "failed"} : Go(i, p, s)
    BY <1>5 DEF SendRequest
  <2>2. PICK j : Turns(i, p, j) /\ j # Idle /\ j.stage = s
    BY <1>1, <2>1, GoTurns
  <2>3. Quiet(i, p, j) \/ (Settled(i, p, j) /\ UNCHANGED index)
    BY <1>5, <2>2 DEF Quiet, Settled, SendRequest
  <2> QED
    BY <2>3
<1>6. CASE EsRefuses(i, p)
  <2>1. PICK j : Turns(i, p, j) /\ j # Idle /\ j.stage = "failed"
    BY <1>1, <1>6, GoTurns DEF EsRefuses
  <2>2. Settled(i, p, j) /\ UNCHANGED index
    BY <1>6, <2>1 DEF Settled, EsRefuses
  <2> QED
    BY <2>2
<1>7. CASE ConnectionBreaks(i, p)
  <2>1. PICK j : Turns(i, p, j) /\ j # Idle /\ j.stage = "failed"
    BY <1>1, <1>7, GoTurns DEF ConnectionBreaks
  <2>2. Quiet(i, p, j) \/ Left(i, p, j)
    BY <1>7, <2>1, Leaving DEF Quiet, Left, ConnectionBreaks
  <2> QED
    BY <2>2
<1>8. CASE Finish(i, p)
  <2>1. Turns(i, p, Idle)
    BY <1>1, <1>8 DEF Turns, Finish
  <2>2. Returns(i, p, Idle)
    BY <1>8 DEF Returns, Finish, Mark, Stale
  <2>3. Ended(i, p, Idle) \/ Left(i, p, Idle)
    BY <1>8, <2>1, <2>2, Leaving DEF Ended, Left, Finish
  <2> QED
    BY <2>3
<1> QED
  BY <1>3, <1>4, <1>5, <1>6, <1>7, <1>8

LEMMA AppliesSettles ==
    ASSUME TypeOK, NEW i \in Instance, NEW p \in Partition, EsApplies(i, p)
    PROVE  \E j : Settled(i, p, j)
<1>1. work[i][p] # Idle /\ UNCHANGED <<topic, owner, session, committed>>
  BY DEF EsApplies, Stage, groupVars
<1>2. PICK j : Turns(i, p, j) /\ j # Idle /\ j.stage = "done"
  BY <1>1, GoTurns DEF EsApplies
<1> QED
  BY <1>2 DEF Settled, EsApplies, Open, Decided

(* What becomes of the job, and what the others keep.                      *)
LEMMA TurnWork ==
    ASSUME TypeOK, NEW i \in Instance, NEW p \in Partition, NEW j, Turns(i, p, j)
    PROVE  \A k \in Instance, q \in Partition :
              /\ work'[k][q] = IF k = i /\ q = p THEN j ELSE work[k][q]
              /\ Stage(k, q)' = IF k = i /\ q = p THEN (IF j = Idle THEN "idle" ELSE j.stage)
                                ELSE Stage(k, q)
<1>1. \A k \in Instance, q \in Partition :
         work'[k][q] = IF k = i /\ q = p THEN j ELSE work[k][q]
  BY PutWork DEF Turns
<1> QED
  BY <1>1 DEF Stage

-----------------------------------------------------------------------------
(* What a step of a job does to what is undecided and to what is late.     *)

LEMMA TurnUndecided ==
    ASSUME IInv, NEW i \in Instance, NEW p \in Partition, NEW j,
           Quiet(i, p, j) \/ Settled(i, p, j) \/ Left(i, p, j) \/ Ended(i, p, j)
    PROVE  /\ Quiet(i, p, j) \/ Ended(i, p, j) \/ owner[p] # i => Undecided' = Undecided
           /\ (Settled(i, p, j) \/ Left(i, p, j)) /\ owner[p] = i =>
                 /\ Undecided[p] = pos[p] + 1
                 /\ Undecided' = [Undecided EXCEPT ![p] = pos[p] + 2]
<1>1. TypeOK /\ Turns(i, p, j) /\ owner' = owner
  BY DEF IInv, Quiet, Settled, Left, Ended, Turns
<1>2. pos \in [Partition -> Nat]
  BY <1>1 DEF TypeOK
<1>3. \A k \in Instance, q \in Partition :
         Stage(k, q)' = IF k = i /\ q = p THEN (IF j = Idle THEN "idle" ELSE j.stage)
                        ELSE Stage(k, q)
  BY <1>1, TurnWork
<1>4. /\ \A q \in Partition : q # p => pos'[q] = pos[q]
      /\ owner[p] # i => pos' = pos
  BY <1>2 DEF Quiet, Settled, Left, Ended, Returns
<1>5. \A q \in Partition : q # p \/ owner[p] # i => Undecided'[q] = Undecided[q]
  BY <1>1, <1>3, <1>4, UndecidedOf, UndecidedNext
<1>6. Open \cap Decided = {} /\ "idle" \notin Open \cup Decided
  BY DEF Open, Decided
<1>7. CASE owner[p] # i
  BY <1>5, <1>7, SameUndecided
<1>8. CASE owner[p] = i
  <2>1. Undecided[p] = IF Stage(i, p) \in Decided THEN pos[p] + 2 ELSE pos[p] + 1
    BY <1>8, UndecidedOf
  <2>2. Undecided'[p] = IF Stage(i, p)' \in Decided THEN pos'[p] + 2 ELSE pos'[p] + 1
    BY <1>1, <1>8, UndecidedNext
  <2>3. Stage(i, p)' = IF j = Idle THEN "idle" ELSE j.stage
    BY <1>3
  <2>4. ASSUME Quiet(i, p, j) PROVE Undecided' = Undecided
    <3>1. Undecided'[p] = Undecided[p]
      BY <1>6, <2>1, <2>2, <2>3, <2>4 DEF Quiet
    <3> QED
      BY <1>5, <3>1, SameUndecided
  <2>5. ASSUME Ended(i, p, j) PROVE Undecided' = Undecided
    <3>1. pos'[p] = pos[p] + 1 /\ Stage(i, p)' = "idle"
      BY <1>2, <1>8, <2>3, <2>5 DEF Ended, Returns
    <3>2. Undecided'[p] = Undecided[p]
      BY <1>2, <1>6, <2>1, <2>2, <2>5, <3>1 DEF Ended
    <3> QED
      BY <1>5, <3>2, SameUndecided
  <2>6. ASSUME Settled(i, p, j) \/ Left(i, p, j)
        PROVE  /\ Undecided[p] = pos[p] + 1
               /\ Undecided' = [Undecided EXCEPT ![p] = pos[p] + 2]
    <3>1. Undecided[p] = pos[p] + 1
      BY <1>6, <2>1, <2>6 DEF Settled, Left
    <3>2. Undecided'[p] = pos[p] + 2
      <4>1. CASE j = Idle
        <5>1. pos'[p] = pos[p] + 1 /\ Stage(i, p)' = "idle"
          BY <1>2, <1>8, <2>3, <2>6, <4>1 DEF Settled, Left, Returns
        <5> QED
          BY <1>2, <1>6, <2>2, <5>1
      <4>2. CASE j # Idle
        BY <2>2, <2>3, <2>6, <4>2 DEF Settled, Left, Returns
      <4> QED
        BY <4>1, <4>2
    <3> QED
      BY <1>5, <3>1, <3>2, MovedUndecided
  <2> QED
    BY <1>8, <2>4, <2>5, <2>6
<1> QED
  BY <1>7, <1>8

LEMMA TurnLate ==
    ASSUME IInv, OrderInv, NEW i \in Instance, NEW p \in Partition, NEW j,
           Quiet(i, p, j) \/ Settled(i, p, j) \/ Left(i, p, j) \/ Ended(i, p, j)
    PROVE  /\ Quiet(i, p, j) \/ Ended(i, p, j) \/ (Settled(i, p, j) /\ owner[p] = i)
              \/ (Left(i, p, j) /\ owner[p] # i) => Late' = Late
           /\ Left(i, p, j) => Late' = Late \cup {Identity(work[i][p])}
           /\ Settled(i, p, j) /\ owner[p] # i =>
                 /\ Identity(work[i][p]) \in Late
                 /\ Late' = Late \ {Identity(work[i][p])}
<1>1. TypeOK /\ Turns(i, p, j) /\ owner' = owner /\ work[i][p] # Idle
  BY DEF IInv, Quiet, Settled, Left, Ended, Turns
<1>2. \A k \in Instance, q \in Partition :
         /\ work'[k][q] = IF k = i /\ q = p THEN j ELSE work[k][q]
         /\ Stage(k, q)' = IF k = i /\ q = p THEN (IF j = Idle THEN "idle" ELSE j.stage)
                           ELSE Stage(k, q)
  BY <1>1, TurnWork
<1>3. Open \cap Decided = {} /\ "idle" \notin Open \cup Decided
  BY DEF Open, Decided
<1>4. j # Idle => Identity(j) = Identity(work[i][p])
  BY <1>1 DEF Turns, Identity
<1> DEFINE Others(x) == \/ \E o \in orphans : x = Identity(o)
                        \/ \E k \in Instance, q \in Partition :
                              /\ ~(k = i /\ q = p)
                              /\ Stage(k, q) \in Open /\ owner[q] # k
                              /\ x = Identity(work[k][q])
           This == Identity(work[i][p])
<1>5. \A x : x \in Late <=> Others(x) \/ (Stage(i, p) \in Open /\ owner[p] # i /\ x = This)
  BY LateOf
<1>6. ASSUME orphans' = orphans
      PROVE  \A x : x \in Late' <=> Others(x) \/ (j # Idle /\ j.stage \in Open /\ owner[p] # i /\ x = This)
  BY <1>1, <1>2, <1>3, <1>4, <1>6, LateNext
<1>7. ASSUME Left(i, p, j)
      PROVE  \A x : x \in Late' <=> Others(x) \/ x = This
  <2>1. PICK o : orphans' = orphans \cup {o} /\ Identity(o) = This
    BY <1>7 DEF Left, Identity
  <2>2. ~(j # Idle /\ j.stage \in Open)
    BY <1>3, <1>7 DEF Left, Returns
  <2> QED
    BY <1>1, <1>2, <1>3, <2>1, <2>2, LateNext
<1>8. ASSUME Stage(i, p) \in Open PROVE ~Others(This)
  <2>1. \A o \in orphans : Identity(o) # This
    BY <1>8 DEF OrderInv, NoTwins
  <2>2. ASSUME NEW k \in Instance, NEW q \in Partition, Stage(k, q) \in Open,
               This = Identity(work[k][q])
        PROVE  k = i /\ q = p
    <3>1. work[k][q] # Idle
      BY <1>3, <2>2 DEF Stage
    <3>2. /\ work[k][q].event = work[i][p].event
          /\ work[k][q].session = work[i][p].session
      BY <2>2 DEF Identity
    <3>3. q = p
      BY <1>1, <3>1, <3>2 DEF OrderInv, EntitledJobs
    <3> QED
      BY <1>1, <3>1, <3>2, <3>3 DEF OrderInv, OneJobPerSession
  <2> QED
    BY <2>1, <2>2
<1> HIDE DEF Others, This
<1>9. ASSUME Quiet(i, p, j) PROVE Late' = Late
  BY <1>3, <1>5, <1>6, <1>9 DEF Quiet
<1>10. ASSUME Ended(i, p, j) PROVE Late' = Late
  BY <1>3, <1>5, <1>6, <1>10 DEF Ended, Returns
<1>11. ASSUME Settled(i, p, j)
       PROVE  /\ owner[p] = i => Late' = Late
              /\ owner[p] # i => This \in Late /\ Late' = Late \ {This}
  <2>1. \A x : x \in Late' <=> Others(x)
    BY <1>3, <1>6, <1>11 DEF Settled
  <2> QED
    BY <1>5, <1>8, <1>11, <2>1 DEF Settled
<1>12. ASSUME Left(i, p, j)
       PROVE  /\ Late' = Late \cup {This}
              /\ owner[p] # i => Late' = Late
  BY <1>5, <1>7, <1>12 DEF Left
<1> QED
  BY <1>9, <1>10, <1>11, <1>12 DEF This

LEMMA TurnOrder ==
    ASSUME IInv, OrderInv, NEW i \in Instance, NEW p \in Partition, NEW j,
           Quiet(i, p, j) \/ Settled(i, p, j) \/ Left(i, p, j) \/ Ended(i, p, j)
    PROVE  OrderInv'
<1>1. /\ TypeOK /\ Turns(i, p, j) /\ work[i][p] # Idle
      /\ topic' = topic /\ owner' = owner /\ session' = session
      /\ pos \in [Partition -> Nat]
  BY DEF IInv, Quiet, Settled, Left, Ended, Turns, TypeOK
<1>2. \A k \in Instance, q \in Partition :
         /\ work'[k][q] = IF k = i /\ q = p THEN j ELSE work[k][q]
         /\ Stage(k, q)' = IF k = i /\ q = p THEN (IF j = Idle THEN "idle" ELSE j.stage)
                           ELSE Stage(k, q)
  BY <1>1, TurnWork
<1>3. Open \cap Decided = {} /\ "idle" \notin Open \cup Decided
  BY DEF Open, Decided
<1>4. \A k \in Instance, q \in Partition :
         work'[k][q] # Idle => /\ work[k][q] # Idle
                               /\ work'[k][q].event = work[k][q].event
                               /\ work'[k][q].session = work[k][q].session
  BY <1>1, <1>2 DEF Turns
<1>5. EntitledJobs'
  <2>1. \A e : Msg(e)' = topic'[e.part][e.off] /\ Msg(e) = topic[e.part][e.off]
    BY DEF Msg
  <2> QED
    BY <1>1, <1>4, <2>1 DEF OrderInv, EntitledJobs, Msg
<1>6. OneJobPerSession'
  BY <1>4 DEF OrderInv, OneJobPerSession
<1>7. \A q \in Partition : Undecided'[q] >= Undecided[q]
  <2>1. \A q \in Partition : Undecided[q] \in Nat
    BY <1>1, UndecidedOf
  <2>2. CASE Undecided' = Undecided
    BY <2>1, <2>2
  <2>3. CASE Undecided[p] = pos[p] + 1 /\ Undecided' = [Undecided EXCEPT ![p] = pos[p] + 2]
    BY <1>1, <2>1, <2>3
  <2> QED
    BY <2>2, <2>3, TurnUndecided
<1>8. \A o \in orphans :
         /\ Eligible(Msg(o.event))'
         /\ o.session <= session'
         /\ o.session = session' /\ owner'[o.event.part] # Nobody =>
               o.event.off < Undecided'[o.event.part]
  <2> SUFFICES ASSUME NEW o \in orphans
               PROVE  /\ Eligible(Msg(o.event))'
                      /\ o.session <= session'
                      /\ o.session = session' /\ owner'[o.event.part] # Nobody =>
                            o.event.off < Undecided'[o.event.part]
    OBVIOUS
  <2>1. o.event.part \in Partition /\ o.event.off \in Nat
    BY <1>1 DEF TypeOK, Orphan, Event
  <2>2. Undecided[o.event.part] \in Nat /\ Undecided'[o.event.part] >= Undecided[o.event.part]
        /\ Undecided'[o.event.part] \in Nat
    <3>1. Undecided[o.event.part] \in Nat
      BY <1>1, <2>1, UndecidedOf
    <3>2. pos' \in [Partition -> Nat]
      BY <1>1 DEF Quiet, Settled, Left, Ended, Returns
    <3> QED
      BY <1>7, <2>1, <3>1, <3>2, UndecidedNext
  <2>3. Eligible(Msg(o.event)) /\ o.session <= session
        /\ (o.session = session /\ owner[o.event.part] # Nobody =>
               o.event.off < Undecided[o.event.part])
    BY DEF OrderInv, OrphansDecided
  <2>4. Msg(o.event)' = Msg(o.event)
    BY <1>1 DEF Msg
  <2> QED
    BY <1>1, <2>1, <2>2, <2>3, <2>4
<1>9. CASE Left(i, p, j)
  <2>1. PICK o : /\ orphans' = orphans \cup {o}
                 /\ o.event = work[i][p].event /\ o.session = work[i][p].session
    BY <1>9 DEF Left
  <2>2. /\ Eligible(Msg(o.event))'
        /\ o.event.part = p
        /\ o.session <= session'
        /\ o.session = session' => o.event.off < Undecided'[p]
    <3>1. Eligible(Msg(o.event)) /\ o.event.part = p
      BY <1>1, <2>1 DEF OrderInv, EntitledJobs
    <3>2. Msg(o.event)' = Msg(o.event)
      BY <1>1 DEF Msg
    <3>3. o.session <= session /\ (o.session = session => owner[p] = i /\ o.event = Current(p))
      BY <1>1, <2>1 DEF IInv, OwnersWorkOnTheirSession
    <3>4. ASSUME owner[p] = i, o.event = Current(p) PROVE o.event.off < Undecided'[p]
      <4>1. o.event.off = pos[p] + 1
        BY <3>4 DEF Current
      <4>2. Undecided' = [Undecided EXCEPT ![p] = pos[p] + 2]
        BY <1>9, <3>4, TurnUndecided
      <4>3. Undecided'[p] = pos[p] + 2
        BY <4>2 DEF Undecided
      <4> QED
        BY <1>1, <4>1, <4>3
    <3> QED
      BY <1>1, <3>1, <3>2, <3>3, <3>4
  <2>3. OrphansDecided'
    BY <1>8, <2>1, <2>2 DEF OrphansDecided
  <2>4. \A k \in Instance, q \in Partition :
           Stage(k, q)' \in Open => Identity(o) # Identity(work'[k][q])
    <3> SUFFICES ASSUME NEW k \in Instance, NEW q \in Partition, Stage(k, q)' \in Open,
                        Identity(o) = Identity(work'[k][q])
                 PROVE  FALSE
      OBVIOUS
    <3>1. work'[k][q] # Idle
      BY <1>3 DEF Stage
    <3>2. /\ work[k][q] # Idle
          /\ work[k][q].event = work[i][p].event
          /\ work[k][q].session = work[i][p].session
      BY <1>4, <2>1, <3>1 DEF Identity
    <3>3. q = p
      BY <1>1, <3>2 DEF OrderInv, EntitledJobs
    <3>4. k = i
      BY <1>1, <3>2, <3>3 DEF OrderInv, OneJobPerSession
    <3> QED
      BY <1>2, <1>3, <1>9, <3>3, <3>4 DEF Left, Returns
  <2>5. \A o1 \in orphans : Identity(o1) # Identity(o)
    <3>1. Identity(o) = Identity(work[i][p])
      BY <2>1 DEF Identity
    <3> QED
      BY <1>9, <3>1 DEF Left, OrderInv, NoTwins
  <2>6. \A o1 \in orphans, k \in Instance, q \in Partition :
           Stage(k, q)' \in Open => Identity(o1) # Identity(work'[k][q])
    <3> SUFFICES ASSUME NEW o1 \in orphans, NEW k \in Instance, NEW q \in Partition,
                        Stage(k, q)' \in Open
                 PROVE  Identity(o1) # Identity(work'[k][q])
      OBVIOUS
    <3>1. ~(k = i /\ q = p)
      BY <1>2, <1>3, <1>9 DEF Left, Returns
    <3>2. work'[k][q] = work[k][q] /\ Stage(k, q) \in Open
      BY <1>2, <3>1
    <3> QED
      BY <3>2 DEF OrderInv, NoTwins
  <2>7. NoTwins'
    <3>1. \A o1 \in orphans', k \in Instance, q \in Partition :
             Stage(k, q)' \in Open => Identity(o1) # Identity(work'[k][q])
      BY <2>1, <2>4, <2>6
    <3>2. \A o1, o2 \in orphans' : Identity(o1) = Identity(o2) => o1 = o2
      BY <2>1, <2>5 DEF OrderInv, NoTwins
    <3> QED
      BY <3>1, <3>2 DEF NoTwins, Identity
  <2> QED
    BY <1>5, <1>6, <2>3, <2>7 DEF OrderInv
<1>10. CASE Quiet(i, p, j) \/ Settled(i, p, j) \/ Ended(i, p, j)
  <2>1. orphans' = orphans
    BY <1>10 DEF Quiet, Settled, Ended
  <2>2. OrphansDecided'
    BY <1>8, <2>1 DEF OrphansDecided
  <2>3. \A k \in Instance, q \in Partition :
           Stage(k, q)' \in Open =>
              Stage(k, q) \in Open /\ Identity(work'[k][q]) = Identity(work[k][q])
    <3> SUFFICES ASSUME NEW k \in Instance, NEW q \in Partition, Stage(k, q)' \in Open
                 PROVE  Stage(k, q) \in Open /\ Identity(work'[k][q]) = Identity(work[k][q])
      OBVIOUS
    <3>1. Stage(k, q) \in Open
      BY <1>2, <1>3, <1>10 DEF Quiet, Settled, Ended, Returns
    <3>2. work'[k][q] # Idle
      BY <1>3 DEF Stage
    <3> QED
      BY <1>4, <3>1, <3>2 DEF Identity
  <2>4. NoTwins'
    <3>1. \A o \in orphans', k \in Instance, q \in Partition :
             Stage(k, q)' \in Open => Identity(o) # Identity(work'[k][q])
      BY <2>1, <2>3 DEF OrderInv, NoTwins
    <3>2. \A o1, o2 \in orphans' : Identity(o1) = Identity(o2) => o1 = o2
      BY <2>1 DEF OrderInv, NoTwins
    <3> QED
      BY <3>1, <3>2 DEF NoTwins, Identity
  <2> QED
    BY <1>5, <1>6, <2>2, <2>4 DEF OrderInv
<1> QED
  BY <1>9, <1>10

-----------------------------------------------------------------------------
(* The other steps keep the invariant. *)

LEMMA OrderInit == Init => OrderInv
  BY DEF Init, OrderInv, EntitledJobs, OneJobPerSession, OrphansDecided, NoTwins, Stage, Open

(* An event in front of its owner's handler.                               *)
LEMMA DeliveredEvent ==
    ASSUME TypeOK, NEW i \in Instance, NEW p \in Partition, Delivered(i, p)
    PROVE  /\ pos[p] \in Nat /\ Len(topic[p]) \in Nat
           /\ pos[p] + 1 <= Len(topic[p])
           /\ Stage(i, p) = "idle" /\ owner[p] = i
           /\ Undecided[p] = pos[p] + 1
<1>1. topic \in [Partition -> Seq(Message)]
  BY TopicsAssumption DEF TypeOK
<1>2. /\ pos[p] \in Nat /\ Len(topic[p]) \in Nat /\ pos[p] < Len(topic[p])
      /\ owner[p] = i /\ Stage(i, p) = "idle"
  BY <1>1 DEF TypeOK, Delivered, Pending, Stage
<1>3. "idle" \notin Decided
  BY DEF Decided
<1> QED
  BY <1>2, <1>3, UndecidedOf

LEMMA BeginShape ==
    ASSUME TypeOK, NEW i \in Instance, NEW p \in Partition, Begin(i, p)
    PROVE  \E j \in Job :
              /\ j # Idle /\ j.event = Current(p) /\ j.session = session /\ j.stage \in Open
              /\ \A k \in Instance, q \in Partition :
                    /\ work'[k][q] = IF k = i /\ q = p THEN j ELSE work[k][q]
                    /\ Stage(k, q)' = IF k = i /\ q = p THEN j.stage ELSE Stage(k, q)
<1>1. PICK s \in {"mapping", "waiting"} :
         Put(i, p, [event |-> Current(p), session |-> session, live |-> TRUE,
                    enriched |-> FALSE, stage |-> s])
  BY DEF Begin
<1> DEFINE j == [event |-> Current(p), session |-> session, live |-> TRUE,
                 enriched |-> FALSE, stage |-> s]
<1>a. Current(p) \in Event /\ session \in Nat
  BY CurrentEvent DEF TypeOK
<1>b. j \in Job /\ j.event = Current(p) /\ j.session = session /\ j.stage = s
  BY <1>a DEF Job
<1> HIDE DEF j
<1>2. /\ j \in Job /\ j.event = Current(p) /\ j.session = session /\ j.stage \in Open
      /\ j # Idle
  BY <1>b, IdleAssumption DEF Open
<1>3. \A k \in Instance, q \in Partition :
         work'[k][q] = IF k = i /\ q = p THEN j ELSE work[k][q]
  BY <1>1, <1>2, PutWork DEF j
<1>4. \A k \in Instance, q \in Partition :
         Stage(k, q)' = IF k = i /\ q = p THEN j.stage ELSE Stage(k, q)
  BY <1>2, <1>3 DEF Stage
<1> QED
  BY <1>2, <1>3, <1>4

LEMMA BeginUndecided ==
    ASSUME IInv, NEW i \in Instance, NEW p \in Partition, Begin(i, p)
    PROVE  Undecided' = Undecided
<1>1. TypeOK /\ Delivered(i, p) /\ owner' = owner /\ pos' = pos
  BY DEF IInv, Begin, groupVars
<1>2. PICK j \in Job :
         /\ j.stage \in Open
         /\ \A k \in Instance, q \in Partition :
               Stage(k, q)' = IF k = i /\ q = p THEN j.stage ELSE Stage(k, q)
  BY <1>1, BeginShape
<1>3. Open \cap Decided = {} /\ "idle" \notin Decided
  BY DEF Open, Decided
<1>4. Stage(i, p) = "idle" /\ owner[p] = i
  BY <1>1, DeliveredEvent
<1>5. \A q \in Partition : Undecided'[q] = Undecided[q]
  BY <1>1, <1>2, <1>3, <1>4, UndecidedOf, UndecidedNext
<1> QED
  BY <1>5, SameUndecided

LEMMA BeginOrder ==
    ASSUME IInv, OrderInv, NEW i \in Instance, NEW p \in Partition, Begin(i, p)
    PROVE  OrderInv'
<1>1. /\ TypeOK /\ Delivered(i, p) /\ work[i][p] = Idle
      /\ topic' = topic /\ owner' = owner /\ session' = session /\ orphans' = orphans
      /\ Eligible(Msg(Current(p)))
  BY DEF IInv, Begin, Delivered, groupVars
<1>2. PICK j \in Job :
         /\ j # Idle /\ j.event = Current(p) /\ j.session = session /\ j.stage \in Open
         /\ \A k \in Instance, q \in Partition :
               /\ work'[k][q] = IF k = i /\ q = p THEN j ELSE work[k][q]
               /\ Stage(k, q)' = IF k = i /\ q = p THEN j.stage ELSE Stage(k, q)
  BY <1>1, BeginShape
<1>3. /\ owner[p] = i /\ Undecided[p] = pos[p] + 1 /\ pos[p] \in Nat
      /\ pos[p] + 1 <= Len(topic[p])
      /\ Current(p).part = p /\ Current(p).off = pos[p] + 1
  BY <1>1, DeliveredEvent, CurrentEvent
<1>4. EntitledJobs'
  <2> SUFFICES ASSUME NEW k \in Instance, NEW q \in Partition, work'[k][q] # Idle
               PROVE  /\ work'[k][q].event.part = q
                      /\ work'[k][q].event.off <= Len(topic[q])
                      /\ Eligible(Msg(work'[k][q].event))
    BY <1>1 DEF EntitledJobs, Msg
  <2>1. CASE k = i /\ q = p
    BY <1>1, <1>2, <1>3, <2>1
  <2>2. CASE ~(k = i /\ q = p)
    BY <1>2, <2>2 DEF OrderInv, EntitledJobs
  <2> QED
    BY <2>1, <2>2
<1>5. \A k \in Instance : k # i /\ work[k][p] # Idle => work[k][p].session # session
  BY <1>3 DEF IInv, OwnersWorkOnTheirSession
<1>6. OneJobPerSession'
  <2> SUFFICES ASSUME NEW k \in Instance, NEW n \in Instance, NEW q \in Partition,
                      work'[k][q] # Idle, work'[n][q] # Idle,
                      work'[k][q].session = work'[n][q].session
               PROVE  k = n
    BY DEF OneJobPerSession
  <2> QED
    BY <1>2, <1>5 DEF OrderInv, OneJobPerSession
<1>7. OrphansDecided'
  <2>1. Undecided' = Undecided
    BY BeginUndecided
  <2> QED
    BY <1>1, <2>1 DEF OrderInv, OrphansDecided, Msg
<1>8. NoTwins'
  <2>1. ASSUME NEW o \in orphans PROVE Identity(o) # Identity(j)
    <3> SUFFICES ASSUME o.event = Current(p), o.session = session PROVE FALSE
      BY <1>2 DEF Identity
    <3>1. o.event.off < Undecided[p]
      BY <1>1, <1>3, NobodyAssumption DEF OrderInv, OrphansDecided
    <3> QED
      BY <1>3, <3>1
  <2>2. \A o \in orphans', k \in Instance, q \in Partition :
           Stage(k, q)' \in Open => Identity(o) # Identity(work'[k][q])
    BY <1>1, <1>2, <2>1 DEF OrderInv, NoTwins
  <2>3. \A o1, o2 \in orphans' : Identity(o1) = Identity(o2) => o1 = o2
    BY <1>1 DEF OrderInv, NoTwins
  <2> QED
    BY <2>2, <2>3 DEF NoTwins, Identity
<1> QED
  BY <1>4, <1>6, <1>7, <1>8 DEF OrderInv

LEMMA PassOverUndecided ==
    ASSUME IInv, NEW i \in Instance, NEW p \in Partition, PassOver(i, p)
    PROVE  /\ Undecided[p] = pos[p] + 1
           /\ Undecided' = [Undecided EXCEPT ![p] = pos[p] + 2]
<1>1. /\ TypeOK /\ Delivered(i, p) /\ owner' = owner /\ work' = work
      /\ pos \in [Partition -> Nat]
  BY DEF IInv, PassOver, groupVars, TypeOK
<1>2. owner[p] = i /\ Stage(i, p) = "idle" /\ Undecided[p] = pos[p] + 1
  BY <1>1, DeliveredEvent
<1>3. pos' = [pos EXCEPT ![p] = @ + 1]
  BY <1>2 DEF PassOver, Mark, Stale
<1>4. \A k \in Instance, q \in Partition : Stage(k, q)' = Stage(k, q)
  BY <1>1 DEF Stage
<1>5. Undecided'[p] = pos[p] + 2
  <2>1. "idle" \notin Decided
    BY DEF Decided
  <2>2. Undecided'[p] = pos'[p] + 1
    BY <1>1, <1>2, <1>4, <2>1, UndecidedNext
  <2>3. pos'[p] = pos[p] + 1 /\ pos[p] \in Nat
    BY <1>1, <1>3
  <2> QED
    BY <2>2, <2>3
<1>6. \A q \in Partition : q # p => Undecided'[q] = Undecided[q]
  <2>1. \A q \in Partition : q # p => pos'[q] = pos[q]
    BY <1>1, <1>3
  <2> QED
    BY <1>1, <1>4, <2>1, UndecidedOf, UndecidedNext
<1> QED
  BY <1>2, <1>5, <1>6, MovedUndecided

LEMMA PassOverOrder ==
    ASSUME IInv, OrderInv, NEW i \in Instance, NEW p \in Partition, PassOver(i, p)
    PROVE  OrderInv'
<1>1. /\ TypeOK /\ pos \in [Partition -> Nat]
      /\ topic' = topic /\ owner' = owner /\ session' = session /\ orphans' = orphans
      /\ work' = work
  BY DEF IInv, PassOver, Delivered, groupVars, TypeOK
<1>2. EntitledJobs' /\ OneJobPerSession' /\ NoTwins'
  BY <1>1 DEF OrderInv, EntitledJobs, OneJobPerSession, NoTwins, Stage, Identity, Msg
<1>3. OrphansDecided'
  <2> SUFFICES ASSUME NEW o \in orphans, o.session = session, owner[o.event.part] # Nobody
               PROVE  o.event.off < Undecided'[o.event.part]
    BY <1>1 DEF OrderInv, OrphansDecided, Msg
  <2>1. o.event.part \in Partition /\ o.event.off \in Nat
    BY <1>1 DEF TypeOK, Orphan, Event
  <2>2. o.event.off < Undecided[o.event.part]
    BY DEF OrderInv, OrphansDecided
  <2>3. /\ Undecided[p] = pos[p] + 1 /\ pos[p] \in Nat
        /\ Undecided'[p] = pos[p] + 2
        /\ \A q \in Partition : q # p => Undecided'[q] = Undecided[q]
    BY <1>1, PassOverUndecided DEF Undecided
  <2> QED
    BY <2>1, <2>2, <2>3
<1> QED
  BY <1>2, <1>3 DEF OrderInv

(* Orphans that land or are lost, commits, instances that come.            *)
LEMMA OutsideUndecided ==
    ASSUME UNCHANGED <<owner, pos, work>> PROVE Undecided' = Undecided
  BY DEF Undecided, Stage

LEMMA OutsideOrder ==
    ASSUME IInv, OrderInv,
           \/ \E o \in orphans : OrphanLands(o) \/ OrphanIsLost(o)
           \/ \E p \in Partition : Commit(p)
           \/ \E i \in Instance : Connect(i)
           \/ UNCHANGED vars
    PROVE  OrderInv'
<1>1. /\ UNCHANGED <<topic, owner, pos, session, work>>
      /\ orphans' \subseteq orphans
  BY DEF OrphanLands, OrphanIsLost, Commit, Connect, groupVars, vars
<1>2. Undecided' = Undecided
  BY <1>1, OutsideUndecided
<1>3. EntitledJobs' /\ OneJobPerSession'
  BY <1>1 DEF OrderInv, EntitledJobs, OneJobPerSession, Msg
<1>4. OrphansDecided'
  BY <1>1, <1>2 DEF OrderInv, OrphansDecided, Msg
<1>5. NoTwins'
  BY <1>1 DEF OrderInv, NoTwins, Stage, Identity
<1> QED
  BY <1>3, <1>4, <1>5 DEF OrderInv

LEMMA RebalanceOrder ==
    ASSUME IInv, OrderInv, Rebalance PROVE OrderInv'
<1>1. /\ TypeOK /\ session' = session + 1 /\ session \in Nat
      /\ UNCHANGED <<topic, work, orphans>>
  BY DEF IInv, Rebalance, TypeOK
<1>2. EntitledJobs' /\ OneJobPerSession' /\ NoTwins'
  BY <1>1 DEF OrderInv, EntitledJobs, OneJobPerSession, NoTwins, Stage, Identity, Msg
<1>3. OrphansDecided'
  <2> SUFFICES ASSUME NEW o \in orphans
               PROVE  Eligible(Msg(o.event)) /\ o.session <= session' /\ o.session # session'
    BY <1>1 DEF OrphansDecided, Msg
  <2>1. o.session \in Nat /\ o.session <= session /\ Eligible(Msg(o.event))
    BY <1>1 DEF OrderInv, OrphansDecided, TypeOK, Orphan
  <2> QED
    BY <1>1, <2>1
<1> QED
  BY <1>2, <1>3 DEF OrderInv

(* What a crash leaves of the instance's jobs.                             *)
LEMMA CrashShape ==
    ASSUME TypeOK, NEW i \in Instance, Crash(i)
    PROVE  /\ UNCHANGED <<topic, index, committed, session>>
           /\ \A k \in Instance, q \in Partition :
                 /\ work'[k][q] = IF k = i THEN Idle ELSE work[k][q]
                 /\ Stage(k, q)' = IF k = i THEN "idle" ELSE Stage(k, q)
           /\ \A q \in Partition :
                 /\ owner'[q] = IF owner[q] = i THEN Nobody ELSE owner[q]
                 /\ pos'[q] = IF owner[q] = i THEN committed[q] ELSE pos[q]
           /\ orphans' = orphans \cup Leavings(i, Partition)
<1>1. \A k \in Instance, q \in Partition : work'[k][q] = IF k = i THEN Idle ELSE work[k][q]
  BY DEF Crash, TypeOK
<1>2. \A k \in Instance, q \in Partition :
         Stage(k, q)' = IF k = i THEN "idle" ELSE Stage(k, q)
  BY <1>1 DEF Stage
<1> QED
  BY <1>1, <1>2 DEF Crash

LEMMA LeavingOf ==
    ASSUME NEW i \in Instance, NEW o \in Leavings(i, Partition)
    PROVE  \E q \in Partition :
              /\ Stage(i, q) = "sent" /\ work[i][q] # Idle
              /\ o = [event |-> work[i][q].event, session |-> work[i][q].session,
                      enriched |-> work[i][q].enriched]
              /\ o.event = work[i][q].event /\ o.session = work[i][q].session
<1>1. PICK q \in Partition :
         /\ Stage(i, q) = "sent"
         /\ o = [event |-> work[i][q].event, session |-> work[i][q].session,
                 enriched |-> work[i][q].enriched]
  BY DEF Leavings
<1>2. work[i][q] # Idle
  BY <1>1 DEF Stage
<1> QED
  BY <1>1, <1>2

LEMMA CrashUndecided ==
    ASSUME IInv, NEW i \in Instance, Crash(i)
    PROVE  \A q \in Partition :
              Undecided'[q] = IF owner[q] = i THEN committed[q] + 1 ELSE Undecided[q]
<1> SUFFICES ASSUME NEW q \in Partition
             PROVE  Undecided'[q] = IF owner[q] = i THEN committed[q] + 1 ELSE Undecided[q]
  OBVIOUS
<1>1. TypeOK
  BY DEF IInv
<1>2. /\ \A k \in Instance : Stage(k, q)' = IF k = i THEN "idle" ELSE Stage(k, q)
      /\ owner'[q] = IF owner[q] = i THEN Nobody ELSE owner[q]
      /\ pos'[q] = IF owner[q] = i THEN committed[q] ELSE pos[q]
  BY <1>1, CrashShape
<1>3. CASE owner[q] = i
  <2>1. owner'[q] \notin Instance /\ pos'[q] = committed[q]
    BY <1>2, <1>3, NobodyAssumption
  <2>2. Undecided'[q] = pos'[q] + 1
    BY <2>1, UndecidedNext
  <2> QED
    BY <1>3, <2>1, <2>2
<1>4. CASE owner[q] # i
  <2>1. owner'[q] = owner[q] /\ pos'[q] = pos[q]
    BY <1>2, <1>4
  <2>2. owner[q] \in Instance => Stage(owner[q], q)' = Stage(owner[q], q)
    BY <1>2, <1>4
  <2> QED
    BY <1>4, <2>1, <2>2, UndecidedOf, UndecidedNext
<1> QED
  BY <1>3, <1>4

LEMMA CrashOrder ==
    ASSUME IInv, OrderInv, NEW i \in Instance, Crash(i) PROVE OrderInv'
<1>1. TypeOK
  BY DEF IInv
<1>2. /\ topic' = topic /\ session' = session
      /\ \A k \in Instance, q \in Partition :
            /\ work'[k][q] = IF k = i THEN Idle ELSE work[k][q]
            /\ Stage(k, q)' = IF k = i THEN "idle" ELSE Stage(k, q)
      /\ \A q \in Partition : owner'[q] = IF owner[q] = i THEN Nobody ELSE owner[q]
      /\ orphans' = orphans \cup Leavings(i, Partition)
  BY <1>1, CrashShape
<1>3. "idle" \notin Open /\ "sent" \in Open
  BY DEF Open
<1>4. EntitledJobs'
  <2> SUFFICES ASSUME NEW k \in Instance, NEW q \in Partition, work'[k][q] # Idle
               PROVE  /\ work'[k][q].event.part = q
                      /\ work'[k][q].event.off <= Len(topic[q])
                      /\ Eligible(Msg(work'[k][q].event))
    BY <1>2 DEF EntitledJobs, Msg
  <2> QED
    BY <1>2 DEF OrderInv, EntitledJobs
<1>5. OneJobPerSession'
  BY <1>2 DEF OrderInv, OneJobPerSession
<1>6. OrphansDecided'
  <2> SUFFICES ASSUME NEW o \in orphans'
               PROVE  /\ Eligible(Msg(o.event))
                      /\ o.session <= session
                      /\ o.session = session /\ owner'[o.event.part] # Nobody =>
                            o.event.off < Undecided'[o.event.part]
    BY <1>2 DEF OrphansDecided, Msg
  <2>1. CASE o \in orphans
    <3>1. o.event.part \in Partition
      BY <1>1, <2>1 DEF TypeOK, Orphan, Event
    <3>2. owner'[o.event.part] # Nobody =>
             /\ owner[o.event.part] # Nobody
             /\ Undecided'[o.event.part] = Undecided[o.event.part]
      BY <1>2, <3>1, CrashUndecided
    <3> QED
      BY <2>1, <3>2 DEF OrderInv, OrphansDecided
  <2>2. CASE o \in Leavings(i, Partition)
    <3>1. PICK q \in Partition :
             /\ work[i][q] # Idle
             /\ o.event = work[i][q].event /\ o.session = work[i][q].session
      BY <2>2, LeavingOf
    <3>2. o.event.part = q /\ Eligible(Msg(o.event))
      BY <3>1 DEF OrderInv, EntitledJobs
    <3>3. o.session <= session /\ (o.session = session => owner[q] = i)
      BY <3>1 DEF IInv, OwnersWorkOnTheirSession
    <3> QED
      BY <1>2, <3>2, <3>3
  <2> QED
    BY <1>2, <2>1, <2>2
<1>7. \A o \in orphans', k \in Instance, q \in Partition :
         Stage(k, q)' \in Open => Identity(o) # Identity(work'[k][q])
  <2> SUFFICES ASSUME NEW o \in orphans', NEW k \in Instance, NEW q \in Partition,
                      Stage(k, q)' \in Open, Identity(o) = Identity(work'[k][q])
               PROVE  FALSE
    OBVIOUS
  <2>1. k # i /\ Stage(k, q) \in Open /\ work'[k][q] = work[k][q]
    BY <1>2, <1>3
  <2>2. work[k][q] # Idle
    BY <1>3, <2>1 DEF Stage
  <2>3. o \notin orphans
    BY <2>1 DEF OrderInv, NoTwins
  <2>4. PICK r \in Partition :
           /\ work[i][r] # Idle
           /\ o.event = work[i][r].event /\ o.session = work[i][r].session
    BY <1>2, <2>3, LeavingOf
  <2>5. /\ work[k][q].event = work[i][r].event
        /\ work[k][q].session = work[i][r].session
    BY <2>1, <2>4 DEF Identity
  <2>6. q = r
    BY <2>2, <2>4, <2>5 DEF OrderInv, EntitledJobs
  <2> QED
    BY <2>1, <2>2, <2>4, <2>5, <2>6 DEF OrderInv, OneJobPerSession
<1>8. \A o1, o2 \in orphans' : Identity(o1) = Identity(o2) => o1 = o2
  <2>1. ASSUME NEW o1 \in orphans, NEW o2 \in Leavings(i, Partition),
               Identity(o1) = Identity(o2)
        PROVE  FALSE
    <3>1. PICK r \in Partition :
             /\ Stage(i, r) = "sent"
             /\ o2.event = work[i][r].event /\ o2.session = work[i][r].session
      BY LeavingOf
    <3>2. Identity(o2) = Identity(work[i][r])
      BY <3>1 DEF Identity
    <3> QED
      BY <1>3, <2>1, <3>1, <3>2 DEF OrderInv, NoTwins
  <2>2. ASSUME NEW o1 \in Leavings(i, Partition), NEW o2 \in Leavings(i, Partition),
               Identity(o1) = Identity(o2)
        PROVE  o1 = o2
    <3>1. PICK q \in Partition :
             /\ work[i][q] # Idle
             /\ o1 = [event |-> work[i][q].event, session |-> work[i][q].session,
                      enriched |-> work[i][q].enriched]
             /\ o1.event = work[i][q].event
      BY LeavingOf
    <3>2. PICK r \in Partition :
             /\ work[i][r] # Idle
             /\ o2 = [event |-> work[i][r].event, session |-> work[i][r].session,
                      enriched |-> work[i][r].enriched]
             /\ o2.event = work[i][r].event
      BY LeavingOf
    <3>3. work[i][q].event = work[i][r].event
      BY <2>2, <3>1, <3>2 DEF Identity
    <3>4. q = r
      BY <3>1, <3>2, <3>3 DEF OrderInv, EntitledJobs
    <3> QED
      BY <3>1, <3>2, <3>4
  <2>3. \A o1, o2 \in orphans : Identity(o1) = Identity(o2) => o1 = o2
    BY DEF OrderInv, NoTwins
  <2> QED
    BY <1>2, <2>1, <2>2, <2>3
<1>9. NoTwins'
  BY <1>7, <1>8 DEF NoTwins, Identity
<1> QED
  BY <1>4, <1>5, <1>6, <1>9 DEF OrderInv

-----------------------------------------------------------------------------
(* The invariant. *)

LEMMA OrderStep ==
    ASSUME IInv, OrderInv, [Next]_vars PROVE OrderInv'
<1>1. TypeOK
  BY DEF IInv
<1>2. ASSUME NEW i \in Instance, NEW p \in Partition,
             \/ MapDocument(i, p) \/ DeadlinePasses(i, p) \/ SendRequest(i, p)
             \/ Finish(i, p) \/ EsRefuses(i, p) \/ ConnectionBreaks(i, p)
      PROVE  OrderInv'
  BY <1>1, <1>2, JobClasses, TurnOrder
<1>3. ASSUME NEW i \in Instance, NEW p \in Partition, EsApplies(i, p) PROVE OrderInv'
  BY <1>1, <1>3, AppliesSettles, TurnOrder
<1> QED
  BY <1>2, <1>3, BeginOrder, PassOverOrder, OutsideOrder, RebalanceOrder, CrashOrder
     DEF Next, Handle, Elasticsearch, Group

(* The names of late events are unique: however often partitions change     *)
(* hands under handlers that handleMessage (message_handler.go:69) does not *)
(* interrupt, no event of a session is under way twice.                     *)
THEOREM OrderAlways == Spec => []OrderInv
<1>1. IInv /\ OrderInv /\ [Next]_vars => OrderInv'
  BY OrderStep
<1> QED
  BY OrderInit, <1>1, Invariance, PTL DEF Spec

-----------------------------------------------------------------------------
(* The refinement. *)

LEMMA SameKnown ==
    ASSUME NEW m
    PROVE  Ordered!Known(m) = Known(m) /\ Ordered!FirstKnown(m) = FirstKnown(m)
  <1>1. Ordered!Known(m) = Known(m)
    BY Zenon DEF Known, Ordered!Known, Names, Ordered!Names, System, Ordered!System,
       ContentMetadata, Ordered!ContentMetadata
  <1>2. QED
    BY <1>1, Zenon DEF FirstKnown, Ordered!FirstKnown, Names, Ordered!Names

LEMMA SameEligible == ASSUME NEW m PROVE Ordered!Eligible(m) <=> Eligible(m)
  BY SameKnown
     DEF Eligible, IsIgnored, Skip, Route, ReadContentType, IsAllowedType,
         AllowedTypes, Untyped, NoType, ContentMetadata,
         Ordered!Eligible, Ordered!IsIgnored, Ordered!Skip, Ordered!Route,
         Ordered!ReadContentType, Ordered!IsAllowedType, Ordered!AllowedTypes,
         Ordered!Untyped, Ordered!NoType, Ordered!ContentMetadata

LEMMA SamePut ==
    ASSUME NEW e, NEW b, index' = [index EXCEPT ![Msg(e).uuid] = Effect(e, b)]
    PROVE  Ordered!Put(e, b)
  BY DEF Effect, Msg, Ordered!Put, Ordered!Outcome, Ordered!Msg

(* The event in front of an owner that has not decided it.                 *)
LEMMA NextAhead ==
    ASSUME TypeOK, NEW p \in Partition, Undecided[p] = pos[p] + 1,
           pos[p] + 1 <= Len(topic[p])
    PROVE  /\ pos[p] \in Nat
           /\ pos[p] + 2 = (pos[p] + 1) + 1
           /\ pos[p] + 1 \in Ordered!Ahead(p)
           /\ Ordered!Event(p, pos[p] + 1) = Current(p)
           /\ topic[p][pos[p] + 1] = Msg(Current(p))
<1>1. topic \in [Partition -> Seq(Message)]
  BY TopicsAssumption DEF TypeOK
<1>2. pos[p] \in Nat /\ Len(topic[p]) \in Nat
  BY <1>1 DEF TypeOK
<1> QED
  BY <1>2 DEF Ordered!Ahead, Ordered!Event, Current, Msg

LEMMA OwnersEvent ==
    ASSUME IInv, OrderInv, NEW i \in Instance, NEW p \in Partition,
           work[i][p] # Idle, owner[p] = i
    PROVE  /\ work[i][p].event = Current(p)
           /\ pos[p] + 1 <= Len(topic[p])
           /\ Eligible(Msg(Current(p)))
<1>1. work[i][p].event = Current(p)
  BY DEF IInv, OwnersWorkOnTheirSession
<1>2. Current(p).off = pos[p] + 1
  BY DEF Current
<1> QED
  BY <1>1, <1>2 DEF OrderInv, EntitledJobs

LEMMA PassedOver ==
    ASSUME TypeOK, NEW p \in Partition, Undecided[p] = pos[p] + 1,
           pos[p] + 1 <= Len(topic[p]),
           Undecided' = [Undecided EXCEPT ![p] = pos[p] + 2], Late' = Late,
           UNCHANGED <<topic, index, committed>>
    PROVE  Ordered!Next
<1>1. pos[p] + 1 \in Ordered!Ahead(p) /\ pos[p] + 2 = (pos[p] + 1) + 1
  BY NextAhead
<1>2. Ordered!PassOver(p, pos[p] + 1)
  BY <1>1 DEF Ordered!PassOver
<1> QED
  BY <1>1, <1>2 DEF Ordered!Next

LEMMA TurnRefines ==
    ASSUME IInv, OrderInv, NEW i \in Instance, NEW p \in Partition, NEW j,
           \/ Quiet(i, p, j) \/ (Settled(i, p, j) /\ UNCHANGED index)
           \/ Left(i, p, j) \/ Ended(i, p, j)
    PROVE  [Ordered!Next]_(Ordered!vars)
<1>1. /\ TypeOK /\ work[i][p] # Idle
      /\ UNCHANGED <<topic, committed, index>>
  BY DEF IInv, Quiet, Settled, Left, Ended, Turns
<1>2. CASE Quiet(i, p, j) \/ Ended(i, p, j) \/ (Left(i, p, j) /\ owner[p] # i)
  <2>1. Undecided' = Undecided /\ Late' = Late
    BY <1>2, TurnUndecided, TurnLate
  <2> QED
    BY <1>1, <2>1 DEF Ordered!vars
<1>3. CASE Settled(i, p, j) /\ owner[p] # i
  <2>1. Undecided' = Undecided /\ Late' \subseteq Late
    BY <1>3, TurnUndecided, TurnLate
  <2>2. Ordered!Forget
    BY <1>1, <2>1 DEF Ordered!Forget
  <2> QED
    BY <2>2 DEF Ordered!Next
<1>4. CASE (Settled(i, p, j) \/ Left(i, p, j)) /\ owner[p] = i
  <2>1. /\ Undecided[p] = pos[p] + 1
        /\ Undecided' = [Undecided EXCEPT ![p] = pos[p] + 2]
    BY <1>4, TurnUndecided
  <2>2. /\ work[i][p].event = Current(p) /\ pos[p] + 1 <= Len(topic[p])
        /\ Eligible(Msg(Current(p)))
    BY <1>1, <1>4, OwnersEvent
  <2>3. CASE Settled(i, p, j)
    <3>1. Late' = Late
      BY <1>4, <2>3, TurnLate
    <3> QED
      BY <1>1, <2>1, <2>2, <3>1, PassedOver
  <2>4. CASE Left(i, p, j)
    <3>1. Late' = Late \cup {Identity(work[i][p])}
      BY <2>4, TurnLate
    <3>2. Identity(work[i][p]).event = Current(p)
      BY <2>2 DEF Identity
    <3>3. /\ pos[p] + 1 \in Ordered!Ahead(p) /\ pos[p] + 2 = (pos[p] + 1) + 1
          /\ Ordered!Event(p, pos[p] + 1) = Current(p)
          /\ topic[p][pos[p] + 1] = Msg(Current(p))
      BY <1>1, <2>1, <2>2, NextAhead
    <3>4. Ordered!Eligible(topic[p][pos[p] + 1])
      BY <2>2, <3>3, SameEligible
    <3>5. Undecided' = [Undecided EXCEPT ![p] = (pos[p] + 1) + 1]
      BY <2>1, <3>3, Zenon
    <3>6. Late \subseteq Late' /\ \A r \in Late' \ Late : r.event = Ordered!Event(p, pos[p] + 1)
      BY <3>1, <3>2, <3>3
    <3>7. Ordered!Abandon(p, pos[p] + 1)
      BY <1>1, <3>4, <3>5, <3>6 DEF Ordered!Abandon
    <3> QED
      BY <3>3, <3>7 DEF Ordered!Next
  <2> QED
    BY <1>4, <2>3, <2>4
<1> QED
  BY <1>2, <1>3, <1>4

LEMMA AppliesRefines ==
    ASSUME IInv, OrderInv, NEW i \in Instance, NEW p \in Partition, EsApplies(i, p)
    PROVE  Ordered!Next
<1>1. /\ TypeOK /\ work[i][p] # Idle
      /\ UNCHANGED <<topic, committed>>
  BY DEF IInv, EsApplies, Stage, groupVars
<1>2. PICK j : Settled(i, p, j)
  BY <1>1, AppliesSettles
<1>3. work[i][p].enriched \in BOOLEAN
  BY <1>1, WorkJob
<1>4. Ordered!Put(work[i][p].event, work[i][p].enriched)
  BY SamePut DEF EsApplies
<1>5. Eligible(Msg(work[i][p].event))
  BY <1>1 DEF OrderInv, EntitledJobs
<1>6. CASE owner[p] = i
  <2>1. /\ Undecided[p] = pos[p] + 1
        /\ Undecided' = [Undecided EXCEPT ![p] = pos[p] + 2]
        /\ Late' = Late
    BY <1>2, <1>6, TurnUndecided, TurnLate
  <2>2. work[i][p].event = Current(p) /\ pos[p] + 1 <= Len(topic[p])
    BY <1>1, <1>6, OwnersEvent
  <2>3. /\ pos[p] + 1 \in Ordered!Ahead(p) /\ pos[p] + 2 = (pos[p] + 1) + 1
        /\ Ordered!Event(p, pos[p] + 1) = Current(p)
        /\ topic[p][pos[p] + 1] = Msg(Current(p))
    BY <1>1, <2>1, <2>2, NextAhead
  <2>4. Ordered!Eligible(topic[p][pos[p] + 1])
    BY <1>5, <2>2, <2>3, SameEligible
  <2>5. Undecided' = [Undecided EXCEPT ![p] = (pos[p] + 1) + 1]
    BY <2>1, <2>3, Zenon
  <2>6. \E b \in BOOLEAN : Ordered!Put(Ordered!Event(p, pos[p] + 1), b)
    BY <1>3, <1>4, <2>2, <2>3
  <2>7. Ordered!Apply(p, pos[p] + 1)
    BY <1>1, <2>1, <2>4, <2>5, <2>6 DEF Ordered!Apply
  <2> QED
    BY <2>3, <2>7 DEF Ordered!Next
<1>7. CASE owner[p] # i
  <2> DEFINE r == Identity(work[i][p])
  <2>1. r.event = work[i][p].event
    BY DEF Identity
  <2> HIDE DEF r
  <2>2. Undecided' = Undecided /\ r \in Late /\ Late' = Late \ {r}
    BY <1>2, <1>7, TurnUndecided, TurnLate DEF r
  <2>3. Ordered!Eligible(Ordered!Msg(r.event))
    BY <1>5, <2>1, SameEligible DEF Msg, Ordered!Msg
  <2>4. \E b \in BOOLEAN : Ordered!Put(r.event, b)
    BY <1>3, <1>4, <2>1
  <2>5. Ordered!ApplyLate(r)
    BY <1>1, <2>2, <2>3, <2>4 DEF Ordered!ApplyLate
  <2> QED
    BY <2>2, <2>5 DEF Ordered!Next
<1> QED
  BY <1>6, <1>7

(* Late is a function of the orphans and of the jobs of lost partitions.   *)
LEMMA BeginLate ==
    ASSUME TypeOK, NEW i \in Instance, NEW p \in Partition, Begin(i, p)
    PROVE  Late' = Late
<1>1. /\ owner[p] = i /\ owner' = owner /\ orphans' = orphans
  BY DEF Begin, Delivered, groupVars
<1>2. \A k \in Instance, q \in Partition :
         k # i \/ q # p => work'[k][q] = work[k][q] /\ Stage(k, q)' = Stage(k, q)
  BY BeginShape
<1>3. \A x : x \in Late' <=> x \in Late
  BY <1>1, <1>2, LateOf, LateNext
<1> QED
  BY <1>3

LEMMA SameLate ==
    ASSUME UNCHANGED <<owner, work, orphans>> PROVE Late' = Late
<1>1. \A k \in Instance, q \in Partition :
         work'[k][q] = work[k][q] /\ Stage(k, q)' = Stage(k, q)
  BY DEF Stage
<1>2. \A x : x \in Late' <=> x \in Late
  BY <1>1, LateOf, LateNext
<1> QED
  BY <1>2

LEMMA PassOverRefines ==
    ASSUME IInv, NEW i \in Instance, NEW p \in Partition, PassOver(i, p)
    PROVE  Ordered!Next
<1>1. /\ TypeOK /\ Delivered(i, p)
      /\ UNCHANGED <<topic, index, committed, owner, work, orphans>>
  BY DEF IInv, PassOver, groupVars
<1>2. Undecided[p] = pos[p] + 1 /\ Undecided' = [Undecided EXCEPT ![p] = pos[p] + 2]
  BY PassOverUndecided
<1>3. pos[p] + 1 <= Len(topic[p])
  BY <1>1, DeliveredEvent
<1> QED
  BY <1>1, <1>2, <1>3, SameLate, PassedOver

LEMMA OrphanLate ==
    ASSUME OrderInv, NEW o \in orphans, orphans' = orphans \ {o},
           UNCHANGED <<owner, work>>
    PROVE  Identity(o) \in Late /\ Late' = Late \ {Identity(o)}
<1>1. \A k \in Instance, q \in Partition :
         /\ work'[k][q] = work[k][q] /\ Stage(k, q)' = Stage(k, q)
         /\ Stage(k, q) \in Open => Identity(o) # Identity(work[k][q])
  BY DEF OrderInv, NoTwins, Stage
<1>2. \A r \in orphans : r # o => Identity(r) # Identity(o)
  BY DEF OrderInv, NoTwins
<1>3. \A x : x \in Late' <=> x \in Late /\ x # Identity(o)
  BY <1>1, <1>2, LateOf, LateNext
<1> QED
  BY <1>3, LateOf

LEMMA OrphanRefines ==
    ASSUME IInv, OrderInv, NEW o \in orphans, OrphanLands(o) \/ OrphanIsLost(o)
    PROVE  Ordered!Next
<1>1. /\ TypeOK /\ orphans' = orphans \ {o}
      /\ UNCHANGED <<topic, committed, owner, pos, work>>
  BY DEF IInv, OrphanLands, OrphanIsLost, groupVars
<1>2. Undecided' = Undecided
  BY <1>1, OutsideUndecided
<1> DEFINE r == Identity(o)
<1>3. r.event = o.event
  BY DEF Identity
<1> HIDE DEF r
<1>4. r \in Late /\ Late' = Late \ {r}
  BY <1>1, OrphanLate DEF r
<1>5. CASE OrphanIsLost(o)
  <2>1. Ordered!Forget
    BY <1>1, <1>2, <1>4, <1>5 DEF OrphanIsLost, Ordered!Forget
  <2> QED
    BY <2>1 DEF Ordered!Next
<1>6. CASE OrphanLands(o)
  <2>1. Ordered!Eligible(Ordered!Msg(r.event))
    BY <1>3, SameEligible DEF OrderInv, OrphansDecided, Msg, Ordered!Msg
  <2>2. o.enriched \in BOOLEAN
    BY <1>1 DEF TypeOK, Orphan
  <2>3. Ordered!Put(r.event, o.enriched)
    BY <1>3, <1>6, SamePut DEF OrphanLands
  <2>4. Ordered!ApplyLate(r)
    BY <1>1, <1>2, <1>4, <2>1, <2>2, <2>3 DEF Ordered!ApplyLate
  <2> QED
    BY <1>4, <2>4 DEF Ordered!Next
<1> QED
  BY <1>5, <1>6

LEMMA CommitRefines ==
    ASSUME TypeOK, NEW p \in Partition, Commit(p) PROVE Ordered!Next
<1>1. UNCHANGED <<topic, index, owner, pos, work, orphans>>
  BY DEF Commit, groupVars
<1>2. Undecided' = Undecided /\ Late' = Late
  BY <1>1, OutsideUndecided, SameLate
<1>3. committed'[p] = pos[p] /\ committed' = [committed EXCEPT ![p] = pos[p]]
  BY DEF Commit, TypeOK
<1>4. committed'[p] \in committed[p] .. Undecided[p] - 1
  BY <1>3, UndecidedOf DEF Commit, TypeOK
<1>5. Ordered!Commit(p)
  BY <1>1, <1>2, <1>3, <1>4 DEF Ordered!Commit
<1> QED
  BY <1>5 DEF Ordered!Next

(* Late events that a change of owner adds are those of the jobs it leaves  *)
(* behind: the events under way.                                            *)
LEMMA UnderWay ==
    ASSUME IInv, OrderInv, NEW i \in Instance, NEW p \in Partition,
           owner[p] = i, Stage(i, p) \in Open
    PROVE  Identity(work[i][p]).event.off \in Ordered!Ahead(Identity(work[i][p]).event.part)
<1>1. TypeOK /\ Open \cap Decided = {} /\ "idle" \notin Open
  BY DEF IInv, Open, Decided
<1>2. work[i][p] # Idle
  BY <1>1 DEF Stage
<1>3. /\ work[i][p].event = Current(p) /\ pos[p] + 1 <= Len(topic[p])
      /\ Undecided[p] = pos[p] + 1
  BY <1>1, <1>2, OwnersEvent, UndecidedOf
<1>4. pos[p] + 1 \in Ordered!Ahead(p)
  BY <1>1, <1>3, NextAhead
<1> QED
  BY <1>3, <1>4 DEF Identity, Current

LEMMA RebalanceRefines ==
    ASSUME IInv, OrderInv, Rebalance PROVE Ordered!Next
<1>1. /\ TypeOK /\ owner' \in [Partition -> Ready] /\ pos' = committed
      /\ UNCHANGED <<topic, index, committed, work, orphans>>
  BY DEF IInv, Rebalance
<1>2. \A k \in Instance, q \in Partition :
         work'[k][q] = work[k][q] /\ Stage(k, q)' = Stage(k, q)
  BY <1>1 DEF Stage
<1>3. "idle" \notin Decided /\ "idle" \notin Open
  BY DEF Open, Decided
<1>4. \A q \in Partition : owner'[q] \in Ready /\ Stage(owner'[q], q) = "idle"
  BY <1>1 DEF Ready, Stage
<1>5. \A q \in Partition : Undecided'[q] = committed[q] + 1
  <2> SUFFICES ASSUME NEW q \in Partition PROVE Undecided'[q] = committed[q] + 1
    OBVIOUS
  <2>1. owner'[q] \in Instance
    BY <1>1, <1>4 DEF TypeOK, Ready
  <2>2. ~ \E k \in Instance : owner'[q] = k /\ Stage(k, q)' \in Decided
    BY <1>2, <1>3, <1>4
  <2>3. Undecided'[q] = pos'[q] + (IF \E k \in Instance : owner'[q] = k /\ Stage(k, q)' \in Decided
                                   THEN 2 ELSE 1)
    BY DEF Undecided, Decided
  <2> QED
    BY <1>1, <2>2, <2>3
<1>6. Undecided' = [p \in Partition |-> IF p \in Partition THEN committed[p] + 1 ELSE Undecided[p]]
  <2>1. Undecided' = [q \in Partition |-> Undecided'[q]]
    BY DEF Undecided
  <2> QED
    BY <1>5, <2>1
<1>7. ASSUME NEW r \in Late' \ Late
      PROVE  r.event.off \in Ordered!Ahead(r.event.part)
  <2>1. PICK k \in Instance, q \in Partition :
           Stage(k, q) \in Open /\ r = Identity(work[k][q])
    BY <1>1, <1>2, <1>7, LateOf, LateNext
  <2>2. owner[q] = k
    BY <1>7, <2>1, LateOf
  <2> QED
    BY <2>1, <2>2, UnderWay
<1>8. Ordered!Restart(Partition)
  BY <1>1, <1>6, <1>7 DEF Ordered!Restart
<1> QED
  BY <1>8 DEF Ordered!Next

LEMMA CrashRefines ==
    ASSUME IInv, OrderInv, NEW i \in Instance, Crash(i) PROVE Ordered!Next
<1> DEFINE Lost == {p \in Partition : owner[p] = i}
<1>1. /\ TypeOK /\ UNCHANGED <<topic, index, committed>>
      /\ \A k \in Instance, q \in Partition :
            /\ work'[k][q] = IF k = i THEN Idle ELSE work[k][q]
            /\ Stage(k, q)' = IF k = i THEN "idle" ELSE Stage(k, q)
      /\ \A q \in Partition : owner'[q] = IF owner[q] = i THEN Nobody ELSE owner[q]
      /\ orphans' = orphans \cup Leavings(i, Partition)
  BY CrashShape DEF IInv
<1>2. "idle" \notin Open /\ "sent" \in Open
  BY DEF Open
<1>3. Undecided' = [p \in Partition |-> IF p \in Lost THEN committed[p] + 1 ELSE Undecided[p]]
  <2>1. Undecided' = [q \in Partition |-> Undecided'[q]]
    BY DEF Undecided
  <2> QED
    BY <2>1, CrashUndecided
<1>4. ASSUME NEW r \in Late' \ Late
      PROVE  r.event.off \in Ordered!Ahead(r.event.part)
  <2>1. CASE \E o \in orphans' : r = Identity(o)
    <3>1. PICK o \in orphans' : r = Identity(o)
      BY <2>1
    <3>2. o \in Leavings(i, Partition)
      BY <1>1, <1>4, <3>1, LateOf
    <3>3. PICK q \in Partition :
             /\ Stage(i, q) \in Open
             /\ o.event = work[i][q].event /\ o.session = work[i][q].session
      BY <1>2, <3>2, LeavingOf
    <3>4. r = Identity(work[i][q])
      BY <3>1, <3>3 DEF Identity
    <3>5. owner[q] = i
      BY <1>4, <3>3, <3>4, LateOf
    <3> QED
      BY <3>3, <3>4, <3>5, UnderWay
  <2>2. CASE \E k \in Instance, q \in Partition :
                Stage(k, q)' \in Open /\ owner'[q] # k /\ r = Identity(work'[k][q])
    <3>1. PICK k \in Instance, q \in Partition :
             Stage(k, q)' \in Open /\ owner'[q] # k /\ r = Identity(work'[k][q])
      BY <2>2
    <3>2. k # i /\ Stage(k, q) \in Open /\ work'[k][q] = work[k][q]
      BY <1>1, <1>2, <3>1
    <3>3. owner[q] # k
      BY <1>1, <3>1, <3>2
    <3> QED
      BY <1>4, <3>1, <3>2, <3>3, LateOf
  <2> QED
    BY <1>4, <2>1, <2>2, LateNext
<1>5. Lost \in SUBSET Partition
  OBVIOUS
<1> HIDE DEF Lost
<1>6. Ordered!Restart(Lost)
  BY <1>1, <1>3, <1>4 DEF Ordered!Restart
<1> QED
  BY <1>5, <1>6 DEF Ordered!Next

LEMMA StepRefines ==
    ASSUME IInv, OrderInv, [Next]_vars
    PROVE  [Ordered!Next]_(Ordered!vars)
<1>1. TypeOK
  BY DEF IInv
<1>2. ASSUME NEW i \in Instance, NEW p \in Partition,
             \/ MapDocument(i, p) \/ DeadlinePasses(i, p) \/ SendRequest(i, p)
             \/ Finish(i, p) \/ EsRefuses(i, p) \/ ConnectionBreaks(i, p)
      PROVE  [Ordered!Next]_(Ordered!vars)
  BY <1>1, <1>2, JobClasses, TurnRefines
<1>3. ASSUME NEW i \in Instance, NEW p \in Partition, Begin(i, p)
      PROVE  [Ordered!Next]_(Ordered!vars)
  <2>1. Undecided' = Undecided /\ Late' = Late /\ UNCHANGED <<topic, index, committed>>
    BY <1>1, <1>3, BeginUndecided, BeginLate DEF Begin, groupVars
  <2> QED
    BY <2>1 DEF Ordered!vars
<1>4. CASE UNCHANGED vars \/ \E i \in Instance : Connect(i)
  <2>1. UNCHANGED <<topic, index, committed, owner, pos, work, orphans>>
    BY <1>4 DEF Connect, vars
  <2>2. Undecided' = Undecided /\ Late' = Late
    BY <2>1, OutsideUndecided, SameLate
  <2> QED
    BY <2>1, <2>2 DEF Ordered!vars
<1> QED
  BY <1>1, <1>2, <1>3, <1>4, PassOverRefines, AppliesRefines, OrphanRefines,
     CommitRefines, RebalanceRefines, CrashRefines
     DEF Next, Handle, Elasticsearch, Group

LEMMA InitRefines == Init => Ordered!Init
<1> SUFFICES ASSUME Init PROVE Ordered!Init
  OBVIOUS
<1>1. \A k \in Instance, q \in Partition : Stage(k, q) = "idle"
  BY DEF Init, Stage
<1>2. Undecided = [p \in Partition |-> 1]
  BY <1>1 DEF Init, Undecided
<1>3. Late = {}
  <2>1. \A x : x \notin Late
    BY <1>1, LateOf DEF Init, Open
  <2> QED
    BY <2>1
<1> QED
  BY <1>2, <1>3 DEF Init, Ordered!Init

(* Rebalances that take partitions from handlers at work, kills, broken     *)
(* connections and expired contexts (message_handler.go:69-181,             *)
(* service.go:115-138), in any number, do not reorder what the owners of a  *)
(* partition write; what comes late, comes once.                            *)
THEOREM GroupImplementsOrderedIndex == Spec => GroupRefinesOrderedIndex
<1> QED
  BY InitRefines, StepRefines, Invariance, OrderAlways, PTL
     DEF Spec, GroupRefinesOrderedIndex, Ordered!Spec

=============================================================================
