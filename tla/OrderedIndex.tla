---------------------------- MODULE OrderedIndex ----------------------------
(***************************************************************************)
(* What the program promises about the index, without instances, handlers, *)
(* mutex, contexts or answers: the events of each partition are applied in *)
(* the order of the log and at most once between two restarts of the       *)
(* partition; a restart goes back to the committed offset and no further;  *)
(* only an event that was abandoned, or under way at a restart, can be     *)
(* applied out of order, and it is applied once.  Every event may also be  *)
(* passed over.                                                            *)
(***************************************************************************)
EXTENDS MessageRouting

CONSTANTS Partition, Topics, Absent

VARIABLES
    topic,       \* the log of every partition
    index,       \* what each document is
    next,        \* the first event of each partition not dealt with
    late,        \* abandoned events that may still be applied
    committed    \* the offset a restart goes back to

vars == <<topic, index, next, late, committed>>

Event(p, o) == [part |-> p, off |-> o]
Msg(e)      == topic[e.part][e.off]

(* The outcome of an event does not depend on what the index holds.        *)
Outcome(e, b) == IF Msg(e).deleted THEN Absent ELSE [event |-> e, enriched |-> b]
Put(e, b)     == index' = [index EXCEPT ![Msg(e).uuid] = Outcome(e, b)]

Ahead(p) == next[p] .. Len(topic[p])

Init ==
    /\ topic \in Topics
    /\ index = [u \in Uuid |-> Absent]
    /\ next = [p \in Partition |-> 1]
    /\ late = {}
    /\ committed = [p \in Partition |-> 0]

Apply(p, o) ==
    /\ Eligible(topic[p][o])
    /\ \E b \in BOOLEAN : Put(Event(p, o), b)
    /\ next' = [next EXCEPT ![p] = o + 1]
    /\ UNCHANGED <<topic, late, committed>>

PassOver(p, o) ==
    /\ next' = [next EXCEPT ![p] = o + 1]
    /\ UNCHANGED <<topic, index, late, committed>>

Abandon(p, o) ==
    /\ Eligible(topic[p][o])
    /\ late \subseteq late'
    /\ \A r \in late' \ late : r.event = Event(p, o)
    /\ next' = [next EXCEPT ![p] = o + 1]
    /\ UNCHANGED <<topic, index, committed>>

ApplyLate(r) ==
    /\ Eligible(Msg(r.event))
    /\ \E b \in BOOLEAN : Put(r.event, b)
    /\ late' = late \ {r}
    /\ UNCHANGED <<topic, next, committed>>

Forget ==
    /\ late' \subseteq late
    /\ UNCHANGED <<topic, index, next, committed>>

Commit(p) ==
    /\ committed'[p] \in committed[p] .. next[p] - 1
    /\ committed' = [committed EXCEPT ![p] = committed'[p]]
    /\ UNCHANGED <<topic, index, next, late>>

(* The partitions of Q start over, with the events that were under way left *)
(* behind.                                                                 *)
Restart(Q) ==
    /\ next' = [p \in Partition |-> IF p \in Q THEN committed[p] + 1 ELSE next[p]]
    /\ \A r \in late' \ late : r.event.off \in Ahead(r.event.part)
    /\ UNCHANGED <<topic, index, committed>>

Next ==
    \/ \E p \in Partition :
          \/ \E o \in Ahead(p) : Apply(p, o) \/ PassOver(p, o) \/ Abandon(p, o)
          \/ Commit(p)
    \/ \E r \in late : ApplyLate(r)
    \/ Forget
    \/ \E Q \in SUBSET Partition : Restart(Q)

Spec == Init /\ [][Next]_vars

=============================================================================
