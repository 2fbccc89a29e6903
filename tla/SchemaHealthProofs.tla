------------------------- MODULE SchemaHealthProofs -------------------------
(***************************************************************************)
(* What overlapping calls of GetSchemaHealth keep to, for any number of    *)
(* calls and restarts.                                                     *)
(***************************************************************************)
EXTENDS SchemaHealth, TLAPS

(* A call that is past the creation finds an object, one that unmarshals   *)
(* has taken it, one that inserts has a map.                               *)
HasTarget ==
    \A c \in Checker :
        /\ pc[c] \notin {"idle", "create"} => referenceIndex # 0
        /\ pc[c] \in {"unmarshal", "make"} => target[c] # 0
        /\ pc[c] = "insert" => target[c] \in made

(* A call that will fill the object referenceIndex points to: one that has *)
(* not chosen its object yet, or has chosen this one.                      *)
Filler(c) ==
    \/ pc[c] = "read"
    \/ pc[c] \in {"unmarshal", "make", "insert"} /\ target[c] = referenceIndex

(* Unless a read has failed, whoever empties or replaces the object fills *)
(* the one that is left, or another call does.                             *)
WillBeFilled ==
    (referenceIndex # 0 /\ ~misread) =>
        \/ referenceIndex \in filled
        \/ \E c \in Checker : Filler(c)

SchemaInv == TypeOK /\ HasTarget /\ WillBeFilled

LEMMA SchemaInvInit == Init => SchemaInv
  <1> SUFFICES ASSUME Init PROVE SchemaInv
    OBVIOUS
  <1>1. referenceIndex \in 0 .. created /\ 0 \in 0 .. created
    BY DEF Init
  <1>2. TypeOK
    BY <1>1 DEF Init, TypeOK, Answer
  <1>3. HasTarget /\ WillBeFilled
    BY DEF Init, HasTarget, WillBeFilled
  <1>4. QED
    BY <1>2, <1>3 DEF SchemaInv

LEMMA EndsKeeps == SchemaInv /\ ProcessEnds => SchemaInv'
  <1> SUFFICES ASSUME SchemaInv, ProcessEnds PROVE SchemaInv'
    OBVIOUS
  <1>1. 0 \in 0 .. created'
    BY DEF ProcessEnds, SchemaInv, TypeOK
  <1>2. TypeOK'
    <2>1. (live \in Lives /\ client \in BOOLEAN /\ restarts \in Nat /\ misread \in BOOLEAN)'
      <3>1. restarts' \in Nat
        BY DEF ProcessEnds, SchemaInv, TypeOK
      <3>2. client' \in BOOLEAN
        BY DEF ProcessEnds
      <3>3. (live \in Lives)'
        BY DEF ProcessEnds, SchemaInv, TypeOK
      <3>4. misread' \in BOOLEAN
        BY DEF ProcessEnds
      <3>5. QED
        BY <3>1, <3>2, <3>3, <3>4
    <2>2. created' = created /\ made' = made /\ filled' = filled
      BY DEF ProcessEnds
    <2>3. /\ referenceIndex' \in 0 .. created'
          /\ target' \in [Checker -> 0 .. created']
      BY <1>1 DEF ProcessEnds
    <2>4. /\ pc' = [c \in Checker |-> "idle"]
          /\ answer' \in [Checker -> Answer]
      BY DEF ProcessEnds, Answer
    <2>5. QED
      BY <2>1, <2>2, <2>3, <2>4 DEF SchemaInv, TypeOK
  <1>3. HasTarget' /\ WillBeFilled'
    BY DEF ProcessEnds, HasTarget, WillBeFilled
  <1>4. QED
    BY <1>2, <1>3 DEF SchemaInv

LEMMA CallKeeps ==
    ASSUME SchemaInv, NEW c \in Checker, GetSchemaHealth(c)
    PROVE  SchemaInv'
  <1> USE DEF SchemaInv, TypeOK, HasTarget, shared, Goto
  <1>1. CASE CheckReference(c)
    BY <1>1 DEF CheckReference, WillBeFilled, Filler, Answer
  <1>2. CASE CreateReference(c)
    <2>1. TypeOK' /\ HasTarget'
      BY <1>2 DEF CreateReference
    <2>2. Filler(c)'
      BY <1>2 DEF CreateReference, Filler
    <2>3. QED
      BY <2>1, <2>2 DEF WillBeFilled
  <1>3. CASE ReadReference(c)
    <2>1. TypeOK' /\ HasTarget'
      BY <1>3 DEF ReadReference
    <2>2. Filler(c)'
      BY <1>3 DEF ReadReference, Filler
    <2>3. QED
      BY <2>1, <2>2 DEF WillBeFilled
  <1>4. CASE OpenFails(c)
    BY <1>4, EndsKeeps DEF OpenFails
  <1>5. CASE ReadFails(c)
    BY <1>5 DEF ReadFails, Answering, WillBeFilled, Answer
  <1>6. CASE UnmarshalFails(c)
    <2>1. UNCHANGED <<live, shared, restarts>> /\ misread' = TRUE
      BY <1>6 DEF UnmarshalFails
    <2>2. target' \in [Checker -> 0 .. created']
      <3>1. 0 \in 0 .. created
        OBVIOUS
      <3>2. target' = [target EXCEPT ![c] = 0] /\ created' = created
        BY <1>6 DEF UnmarshalFails
      <3>3. QED
        BY <3>1, <3>2
    <2>3. /\ pc' = [pc EXCEPT ![c] = "idle"]
          /\ answer' = [answer EXCEPT ![c] = "error"]
      BY <1>6 DEF UnmarshalFails, Answering
    <2>4. TypeOK'
      BY <2>1, <2>2, <2>3 DEF Answer
    <2>5. HasTarget' /\ WillBeFilled'
      BY <1>6 DEF UnmarshalFails, Answering, WillBeFilled
    <2>6. QED
      BY <2>4, <2>5
  <1>7. CASE CheckMap(c)
    BY <1>7 DEF CheckMap, WillBeFilled, Filler
  <1>8. CASE MakeMap(c)
    <2>1. TypeOK' /\ HasTarget'
      <3>1. target[c] \in 1 .. created /\ created' = created
        BY <1>8 DEF MakeMap
      <3>2. (made \subseteq 1 .. created /\ filled \subseteq made)'
        BY <1>8, <3>1 DEF MakeMap
      <3>3. HasTarget'
        BY <1>8 DEF MakeMap
      <3>4. QED
        BY <1>8, <3>2, <3>3 DEF MakeMap
    <2>2. CASE target[c] = referenceIndex
      <3>1. Filler(c)'
        BY <1>8, <2>2 DEF MakeMap, Filler
      <3>2. QED
        BY <2>1, <3>1 DEF WillBeFilled
    <2>3. CASE target[c] # referenceIndex
      <3>1. WillBeFilled'
        BY <1>8, <2>3 DEF MakeMap, Filler, WillBeFilled
      <3>2. QED
        BY <2>1, <3>1
    <2>4. QED
      BY <2>2, <2>3
  <1>9. CASE Insert(c)
    <2>1. TypeOK' /\ HasTarget'
      <3>1. target[c] \in made
        BY <1>9 DEF Insert
      <3>2. filled' \subseteq made
        <4>1. filled' = filled \cup {target[c]}
          BY <1>9 DEF Insert
        <4>2. QED
          BY <3>1, <4>1
      <3>3. target' \in [Checker -> 0 .. created]
        BY <1>9 DEF Insert
      <3>4. HasTarget'
        BY <1>9 DEF Insert
      <3>5. QED
        BY <1>9, <3>2, <3>3, <3>4 DEF Insert
    <2>2. WillBeFilled'
      BY <1>9 DEF Insert, Filler, WillBeFilled
    <2>3. QED
      BY <2>1, <2>2
  <1>10. CASE CheckEntry(c) \/ CheckClient(c) \/ FetchFails(c) \/ NoIndex(c)
    BY <1>10 DEF CheckEntry, CheckClient, FetchFails, NoIndex, Answering, WillBeFilled,
                Filler, Answer
  <1>11. CASE Compare(c)
    <2>1. \A i \in live : Verdict(i) \in Answer
      BY DEF Verdict, Answer
    <2>2. QED
      BY <1>11, <2>1 DEF Compare, Answering, WillBeFilled, Filler
  <1>12. CASE Panics(c)
    <2>1. CASE ProcessEnds
      BY <2>1, EndsKeeps
    <2>2. CASE Answering(c, "panic") /\ UNCHANGED <<live, misread, shared, target, restarts>>
      BY <1>12, <2>2 DEF Panics, Answering, WillBeFilled, Filler, Answer
    <2>3. QED
      BY <1>12, <2>1, <2>2 DEF Panics
  <1>13. QED
    BY <1>1, <1>2, <1>3, <1>4, <1>5, <1>6, <1>7, <1>8, <1>9, <1>10, <1>11,
       <1>12 DEF GetSchemaHealth

LEMMA SchemaInvNext == SchemaInv /\ [Next]_vars => SchemaInv'
  <1> SUFFICES ASSUME SchemaInv, [Next]_vars PROVE SchemaInv'
    OBVIOUS
  <1>1. CASE SetClient
    BY <1>1 DEF SetClient, SchemaInv, TypeOK, HasTarget, WillBeFilled, Filler
  <1>2. CASE ConcurrentMapAccess
    BY <1>2, EndsKeeps DEF ConcurrentMapAccess
  <1>3. CASE UNCHANGED vars
    BY <1>3 DEF vars, shared, SchemaInv, TypeOK, HasTarget, WillBeFilled,
                Filler
  <1>4. QED
    BY <1>1, <1>2, <1>3, CallKeeps DEF Next

LEMMA SchemaInvAlways == Spec => []SchemaInv
  BY SchemaInvInit, SchemaInvNext, PTL DEF Spec

-----------------------------------------------------------------------------
(* Every variable has its type: a call only unmarshals into an object that  *)
(* was created, and referenceIndex points to one (service.go:52-65).        *)
THEOREM TypeCorrect == Spec => []TypeOK
  <1>1. SchemaInv => TypeOK
    BY DEF SchemaInv
  <1>2. QED
    BY <1>1, SchemaInvAlways, PTL

(* With a readable file, the first calls leave a filled reference behind    *)
(* when they are through, however they overlap (service.go:52-65).          *)
THEOREM SettledIsFilled == Spec => []SettlesFilled
  <1>1. SchemaInv => SettlesFilled
    BY DEF SchemaInv, WillBeFilled, Filler, SettlesFilled, Initialising
  <1>2. QED
    BY <1>1, SchemaInvAlways, PTL

(* Of the steps of a call only these two blame the reference.              *)
LEMMA BlamedBy ==
    ASSUME SchemaInv, NEW c \in Checker, GetSchemaHealth(c), ~ProcessEnds,
           NEW d \in Checker, Blames(answer'[d]), ~Blames(answer[d])
    PROVE  d = c /\ (CheckEntry(c) \/ Panics(c)) /\ referenceIndex \notin filled
  <1> USE DEF SchemaInv, TypeOK, Answering, Blames
  <1>1. CASE CheckReference(c)
    BY <1>1 DEF CheckReference
  <1>2. CASE \/ CreateReference(c) \/ ReadReference(c) \/ CheckMap(c)
             \/ MakeMap(c) \/ Insert(c)
    BY <1>2 DEF CreateReference, ReadReference, CheckMap, MakeMap, Insert
  <1>3. CASE ReadFails(c) \/ UnmarshalFails(c) \/ FetchFails(c) \/ NoIndex(c)
    BY <1>3 DEF ReadFails, UnmarshalFails, FetchFails, NoIndex
  <1>4. CASE CheckEntry(c)
    BY <1>4 DEF CheckEntry
  <1>5. CASE CheckClient(c)
    BY <1>5 DEF CheckClient
  <1>6. CASE Compare(c)
    BY <1>6 DEF Compare, Verdict
  <1>7. CASE Panics(c)
    BY <1>7 DEF Panics
  <1>8. QED
    BY <1>1, <1>2, <1>3, <1>4, <1>5, <1>6, <1>7 DEF GetSchemaHealth, OpenFails

(* Wrong answers are over with the overlap of the first calls, however many *)
(* there are (service.go:52-70): a call that is past the nil check finds an *)
(* object, and one that is empty is about to be filled by another call.     *)
THEOREM WrongIsPassing == Spec => WrongOnlyWhileInitialising
  <1>1. SchemaInv /\ [Next]_vars =>
            [\A c \in Checker :
                (Blames(answer'[c]) /\ ~Blames(answer[c]))
                => misread \/ \E d \in Checker \ {c} : Initialising(d)]_vars
    <2> SUFFICES ASSUME SchemaInv, Next, NEW c \in Checker,
                        Blames(answer'[c]), ~Blames(answer[c])
                 PROVE  misread \/ \E d \in Checker \ {c} : Initialising(d)
      OBVIOUS
    <2>1. ~ProcessEnds
      BY DEF ProcessEnds, Blames
    <2>2. ~SetClient /\ ~ConcurrentMapAccess
      BY <2>1 DEF SetClient, ConcurrentMapAccess
    <2>3. PICK d \in Checker : GetSchemaHealth(d)
      BY <2>2 DEF Next
    <2>4. c = d /\ (CheckEntry(c) \/ Panics(c)) /\ referenceIndex \notin filled
      BY <2>1, <2>3, BlamedBy
    <2>5. pc[c] \in {"guard", "settings", "fetch"} /\ referenceIndex # 0
      BY <2>4 DEF CheckEntry, Panics, SchemaInv, HasTarget
    <2>6. misread \/ \E e \in Checker : Filler(e)
      BY <2>4, <2>5 DEF SchemaInv, WillBeFilled
    <2>7. QED
      BY <2>5, <2>6 DEF Filler, Initialising
  <1>2. QED
    BY <1>1, SchemaInvAlways, PTL DEF Spec, WrongOnlyWhileInitialising

=============================================================================
