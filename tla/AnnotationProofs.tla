-------------------------- MODULE AnnotationProofs --------------------------
(***************************************************************************)
(* From the answer of the Concordances API to the fields of the document,  *)
(* for any events, rows and number of annotations.                         *)
(*                                                                         *)
(* The first half is about the map (Concordance): entries that share an    *)
(* array are never in each other's way unless an alias has rows of its     *)
(* own, and even then hold nothing of a stranger.  The second is about the *)
(* loop over the annotations (AnnotationMapper).  What a function defined  *)
(* by recursion over a list holds is shown by induction on its indices,    *)
(* from the least one at which it would not.                               *)
(***************************************************************************)
EXTENDS AnnotationMapper, WellFoundedInduction, TLAPS

(* Induction over the natural numbers, and functions defined by recursion  *)
(* over the indices of a list.                                             *)

LEMMA LeastIndex ==
    ASSUME NEW S \in SUBSET Nat, S # {}
    PROVE  \E j \in S : \A k \in S : j <= k
  <1>1. IsWellFoundedOn(OpToRel(<, Nat), Nat)
    BY NatLessThanWellFounded
  <1>2. PICK j \in S : \A k \in S : ~(<<k, j>> \in OpToRel(<, Nat))
    BY <1>1, WFMin
  <1>3. \A k \in S : ~(k < j)
    BY <1>2 DEF OpToRel
  <1>4. QED
    BY <1>3

LEMMA Induction ==
    ASSUME NEW S \in SUBSET Nat, 0 \in S, \A n \in Nat : n \in S => n + 1 \in S
    PROVE  \A n \in Nat : n \in S
  <1>1. SUFFICES ASSUME NEW n \in Nat, n \notin S PROVE FALSE
    OBVIOUS
  <1>2. PICK j \in Nat \ S : \A k \in Nat \ S : j <= k
    BY <1>1, LeastIndex
  <1>3. j # 0 /\ j - 1 \in Nat
    BY <1>2
  <1>4. j - 1 \in S
    BY <1>2, <1>3
  <1>5. (j - 1) + 1 = j
    BY <1>2
  <1>6. QED
    BY <1>2, <1>3, <1>4, <1>5

(* A list of steps, each a function on D, can be run from any element of   *)
(* D: there is a function that a recursive definition describes.           *)
LEMMA Run ==
    ASSUME NEW D, NEW base \in D, NEW N \in Nat, NEW step \in [1 .. N -> [D -> D]]
    PROVE  \E g \in [0 .. N -> D] :
              g[0] = base /\ \A n \in 1 .. N : g[n] = step[n][g[n - 1]]
  <1> DEFINE Runs(n, g) ==
                /\ g \in [0 .. n -> D] /\ g[0] = base
                /\ \A k \in 1 .. n : g[k] = step[k][g[k - 1]]
             S == {n \in Nat : n <= N => \E g : Runs(n, g)}
  <1>1. 0 \in S
    <2>1. Runs(0, [k \in 0 .. 0 |-> base])
      OBVIOUS
    <2>2. QED
      BY <2>1
  <1>2. ASSUME NEW n \in Nat, n \in S, n + 1 <= N PROVE \E g : Runs(n + 1, g)
    <2>1. PICK g : Runs(n, g)
      BY <1>2
    <2> DEFINE h == [k \in 0 .. n + 1 |-> IF k <= n THEN g[k] ELSE step[n + 1][g[n]]]
    <2>2. step[n + 1] \in [D -> D] /\ g[n] \in D
      BY <1>2, <2>1
    <2>3. h \in [0 .. n + 1 -> D]
      BY <2>1, <2>2
    <2>4. h[0] = base
      BY <2>1
    <2>5. ASSUME NEW k \in 1 .. n + 1 PROVE h[k] = step[k][h[k - 1]]
      <3>1. CASE k <= n
        BY <2>1, <2>5, <3>1
      <3>2. CASE k = n + 1
        BY <3>2
      <3>3. QED
        BY <3>1, <3>2
    <2>6. QED
      BY <2>3, <2>4, <2>5
  <1> HIDE DEF Runs
  <1>3. \A n \in Nat : n \in S => n + 1 \in S
    BY <1>2
  <1> HIDE DEF S
  <1>4. N \in S
    BY <1>1, <1>3, Induction DEF S
  <1>5. PICK g : Runs(N, g)
    BY <1>4 DEF S
  <1>6. QED
    BY <1>5 DEF Runs

-----------------------------------------------------------------------------
(* What a row adds to the TME ids of c.                                    *)
TmeStep(c, n, s) ==
    IF rows[n].concept = c /\ rows[n].authority = "tme"
    THEN Append(s, rows[n].value) ELSE s

(* What every step keeps, the first n do.                                  *)
LEMMA Stays ==
    ASSUME NEW D, NEW N \in Nat, NEW t, t[0] \in D,
           \A n \in 1 .. N : t[n - 1] \in D => t[n] \in D
    PROVE  \A n \in 0 .. N : t[n] \in D
  <1> DEFINE S == {n \in Nat : n <= N => t[n] \in D}
  <1>1. 0 \in S
    OBVIOUS
  <1>2. ASSUME NEW n \in Nat, n \in S PROVE n + 1 \in S
    <2>1. ASSUME n + 1 <= N PROVE t[n + 1] \in D
      <3>1. n + 1 \in 1 .. N /\ (n + 1) - 1 = n /\ t[n] \in D
        BY <1>2, <2>1
      <3>2. QED
        BY <3>1
    <2>2. QED
      BY <2>1
  <1> HIDE DEF S
  <1>3. \A n \in Nat : n \in S
    BY <1>1, <1>2, Induction DEF S
  <1>4. QED
    BY <1>3 DEF S

(* The TME ids of the first rows are what their recursion says.            *)
LEMMA TmeIDsRun ==
    ASSUME rows \in Seq(Row), NEW c
    PROVE  /\ TmeIDs(c) \in [0 .. Len(rows) -> Seq(TmeID)]
           /\ TmeIDs(c)[0] = << >>
           /\ \A n \in 1 .. Len(rows) :
                 TmeIDs(c)[n] = TmeStep(c, n, TmeIDs(c)[n - 1])
  <1> DEFINE N == Len(rows)
             D == Seq(TmeID)
             base == << >>
             step == [n \in 1 .. N |-> [s \in D |-> TmeStep(c, n, s)]]
             Body(g, n) == IF n = 0 THEN base ELSE TmeStep(c, n, g[n - 1])
             t == TmeIDs(c)
  <1>1. ASSUME NEW n \in 1 .. N, NEW s \in D
        PROVE  TmeStep(c, n, s) \in D
    BY DEF TmeStep, Row
  <1>2. N \in Nat /\ base \in D
    OBVIOUS
  <1> HIDE DEF N, D, base
  <1>3. step \in [1 .. N -> [D -> D]]
    BY <1>1
  <1> HIDE DEF step
  <1>4. PICK g \in [0 .. N -> D] :
           g[0] = base /\ \A n \in 1 .. N : g[n] = step[n][g[n - 1]]
    BY <1>2, <1>3, Run
  <1>5. ASSUME NEW n \in 0 .. N
        PROVE  g[n] = Body(g, n)
    <2>1. CASE n # 0
      <3>1. n - 1 \in 0 .. N /\ n \in 1 .. N
        BY <1>2, <2>1
      <3>2. g[n - 1] \in D
        BY <1>4, <3>1
      <3>3. QED
        BY <1>4, <2>1, <3>1, <3>2 DEF step
    <2>2. QED
      BY <1>4, <2>1
  <1>6. g = [n \in 0 .. N |-> Body(g, n)]
    <2> HIDE DEF Body
    <2>1. QED
      BY <1>4, <1>5
  <1>7. t = [n \in 0 .. N |-> Body(t, n)]
    BY <1>6, Zenon DEF TmeIDs, TmeStep, N, base
  <1> HIDE DEF t, Body
  <1>8. ASSUME NEW n \in 0 .. N PROVE t[n] = Body(t, n)
    <2>1. [k \in 0 .. N |-> Body(t, k)][n] = Body(t, n)
      OBVIOUS
    <2>2. QED
      BY <1>7, <2>1, Zenon
  <1>9. t[0] = base
    BY <1>2, <1>8 DEF Body
  <1>10. ASSUME NEW n \in 1 .. N PROVE t[n] = TmeStep(c, n, t[n - 1])
    BY <1>2, <1>8 DEF Body
  <1>11. \A n \in 0 .. N : t[n] \in D
    BY <1>1, <1>2, <1>9, <1>10, Stays
  <1>12. t \in [0 .. N -> D]
    <2>1. [n \in 0 .. N |-> Body(t, n)] \in [0 .. N -> D]
      BY <1>8, <1>11
    <2>2. QED
      BY <1>7, <2>1, Zenon
  <1>13. QED
    BY <1>9, <1>10, <1>12 DEF t, N, D, base

LEMMA RowType ==
    ASSUME NEW r \in Row
    PROVE  /\ r.concept \in Concept /\ r.authority \in {"tme", "upp", "other"}
           /\ r.authority = "tme" => r.value \in TmeID
           /\ r.authority = "upp" => r.value \in Concept
  BY DEF Row

Element == TmeID \cup {Unset}

(* The slice s lies within its array in the heap h.                        *)
Within(s, h) == s = Nil \/ (s.array \in DOMAIN h /\ s.len \in DOMAIN h[s.array])

(* append: the new element comes behind the others, in the same array or in *)
(* a new one, and nothing else is written.                                 *)
LEMMA Appending ==
    ASSUME heap \in Seq(Seq(Element)), NEW s \in Slice, Within(s, heap), NEW v \in TmeID
    PROVE  LET h == Write(s, v)
               l == Longer(s)
           IN  /\ h \in Seq(Seq(Element))
               /\ l \in Slice /\ l # Nil /\ Within(l, h)
               /\ l.len = s.len + 1
               /\ h[l.array][l.len] = v
               /\ \A j \in 1 .. s.len : h[l.array][j] = heap[s.array][j]
               /\ (l.array = s.array /\ s.array # 0) \/ l.array = Len(heap) + 1
               /\ \A x \in 1 .. Len(heap) :
                     /\ x \in DOMAIN h /\ Len(h[x]) = Len(heap[x])
                     /\ \A j \in 1 .. Len(heap[x]) :
                           x # l.array \/ j # l.len => h[x][j] = heap[x][j]
  <1> DEFINE h == Write(s, v)
             l == Longer(s)
  <1>1. l \in Slice /\ l.len = s.len + 1 /\ l # Nil
    BY DEF Longer, Slice, Nil, HasRoom
  <1>2. CASE HasRoom(s)
    <2>1. /\ s.array \in 1 .. Len(heap) /\ s.len \in Nat
          /\ s.len + 1 \in 1 .. Len(heap[s.array])
          /\ heap[s.array] \in Seq(Element)
      BY <1>2 DEF HasRoom, Slice, Within, Nil
    <2> DEFINE array == [heap[s.array] EXCEPT ![s.len + 1] = v]
    <2>2. array \in Seq(Element) /\ Len(array) = Len(heap[s.array])
      BY <2>1 DEF Element
    <2>3. /\ array[s.len + 1] = v
          /\ \A j \in 1 .. Len(heap[s.array]) :
                j # s.len + 1 => array[j] = heap[s.array][j]
      BY <2>1
    <2>4. h = [heap EXCEPT ![s.array] = array] /\ l.array = s.array
      BY <1>2 DEF Write, Longer
    <2> HIDE DEF array, h, l
    <2>5. /\ h \in Seq(Seq(Element)) /\ Len(h) = Len(heap)
          /\ h[s.array] = array
          /\ \A x \in 1 .. Len(heap) : x # s.array => h[x] = heap[x]
      BY <2>1, <2>2, <2>4
    <2>6. DOMAIN h = 1 .. Len(heap) /\ DOMAIN array = 1 .. Len(heap[s.array])
      BY <2>2, <2>5
    <2>7. Within(l, h)
      BY <1>1, <2>1, <2>4, <2>5, <2>6 DEF Within
    <2>8. h[l.array][l.len] = v
      BY <1>1, <2>3, <2>4, <2>5
    <2>9. \A j \in 1 .. s.len : h[l.array][j] = heap[s.array][j]
      <3>1. h[l.array] = array
        BY <2>4, <2>5
      <3>2. \A j \in 1 .. s.len : j \in 1 .. Len(heap[s.array]) /\ j # s.len + 1
        BY <2>1
      <3>3. QED
        BY <2>3, <3>1, <3>2
    <2>10. s.array # 0
      BY <1>2 DEF HasRoom
    <2>11. \A x \in 1 .. Len(heap) :
                     /\ x \in DOMAIN h /\ Len(h[x]) = Len(heap[x])
                     /\ \A j \in 1 .. Len(heap[x]) :
                           x # l.array \/ j # l.len => h[x][j] = heap[x][j]
      BY <1>1, <2>2, <2>3, <2>4, <2>5, <2>6
    <2>12. QED
      BY <1>1, <2>4, <2>5, <2>7, <2>8, <2>9, <2>10, <2>11 DEF h, l
  <1>3. CASE ~HasRoom(s)
    <2> DEFINE array == Grown(s, v)
    <2>1. /\ s.len \in Nat /\ s.len + 1 \in 1 .. Capacity(s)
          /\ Capacity(s) \in Nat
      BY DEF Slice, Capacity
    <2>2. ASSUME NEW j \in 1 .. s.len PROVE heap[s.array][j] \in Element
      BY <2>1 DEF Within, Nil, Slice
    <2>3. ASSUME NEW j \in 1 .. Capacity(s)
          PROVE  (IF j <= s.len THEN heap[s.array][j]
                  ELSE IF j = s.len + 1 THEN v ELSE Unset) \in Element
      BY <2>1, <2>2 DEF Element
    <2>4. array \in [1 .. Capacity(s) -> Element]
      BY <2>3 DEF Grown
    <2>5. array \in Seq(Element) /\ Len(array) = Capacity(s)
      BY <2>1, <2>4
    <2>6. /\ array[s.len + 1] = v
          /\ \A j \in 1 .. s.len : array[j] = heap[s.array][j]
      BY <2>1 DEF Grown
    <2>7. h = Append(heap, array) /\ l.array = Len(heap) + 1
      BY <1>3 DEF Write, Longer
    <2> HIDE DEF array, h, l
    <2>8. /\ h \in Seq(Seq(Element)) /\ Len(h) = Len(heap) + 1
          /\ h[Len(heap) + 1] = array
          /\ \A x \in 1 .. Len(heap) : h[x] = heap[x]
      BY <2>5, <2>7
    <2>9. DOMAIN h = 1 .. Len(heap) + 1 /\ DOMAIN array = 1 .. Capacity(s)
      BY <2>4, <2>8
    <2>10. Within(l, h)
      BY <1>1, <2>1, <2>7, <2>8, <2>9 DEF Within
    <2>11. h[l.array][l.len] = v
      BY <1>1, <2>6, <2>7, <2>8
    <2>12. \A j \in 1 .. s.len : h[l.array][j] = heap[s.array][j]
      BY <2>6, <2>7, <2>8
    <2>13. QED
      BY <1>1, <2>7, <2>8, <2>9, <2>10, <2>11, <2>12 DEF h, l
  <1>4. QED
    BY <1>2, <1>3

-----------------------------------------------------------------------------
(* What one more row says.                                                 *)

LEMMA OneMoreConcept ==
    ASSUME NEW c, NEW n \in Nat
    PROVE  IsConcept(c, n + 1) <=> IsConcept(c, n) \/ rows[n + 1].concept = c
  BY DEF IsConcept

MakesAlias(a, j) ==
    rows[j].authority = "upp" /\ rows[j].value = a /\ rows[j].concept # a

(* AliasRow is the first row that makes a an alias.                        *)
LEMMA AliasRowType ==
    ASSUME NEW a, NEW n \in Nat
    PROVE  /\ AliasRow(a, n) \in 0 .. n
           /\ AliasRow(a, n) # 0 =>
                 /\ MakesAlias(a, AliasRow(a, n))
                 /\ \A j \in 1 .. n : MakesAlias(a, j) => AliasRow(a, n) <= j
           /\ AliasRow(a, n) = 0 => \A j \in 1 .. n : ~MakesAlias(a, j)
  <1> DEFINE at == {j \in 1 .. n : MakesAlias(a, j)}
  <1>1. CASE at = {}
    <2>1. AliasRow(a, n) = 0
      BY <1>1 DEF AliasRow, MakesAlias
    <2>2. QED
      BY <1>1, <2>1
  <1>2. CASE at # {}
    <2>0. at \in SUBSET Nat
      OBVIOUS
    <2>1. \E j \in at : \A k \in at : j <= k
      <3> HIDE DEF at
      <3>1. QED
        BY <1>2, <2>0, LeastIndex
    <2>2. AliasRow(a, n) = CHOOSE j \in at : \A k \in at : j <= k
      BY <1>2 DEF AliasRow, MakesAlias
    <2>3. AliasRow(a, n) \in at /\ \A k \in at : AliasRow(a, n) <= k
      BY <2>1, <2>2
    <2>4. QED
      BY <2>3
  <1>3. QED
    BY <1>1, <1>2

(* Once an alias, always one, of the same row.                             *)
LEMMA OneMoreAlias ==
    ASSUME NEW a, NEW n \in Nat
    PROVE  AliasRow(a, n + 1) = IF AliasRow(a, n) # 0 THEN AliasRow(a, n)
                                ELSE IF MakesAlias(a, n + 1) THEN n + 1 ELSE 0
  <1>1. AliasRow(a, n) \in 0 .. n /\ AliasRow(a, n + 1) \in 0 .. n + 1
    BY AliasRowType
  <1>2. CASE AliasRow(a, n) # 0
    <2>1. AliasRow(a, n) \in 1 .. n + 1 /\ MakesAlias(a, AliasRow(a, n))
      BY <1>1, <1>2, AliasRowType
    <2>2. AliasRow(a, n + 1) # 0
      BY <2>1, AliasRowType
    <2>3. /\ AliasRow(a, n + 1) <= AliasRow(a, n)
          /\ MakesAlias(a, AliasRow(a, n + 1))
      BY <2>1, <2>2, AliasRowType
    <2>4. AliasRow(a, n + 1) \in 1 .. n
      BY <1>1, <2>2, <2>3
    <2>5. AliasRow(a, n) <= AliasRow(a, n + 1)
      BY <1>2, <2>3, <2>4, AliasRowType
    <2>6. QED
      BY <1>1, <1>2, <2>3, <2>5
  <1>3. CASE AliasRow(a, n) = 0
    <2>1. \A j \in 1 .. n : ~MakesAlias(a, j)
      BY <1>3, AliasRowType
    <2>2. CASE MakesAlias(a, n + 1)
      <3>1. AliasRow(a, n + 1) # 0
        BY <2>2, AliasRowType
      <3>2. MakesAlias(a, AliasRow(a, n + 1)) /\ AliasRow(a, n + 1) \in 1 .. n + 1
        BY <1>1, <3>1, AliasRowType
      <3>3. QED
        BY <1>3, <2>1, <2>2, <3>2
    <2>3. CASE ~MakesAlias(a, n + 1)
      <3>1. \A j \in 1 .. n + 1 : ~MakesAlias(a, j)
        BY <2>1, <2>3
      <3>2. QED
        BY <1>1, <1>3, <2>3, <3>1, AliasRowType
    <2>4. QED
      BY <2>2, <2>3
  <1>4. QED
    BY <1>2, <1>3

(* No later row undoes a tangle.                                           *)
LEMMA OnceTangled ==
    ASSUME NEW n \in Nat, Tangled(n) PROVE Tangled(n + 1)
  <1>1. PICK a \in Concept : AliasRow(a, n) # 0 /\ IsConcept(a, n)
    BY DEF Tangled
  <1>2. AliasRow(a, n + 1) # 0 /\ IsConcept(a, n + 1)
    BY <1>1, OneMoreAlias, OneMoreConcept
  <1>3. QED
    BY <1>2 DEF Tangled

LEMMA OneMoreTmeID ==
    ASSUME rows \in Seq(Row), NEW c, NEW n \in Nat, n + 1 \in 1 .. Len(rows)
    PROVE  /\ TmeIDs(c)[n] \in Seq(TmeID) /\ TmeIDs(c)[n + 1] \in Seq(TmeID)
           /\ TmeIDs(c)[n + 1] =
                 IF rows[n + 1].concept = c /\ rows[n + 1].authority = "tme"
                 THEN Append(TmeIDs(c)[n], rows[n + 1].value) ELSE TmeIDs(c)[n]
  <1>1. n \in 0 .. Len(rows) /\ n + 1 \in 0 .. Len(rows) /\ (n + 1) - 1 = n
    OBVIOUS
  <1>2. TmeIDs(c)[n + 1] = TmeStep(c, n + 1, TmeIDs(c)[n])
    BY <1>1, TmeIDsRun
  <1>3. QED
    BY <1>1, <1>2, TmeIDsRun DEF TmeStep

LEMMA NoRowNoTmeID ==
    ASSUME rows \in Seq(Row), NEW c, NEW n \in 0 .. Len(rows), ~IsConcept(c, n)
    PROVE  TmeIDs(c)[n] = << >>
  <1> DEFINE D == {<< >>}
             t == TmeIDs(c)
  <1>1. t[0] \in D
    BY TmeIDsRun
  <1>2. ASSUME NEW k \in 1 .. n, t[k - 1] \in D PROVE t[k] \in D
    <2>1. rows[k].concept # c /\ k \in 1 .. Len(rows)
      BY DEF IsConcept
    <2>2. t[k] = t[k - 1]
      BY <2>1, TmeIDsRun DEF TmeStep
    <2>3. QED
      BY <1>2, <2>2
  <1> HIDE DEF D, t
  <1>3. n \in Nat
    OBVIOUS
  <1>4. \A k \in 0 .. n : t[k] \in D
    BY <1>1, <1>2, <1>3, Stays
  <1>5. QED
    BY <1>3, <1>4 DEF D, t

-----------------------------------------------------------------------------
(* The inductive invariant of the map.  A slice holds the list t: in the   *)
(* arrays there are, or in those of the heap h.                            *)
Holds(s, t) == s.len = Len(t) /\ \A j \in 1 .. s.len : heap[s.array][j] = t[j]

Shares(s, t) == s # Missing /\ t # Missing /\ s.array = t.array /\ s.array # 0

(* Names whose entries share an array are tied by UPP rows.                *)
TiedInv ==
    \A c, x \in Concept :
        Shares(conceptMap[c], conceptMap[x]) =>
            \A S \in SUBSET Concept : Closed(S) => (c \in S <=> x \in S)

(* An entry holds ids given to the names of any closed set it is in.       *)
OwnIDs ==
    \A c \in Concept : conceptMap[c] # Missing =>
        \A S \in SUBSET Concept : c \in S /\ Closed(S) =>
            \A j \in 1 .. conceptMap[c].len : heap[conceptMap[c].array][j] \in GivenTo(S)

(* EntriesExact, of the slices themselves.                                 *)
EntriesInv ==
    ~Tangled(done) => \A c \in Concept :
        /\ conceptMap[c] = Missing <=> ~IsConcept(c, done) /\ AliasRow(c, done) = 0
        /\ conceptMap[c] # Missing => Holds(conceptMap[c], Said(c, done))

(* Of the entries that share an array one at most is a concept's, and it is *)
(* the longest: what it appends is behind all that the others read.        *)
SharingInv ==
    ~Tangled(done) => \A c, x \in Concept :
        (IsConcept(c, done) /\ x # c /\ Shares(conceptMap[c], conceptMap[x]))
        => ~IsConcept(x, done) /\ conceptMap[x].len <= conceptMap[c].len

(* An entry lies within its array.                                         *)
LEMMA Entry ==
    ASSUME MapTypeOK, NEW c \in Concept, conceptMap[c] # Missing
    PROVE  /\ conceptMap[c] \in Slice /\ Within(conceptMap[c], heap)
           /\ conceptMap[c].array # 0 => conceptMap[c].array \in 1 .. Len(heap)
  BY DEF MapTypeOK, Within, Slice, Nil

(* Enter gives c an empty entry, and leaves the others alone.              *)
LEMMA Entered ==
    ASSUME MapTypeOK, NEW c \in Concept
    PROVE  LET m == Enter(c)
           IN  /\ m \in [Concept -> Slice \cup {Missing}]
               /\ m[c] \in Slice /\ Within(m[c], heap) /\ m[c] # Missing
               /\ m[c].array # 0 => conceptMap[c] = m[c] /\ m[c].array \in 1 .. Len(heap)
               /\ \A x \in Concept : m[x] # conceptMap[x] => 
                        x = c /\ m[x] = Nil /\ conceptMap[x] = Missing
               /\ \A x \in Concept : m[x] # Missing => m[x] \in Slice /\ Within(m[x], heap)
  <1>1. Nil \in Slice /\ Missing \notin Slice /\ Nil.array = 0
    BY MissingAssumption DEF Nil, Slice
  <1>2. conceptMap \in [Concept -> Slice \cup {Missing}]
    BY DEF MapTypeOK
  <1>3. CASE conceptMap[c] = Missing
    <2>1. Enter(c) = [conceptMap EXCEPT ![c] = Nil]
      BY <1>3 DEF Enter
    <2>2. \A x \in Concept : Enter(c)[x] = IF x = c THEN Nil ELSE conceptMap[x]
      BY <1>2, <2>1
    <2>3. Enter(c) \in [Concept -> Slice \cup {Missing}]
      BY <1>1, <1>2, <2>1
    <2>4. Within(Nil, heap)
      BY DEF Within
    <2>5. QED
      BY <1>1, <1>3, <2>2, <2>3, <2>4, Entry
  <1>4. CASE conceptMap[c] # Missing
    <2>1. Enter(c) = conceptMap
      BY <1>4 DEF Enter
    <2>2. QED
      BY <1>1, <1>2, <1>4, <2>1, Entry
  <1>5. QED
    BY <1>3, <1>4

LEMMA NextRowType ==
    ASSUME MapTypeOK, done < Len(rows)
    PROVE  /\ done \in Nat /\ Len(rows) \in Nat /\ done + 1 \in 1 .. Len(rows)
           /\ Row1 \in Row /\ Row1 = rows[done + 1]
           /\ Row1.concept \in Concept
           /\ Row1.authority = "tme" => Row1.value \in TmeID
           /\ Row1.authority = "upp" => Row1.value \in Concept
  <1>1. /\ done \in Nat /\ Len(rows) \in Nat /\ done + 1 \in 1 .. Len(rows)
        /\ Row1 \in Row /\ Row1 = rows[done + 1]
    BY DEF MapTypeOK, Row1
  <1>2. QED
    BY <1>1, RowType

LEMMA MapTypeInit ==
    ASSUME InitMap, rows \in Seq(Row) PROVE MapTypeOK
  <1>1. Missing \notin Slice
    BY MissingAssumption
  <1>2. QED
    BY <1>1 DEF InitMap, MapTypeOK

(* An entry is in its place in the arrays after an append to another.      *)
LEMMA TypeAddTmeID ==
    ASSUME MapTypeOK, AddTmeID PROVE MapTypeOK'
  <1> DEFINE c == Row1.concept
             v == Row1.value
             m == Enter(c)
             s == m[c]
             l == Longer(s)
             h == Write(s, v)
  <1>1. /\ done < Len(rows) /\ Row1.authority = "tme" /\ done' = done + 1
        /\ rows' = rows /\ heap' = h /\ conceptMap' = [m EXCEPT ![c] = l]
    BY DEF AddTmeID, NextRow
  <1>2. c \in Concept /\ v \in TmeID
    BY <1>1, NextRowType
  <1>3. heap \in Seq(Seq(Element))
    BY DEF MapTypeOK, Element
  <1> HIDE DEF c, v
  <1>4. /\ m \in [Concept -> Slice \cup {Missing}] /\ s \in Slice /\ Within(s, heap)
        /\ \A x \in Concept : m[x] # Missing => m[x] \in Slice /\ Within(m[x], heap)
    BY <1>2, Entered
  <1> HIDE DEF m, s
  <1>5. /\ h \in Seq(Seq(Element)) /\ l \in Slice /\ l # Nil /\ Within(l, h)
        /\ \A x \in 1 .. Len(heap) : x \in DOMAIN h /\ Len(h[x]) = Len(heap[x])
    BY <1>2, <1>3, <1>4, Appending
  <1> HIDE DEF l, h
  <1>6. conceptMap' \in [Concept -> Slice \cup {Missing}]
    BY <1>1, <1>2, <1>4, <1>5
  <1>7. ASSUME NEW x \in Concept, conceptMap'[x] \in Slice \ {Nil}
        PROVE  /\ conceptMap'[x].array \in DOMAIN h
               /\ conceptMap'[x].len \in DOMAIN h[conceptMap'[x].array]
    <2>1. CASE x = c
      <3>1. conceptMap'[x] = l
        BY <1>1, <1>2, <1>4, <2>1
      <3>2. QED
        BY <1>5, <3>1 DEF Within
    <2>2. CASE x # c
      <3>1. conceptMap'[x] = m[x]
        BY <1>1, <1>2, <1>4, <2>2
      <3>2. m[x] # Missing
        BY <1>7, <3>1, MissingAssumption
      <3>3. m[x].array \in DOMAIN heap /\ m[x].len \in DOMAIN heap[m[x].array]
        BY <1>4, <1>7, <3>1, <3>2 DEF Within
      <3>4. m[x].array \in 1 .. Len(heap) /\ heap[m[x].array] \in Seq(Element)
        BY <1>3, <3>3
      <3>5. h[m[x].array] \in Seq(Element)
        BY <1>5, <3>4
      <3>6. QED
        BY <1>5, <3>1, <3>3, <3>4, <3>5
    <2>3. QED
      BY <2>1, <2>2
  <1>8. rows' \in Seq(Row) /\ done' \in 0 .. Len(rows')
    BY <1>1 DEF MapTypeOK
  <1>9. heap' \in Seq(Seq(TmeID \cup {Unset}))
    BY <1>1, <1>5 DEF Element
  <1>10. QED
    BY <1>1, <1>6, <1>7, <1>8, <1>9 DEF MapTypeOK

(* The same of the rows that append nothing.                               *)
LEMMA TypeAddAlias ==
    ASSUME MapTypeOK, AddAlias PROVE MapTypeOK'
  <1> DEFINE c == Row1.concept
             v == Row1.value
             m == Enter(c)
  <1>1. /\ done < Len(rows) /\ Row1.authority = "upp" /\ done' = done + 1
        /\ rows' = rows /\ heap' = heap /\ conceptMap' = Alias(m, Row1)
    BY DEF AddAlias, NextRow
  <1>2. c \in Concept /\ v \in Concept
    BY <1>1, NextRowType
  <1>3. conceptMap' = IF m[v] = Missing THEN [m EXCEPT ![v] = m[c]] ELSE m
    BY <1>1 DEF Alias
  <1> HIDE DEF c, v
  <1>4. /\ m \in [Concept -> Slice \cup {Missing}] /\ m[c] \in Slice /\ Within(m[c], heap)
        /\ \A x \in Concept : m[x] # Missing => m[x] \in Slice /\ Within(m[x], heap)
    BY <1>2, Entered
  <1> HIDE DEF m
  <1>6. conceptMap' \in [Concept -> Slice \cup {Missing}]
    BY <1>2, <1>3, <1>4
  <1>7. ASSUME NEW x \in Concept, conceptMap'[x] \in Slice \ {Nil}
        PROVE  Within(conceptMap'[x], heap)
    <2>1. conceptMap'[x] \in {m[x], m[c]}
      BY <1>2, <1>3, <1>4
    <2>2. QED
      BY <1>4, <1>7, <2>1, MissingAssumption
  <1>8. rows' \in Seq(Row) /\ done' \in 0 .. Len(rows')
    BY <1>1 DEF MapTypeOK
  <1>9. heap' \in Seq(Seq(TmeID \cup {Unset}))
    BY <1>1 DEF MapTypeOK
  <1>10. QED
    BY <1>1, <1>6, <1>7, <1>8, <1>9 DEF MapTypeOK, Within

LEMMA TypeOther ==
    ASSUME MapTypeOK, OtherAuthority PROVE MapTypeOK'
  <1> DEFINE c == Row1.concept
             m == Enter(c)
  <1>1. /\ done < Len(rows) /\ done' = done + 1
        /\ rows' = rows /\ heap' = heap /\ conceptMap' = m
    BY DEF OtherAuthority, NextRow
  <1>2. c \in Concept
    BY <1>1, NextRowType
  <1> HIDE DEF c
  <1>4. /\ m \in [Concept -> Slice \cup {Missing}]
        /\ \A x \in Concept : m[x] # Missing => m[x] \in Slice /\ Within(m[x], heap)
    BY <1>2, Entered
  <1> HIDE DEF m
  <1>7. ASSUME NEW x \in Concept, conceptMap'[x] \in Slice \ {Nil}
        PROVE  Within(conceptMap'[x], heap)
    BY <1>1, <1>4, <1>7, MissingAssumption
  <1>8. rows' \in Seq(Row) /\ done' \in 0 .. Len(rows')
    BY <1>1 DEF MapTypeOK
  <1>9. heap' \in Seq(Seq(TmeID \cup {Unset}))
    BY <1>1 DEF MapTypeOK
  <1>10. QED
    BY <1>1, <1>4, <1>7, <1>8, <1>9 DEF MapTypeOK, Within

(* A set that is closed under one more row was closed before it, and the    *)
(* rows give its names no less.                                            *)
LEMMA OneMoreRow ==
    ASSUME MapTypeOK, done < Len(rows), done' = done + 1, rows' = rows,
           NEW S \in SUBSET Concept, Closed(S)'
    PROVE  /\ Closed(S)
           /\ GivenTo(S) \subseteq GivenTo(S)'
           /\ Row1.authority = "tme" /\ Row1.concept \in S => Row1.value \in GivenTo(S)'
           /\ Row1.authority = "upp" => (Row1.concept \in S <=> Row1.value \in S)
  <1>1. 1 .. done \subseteq 1 .. done' /\ done + 1 \in 1 .. done'
    BY DEF MapTypeOK
  <1>2. Closed(S)
    BY <1>1 DEF Closed, UppRows
  <1>3. GivenTo(S) \subseteq GivenTo(S)'
    BY <1>1 DEF GivenTo
  <1>4. Row1.authority = "tme" /\ Row1.concept \in S => Row1.value \in GivenTo(S)'
    BY <1>1 DEF GivenTo, Row1
  <1>5. Row1.authority = "upp" => (Row1.concept \in S <=> Row1.value \in S)
    BY <1>1 DEF Closed, UppRows, Row1
  <1>6. QED
    BY <1>2, <1>3, <1>4, <1>5

(* A TME row may overwrite an element that another entry reads, but only    *)
(* that of a name tied to the concept: the id is given to that one's set   *)
(* as well.                                                                *)
LEMMA TiedAddTmeID ==
    ASSUME MapTypeOK, TiedInv, OwnIDs, AddTmeID PROVE TiedInv' /\ OwnIDs'
  <1> DEFINE c == Row1.concept
             v == Row1.value
             m == Enter(c)
             s == m[c]
             l == Longer(s)
             h == Write(s, v)
  <1>1. /\ done < Len(rows) /\ Row1.authority = "tme" /\ done' = done + 1
        /\ rows' = rows /\ heap' = h /\ conceptMap' = [m EXCEPT ![c] = l]
    BY DEF AddTmeID, NextRow
  <1>2. c \in Concept /\ v \in TmeID
    BY <1>1, NextRowType
  <1>3. heap \in Seq(Seq(Element))
    BY DEF MapTypeOK, Element
  <1>r. ASSUME NEW S \in SUBSET Concept, Closed(S)'
        PROVE  /\ Closed(S) /\ GivenTo(S) \subseteq GivenTo(S)'
               /\ c \in S => v \in GivenTo(S)'
    BY <1>1, <1>r, OneMoreRow
  <1> HIDE DEF c, v
  <1>4. /\ m \in [Concept -> Slice \cup {Missing}] /\ s \in Slice /\ Within(s, heap)
        /\ s.array # 0 => conceptMap[c] = s /\ s.array \in 1 .. Len(heap)
        /\ s # Missing
        /\ \A x \in Concept : m[x] # conceptMap[x] => x = c
    BY <1>2, Entered
  <1> HIDE DEF m, s
  <1>5. /\ l \in Slice /\ l.len = s.len + 1 /\ h[l.array][l.len] = v
        /\ \A j \in 1 .. s.len : h[l.array][j] = heap[s.array][j]
        /\ (l.array = s.array /\ s.array # 0) \/ l.array = Len(heap) + 1
        /\ \A x \in 1 .. Len(heap) : \A j \in 1 .. Len(heap[x]) :
              x # l.array \/ j # l.len => h[x][j] = heap[x][j]
    BY <1>2, <1>3, <1>4, Appending
  <1> HIDE DEF l, h
  <1>6. conceptMap'[c] = l /\ \A x \in Concept \ {c} : conceptMap'[x] = conceptMap[x]
    BY <1>1, <1>2, <1>4
  <1>7. Missing \notin Slice /\ l # Missing
    BY <1>5, MissingAssumption
  (* Who shares the array of the longer slice shared that of the slice.    *)
  <1>8. ASSUME NEW x \in Concept \ {c}, conceptMap[x] # Missing, conceptMap[x].array = l.array,
               l.array # 0
        PROVE  Shares(conceptMap[c], conceptMap[x]) /\ l.array = s.array
    <2>1. conceptMap[x].array \in 1 .. Len(heap)
      BY <1>8, Entry
    <2>2. l.array = s.array /\ s.array # 0
      BY <1>3, <1>5, <1>8, <2>1
    <2>3. QED
      BY <1>4, <1>8, <2>2 DEF Shares
  <1>9. ASSUME NEW x \in Concept \ {c}, Shares(conceptMap'[x], l),
               NEW S \in SUBSET Concept, Closed(S)'
        PROVE  c \in S <=> x \in S
    <2>1. conceptMap[x] # Missing /\ conceptMap[x].array = l.array /\ l.array # 0
      BY <1>6, <1>9 DEF Shares
    <2>2. Shares(conceptMap[c], conceptMap[x])
      BY <1>8, <2>1
    <2>3. QED
      BY <1>2, <1>9, <1>r, <2>2 DEF TiedInv
  <1>10. TiedInv'
    <2>1. SUFFICES ASSUME NEW x \in Concept, NEW y \in Concept,
                          Shares(conceptMap'[x], conceptMap'[y]),
                          NEW S \in SUBSET Concept, Closed(S)'
                   PROVE  x \in S <=> y \in S
      BY DEF TiedInv, Shares
    <2>2. CASE x # c /\ y # c
      BY <1>6, <1>r, <2>1, <2>2 DEF TiedInv
    <2>3. CASE x = c /\ y # c
      <3>1. Shares(conceptMap'[y], l)
        BY <1>6, <2>1, <2>3 DEF Shares
      <3>2. QED
        BY <1>9, <2>1, <2>3, <3>1
    <2>4. CASE x # c /\ y = c
      <3>1. Shares(conceptMap'[x], l)
        BY <1>6, <2>1, <2>4
      <3>2. QED
        BY <1>9, <2>1, <2>4, <3>1
    <2>5. QED
      BY <2>2, <2>3, <2>4
  <1>11. OwnIDs'
    <2>1. SUFFICES ASSUME NEW x \in Concept, conceptMap'[x] # Missing,
                          NEW S \in SUBSET Concept, x \in S, Closed(S)',
                          NEW j \in 1 .. conceptMap'[x].len
                   PROVE  h[conceptMap'[x].array][j] \in GivenTo(S)'
      BY <1>1 DEF OwnIDs
    <2>2. Closed(S) /\ GivenTo(S) \subseteq GivenTo(S)' /\ (c \in S => v \in GivenTo(S)')
      BY <1>r, <2>1
    <2>3. CASE x = c
      <3>1. conceptMap'[x] = l /\ c \in S
        BY <1>6, <2>1, <2>3
      <3>2. CASE j = l.len
        BY <1>5, <2>2, <3>1, <3>2
      <3>3. CASE j # l.len
        <4>1. j \in 1 .. s.len /\ s.len \in Nat
          BY <1>4, <1>5, <3>1, <3>3 DEF Slice
        <4>2. s.array # 0
          BY <1>4, <4>1 DEF Within, Nil
        <4>3. heap[s.array][j] \in GivenTo(S)
          BY <1>2, <1>4, <2>1, <2>2, <3>1, <4>1, <4>2 DEF OwnIDs
        <4>4. QED
          BY <1>5, <2>2, <3>1, <4>1, <4>3
      <3>4. QED
        BY <3>2, <3>3
    <2>4. CASE x # c
      <3>1. conceptMap'[x] = conceptMap[x] /\ conceptMap[x] # Missing
        BY <1>6, <2>1, <2>4
      <3>2. /\ conceptMap[x] \in Slice /\ Within(conceptMap[x], heap)
            /\ conceptMap[x].array # 0 => conceptMap[x].array \in 1 .. Len(heap)
        BY <3>1, Entry
      <3>3. conceptMap[x].len # 0 /\ j \in 1 .. conceptMap[x].len
        BY <2>1, <3>1, <3>2 DEF Slice
      <3>4. conceptMap[x] # Nil
        BY <3>3 DEF Nil
      <3>5. conceptMap[x].array \in 1 .. Len(heap) 
        BY <1>3, <3>2, <3>4 DEF Within
      <3>6. heap[conceptMap[x].array] \in Seq(Element)
        BY <1>3, <3>5
      <3>7. j \in 1 .. Len(heap[conceptMap[x].array])
        BY <3>2, <3>3, <3>4, <3>6 DEF Within, Slice
      <3>8. CASE conceptMap[x].array = l.array /\ j = l.len
        <4>1. Shares(conceptMap[c], conceptMap[x])
          BY <1>8, <2>4, <3>1, <3>5, <3>8
        <4>2. c \in S
          BY <1>2, <2>1, <2>2, <4>1 DEF TiedInv
        <4>3. QED
          BY <1>5, <2>2, <3>1, <3>8, <4>2
      <3>9. CASE ~(conceptMap[x].array = l.array /\ j = l.len)
        <4>1. h[conceptMap[x].array][j] = heap[conceptMap[x].array][j]
          BY <1>5, <3>5, <3>7, <3>9
        <4>2. heap[conceptMap[x].array][j] \in GivenTo(S)
          BY <2>1, <2>2, <3>1, <3>3 DEF OwnIDs
        <4>3. QED
          BY <2>2, <3>1, <4>1, <4>2
      <3>10. QED
        BY <3>8, <3>9
    <2>5. QED
      BY <2>3, <2>4
  <1>12. QED
    BY <1>10, <1>11

(* The rows that append nothing: an entry is that of some name before, one  *)
(* with which it is in every closed set together, or has no elements.      *)
LEMMA TiedCopying ==
    ASSUME MapTypeOK, TiedInv, OwnIDs, done < Len(rows), done' = done + 1, rows' = rows,
           heap' = heap,
           \A x \in Concept : \/ conceptMap'[x] \in {Missing, Nil}
                              \/ \E y \in Concept :
                                    /\ conceptMap'[x] = conceptMap[y]
                                    /\ \A S \in SUBSET Concept : Closed(S)' => (x \in S <=> y \in S)
    PROVE  TiedInv' /\ OwnIDs'
  <1>1. \A S \in SUBSET Concept : Closed(S)' => Closed(S) /\ GivenTo(S) \subseteq GivenTo(S)'
    BY OneMoreRow
  <1>2. ASSUME NEW x \in Concept, NEW z \in Concept,
               Shares(conceptMap'[x], conceptMap'[z]),
               NEW S \in SUBSET Concept, Closed(S)'
        PROVE  x \in S <=> z \in S
    <2>1. conceptMap'[x] \notin {Missing, Nil} /\ conceptMap'[z] \notin {Missing, Nil}
      BY <1>2 DEF Shares, Nil
    <2>2. PICK y \in Concept : conceptMap'[x] = conceptMap[y] /\ (x \in S <=> y \in S)
      BY <1>2, <2>1
    <2>3. PICK w \in Concept : conceptMap'[z] = conceptMap[w] /\ (z \in S <=> w \in S)
      BY <1>2, <2>1
    <2>4. y \in S <=> w \in S
      BY <1>1, <1>2, <2>2, <2>3 DEF TiedInv
    <2>5. QED
      BY <2>2, <2>3, <2>4
  <1>3. TiedInv'
    BY <1>2 DEF TiedInv, Shares
  <1>4. ASSUME NEW x \in Concept, conceptMap'[x] # Missing,
               NEW S \in SUBSET Concept, x \in S, Closed(S)',
               NEW j \in 1 .. conceptMap'[x].len
        PROVE  heap[conceptMap'[x].array][j] \in GivenTo(S)'
    <2>1. conceptMap'[x] # Nil
      BY <1>4 DEF Nil
    <2>2. PICK y \in Concept : conceptMap'[x] = conceptMap[y] /\ (x \in S <=> y \in S)
      BY <1>4, <2>1
    <2>3. heap[conceptMap[y].array][j] \in GivenTo(S)
      BY <1>1, <1>4, <2>2 DEF OwnIDs
    <2>4. QED
      BY <1>1, <1>4, <2>2, <2>3
  <1>5. OwnIDs'
    BY <1>4 DEF OwnIDs
  <1>6. QED
    BY <1>3, <1>5

LEMMA TiedAddAlias ==
    ASSUME MapTypeOK, TiedInv, OwnIDs, AddAlias PROVE TiedInv' /\ OwnIDs'
  <1> DEFINE c == Row1.concept
             v == Row1.value
             m == Enter(c)
  <1>1. /\ done < Len(rows) /\ Row1.authority = "upp" /\ done' = done + 1
        /\ rows' = rows /\ heap' = heap /\ conceptMap' = Alias(m, Row1)
    BY DEF AddAlias, NextRow
  <1>2. c \in Concept /\ v \in Concept
    BY <1>1, NextRowType
  <1>3. conceptMap' = IF m[v] = Missing THEN [m EXCEPT ![v] = m[c]] ELSE m
    BY <1>1 DEF Alias
  <1>4. \A S \in SUBSET Concept : Closed(S)' => (c \in S <=> v \in S)
    BY <1>1, OneMoreRow
  <1> HIDE DEF c, v
  <1>5. /\ m \in [Concept -> Slice \cup {Missing}]
        /\ \A x \in Concept : m[x] = conceptMap[x] \/ m[x] = Nil
    BY <1>2, Entered
  <1> HIDE DEF m
  <1>6. ASSUME NEW x \in Concept, conceptMap'[x] \notin {Missing, Nil}
        PROVE  \E y \in Concept :
                  /\ conceptMap'[x] = conceptMap[y]
                  /\ \A S \in SUBSET Concept : Closed(S)' => (x \in S <=> y \in S)
    <2>1. CASE conceptMap'[x] = m[x]
      BY <1>5, <1>6, <2>1
    <2>2. CASE conceptMap'[x] # m[x]
      <3>1. x = v /\ conceptMap'[x] = m[c]
        BY <1>2, <1>3, <1>5, <2>2
      <3>2. m[c] = conceptMap[c]
        BY <1>2, <1>5, <1>6, <3>1
      <3>3. QED
        BY <1>2, <1>4, <3>1, <3>2
    <2>3. QED
      BY <2>1, <2>2
  <1>7. QED
    BY <1>1, <1>6, TiedCopying

LEMMA TiedOther ==
    ASSUME MapTypeOK, TiedInv, OwnIDs, OtherAuthority PROVE TiedInv' /\ OwnIDs'
  <1>1. /\ done < Len(rows) /\ done' = done + 1
        /\ rows' = rows /\ heap' = heap /\ conceptMap' = Enter(Row1.concept)
    BY DEF OtherAuthority, NextRow
  <1>2. Row1.concept \in Concept
    BY <1>1, NextRowType
  <1>3. \A x \in Concept : conceptMap'[x] = conceptMap[x] \/ conceptMap'[x] = Nil
    BY <1>1, <1>2, Entered
  <1>4. QED
    BY <1>1, <1>3, TiedCopying


-----------------------------------------------------------------------------
(* What the rows say depends on the rows alone: the same definitions of    *)
(* given rows r.                                                           *)
IsConceptIn(r, c, n) == \E k \in 1 .. n : r[k].concept = c
AliasRowIn(r, a, n) ==
    LET at == {k \in 1 .. n : /\ r[k].authority = "upp"
                              /\ r[k].value = a /\ r[k].concept # a}
    IN  IF at = {} THEN 0 ELSE CHOOSE k \in at : \A j \in at : k <= j
TmeIDsIn(r, c) ==
    LET ids[n \in 0 .. Len(r)] ==
            IF n = 0 THEN << >>
            ELSE IF r[n].concept = c /\ r[n].authority = "tme"
                 THEN Append(ids[n - 1], r[n].value)
                 ELSE ids[n - 1]
    IN  ids
SaidIn(r, c, n) ==
    IF IsConceptIn(r, c, n) THEN TmeIDsIn(r, c)[n]
    ELSE IF AliasRowIn(r, c, n) # 0
         THEN TmeIDsIn(r, r[AliasRowIn(r, c, n)].concept)[AliasRowIn(r, c, n)]
         ELSE Missing
TangledIn(r, n) == \E a \in Concept : AliasRowIn(r, a, n) # 0 /\ IsConceptIn(r, a, n)

LEMMA InRows ==
    ASSUME NEW c, NEW n
    PROVE  /\ IsConcept(c, n) <=> IsConceptIn(rows, c, n)
           /\ Said(c, n) = SaidIn(rows, c, n)
           /\ AliasRow(c, n) = AliasRowIn(rows, c, n)
           /\ Tangled(n) <=> TangledIn(rows, n)
  <1>1. /\ IsConcept(c, n) <=> IsConceptIn(rows, c, n)
    BY Zenon DEF IsConcept, IsConceptIn
  <1>2. AliasRow(c, n) = AliasRowIn(rows, c, n)
    BY Zenon DEF AliasRow, AliasRowIn
  <1>3. Said(c, n) = SaidIn(rows, c, n)
    BY Zenon DEF Said, SaidIn, AliasRow, AliasRowIn, IsConcept, IsConceptIn, TmeIDs, TmeIDsIn
  <1>4. Tangled(n) <=> TangledIn(rows, n)
    BY Zenon DEF Tangled, TangledIn, AliasRow, AliasRowIn, IsConcept, IsConceptIn
  <1>5. QED
    BY <1>1, <1>2, <1>3, <1>4

LEMMA InRowsLater ==
    ASSUME NEW c
    PROVE  /\ IsConcept(c, done)' <=> IsConceptIn(rows', c, done')
           /\ Said(c, done)' = SaidIn(rows', c, done')
           /\ AliasRow(c, done)' = AliasRowIn(rows', c, done')
           /\ Tangled(done)' <=> TangledIn(rows', done')
  <1>1. /\ IsConcept(c, done)' <=> IsConceptIn(rows', c, done')
    BY Zenon DEF IsConcept, IsConceptIn
  <1>2. AliasRow(c, done)' = AliasRowIn(rows', c, done')
    BY Zenon DEF AliasRow, AliasRowIn
  <1>3. Said(c, done)' = SaidIn(rows', c, done')
    BY Zenon DEF Said, SaidIn, AliasRow, AliasRowIn, IsConcept, IsConceptIn, TmeIDs, TmeIDsIn
  <1>4. Tangled(done)' <=> TangledIn(rows', done')
    BY Zenon DEF Tangled, TangledIn, AliasRow, AliasRowIn, IsConcept, IsConceptIn
  <1>5. QED
    BY <1>1, <1>2, <1>3, <1>4

LEMMA OneRowLater ==
    ASSUME rows' = rows, done' = done + 1
    PROVE  /\ Tangled(done)' <=> Tangled(done + 1)
           /\ \A c : /\ IsConcept(c, done)' <=> IsConcept(c, done + 1)
                     /\ Said(c, done)' = Said(c, done + 1)
                     /\ AliasRow(c, done)' = AliasRow(c, done + 1)
  BY InRows, InRowsLater, Zenon

(* EntriesInv and SharingInv after a row, in terms of the rows before it.  *)
LEMMA MapLater ==
    ASSUME rows' = rows, done' = done + 1,
           ~Tangled(done + 1) => \A x \in Concept :
                /\ conceptMap'[x] = Missing <=>
                       ~IsConcept(x, done + 1) /\ AliasRow(x, done + 1) = 0
                /\ conceptMap'[x] # Missing =>
                      /\ conceptMap'[x].len = Len(Said(x, done + 1))
                      /\ \A j \in 1 .. conceptMap'[x].len :
                            heap'[conceptMap'[x].array][j] = Said(x, done + 1)[j],
           ~Tangled(done + 1) => \A x, y \in Concept :
               (IsConcept(x, done + 1) /\ y # x /\ Shares(conceptMap'[x], conceptMap'[y]))
               => ~IsConcept(y, done + 1) /\ conceptMap'[y].len <= conceptMap'[x].len
    PROVE EntriesInv' /\ SharingInv'
  <1>1. EntriesInv'
    BY OneRowLater DEF EntriesInv, Holds
  <1>2. SharingInv'
    BY OneRowLater DEF SharingInv, Shares
  <1>3. QED
    BY <1>1, <1>2

-----------------------------------------------------------------------------
(* The ids an alias was given: those of its concept at the row that made   *)
(* it one.                                                                 *)
Given(x, n) == TmeIDs(rows[AliasRow(x, n)].concept)[AliasRow(x, n)]

LEMMA SaidIs ==
    ASSUME NEW x, NEW n
    PROVE  /\ IsConcept(x, n) => Said(x, n) = TmeIDs(x)[n]
           /\ ~IsConcept(x, n) /\ AliasRow(x, n) # 0 => Said(x, n) = Given(x, n)
           /\ ~IsConcept(x, n) /\ AliasRow(x, n) = 0 => Said(x, n) = Missing
  BY DEF Said, Given

HoldsIn(h, s, t) == s.len = Len(t) /\ \A j \in 1 .. s.len : h[s.array][j] = t[j]

(* The map when the concept of a row has its entry, before the row does     *)
(* anything else.                                                          *)
LEMMA EntryReady ==
    ASSUME MapTypeOK, EntriesInv, SharingInv, done < Len(rows), ~Tangled(done + 1)
    PROVE  LET c == Row1.concept
               m == Enter(c)
           IN  /\ ~Tangled(done) /\ AliasRow(c, done + 1) = 0 /\ IsConcept(c, done + 1)
               /\ m[c] # Missing /\ Holds(m[c], TmeIDs(c)[done])
               /\ \A x \in Concept :
                     /\ x # c => (IsConcept(x, done + 1) <=> IsConcept(x, done))
                     /\ m[x] = Missing <=>
                            ~IsConcept(x, done + 1) /\ AliasRow(x, done) = 0
                     /\ m[x] # Missing /\ ~IsConcept(x, done + 1) =>
                            Holds(m[x], Given(x, done))
                     /\ m[x] # Missing /\ IsConcept(x, done + 1) =>
                            Holds(m[x], TmeIDs(x)[done])
               /\ \A x, y \in Concept :
                     (IsConcept(x, done + 1) /\ y # x /\ Shares(m[x], m[y]))
                     => ~IsConcept(y, done + 1) /\ m[y].len <= m[x].len
  <1> DEFINE c == Row1.concept
             m == Enter(c)
             n == done
  <1>1. c \in Concept /\ n \in Nat /\ n \in 0 .. Len(rows) /\ c = rows[n + 1].concept
    BY NextRowType
  <1>2. rows \in Seq(Row)
    BY DEF MapTypeOK
  <1> HIDE DEF c
  <1>3. /\ m[c] # Missing /\ (m[c].array # 0 => conceptMap[c] = m[c])
        /\ \A x \in Concept : m[x] # conceptMap[x] => 
              x = c /\ m[x] = Nil /\ conceptMap[x] = Missing
    BY <1>1, Entered
  <1> HIDE DEF m, n
  <1>4. IsConcept(c, n + 1) /\ \A x \in Concept \ {c} : IsConcept(x, n + 1) <=> IsConcept(x, n)
    BY <1>1, OneMoreConcept
  <1>5. ~Tangled(n) /\ AliasRow(c, n + 1) = 0
    BY <1>1, <1>4, OnceTangled DEF Tangled, n
  <1>6. AliasRow(c, n) = 0
    BY <1>1, <1>5, OneMoreAlias
  <1>7. \A x \in Concept :
           /\ conceptMap[x] = Missing <=> ~IsConcept(x, n) /\ AliasRow(x, n) = 0
           /\ conceptMap[x] # Missing => Holds(conceptMap[x], Said(x, n))
    BY <1>5 DEF EntriesInv, n
  <1>8. Holds(m[c], TmeIDs(c)[n])
    <2>1. CASE conceptMap[c] = Missing
      <3>1. TmeIDs(c)[n] = << >>
        BY <1>1, <1>2, <1>7, <2>1, NoRowNoTmeID
      <3>2. m[c] = Nil
        BY <1>1, <1>3, <2>1
      <3>3. QED
        BY <3>1, <3>2 DEF Holds, Nil
    <2>2. CASE conceptMap[c] # Missing
      <3>1. IsConcept(c, n) /\ m[c] = conceptMap[c]
        BY <1>1, <1>3, <1>6, <1>7, <2>2
      <3>2. QED
        BY <1>1, <1>7, <2>2, <3>1, SaidIs
    <2>3. QED
      BY <2>1, <2>2
  <1>9. ASSUME NEW x \in Concept
        PROVE /\ x # c => (IsConcept(x, n + 1) <=> IsConcept(x, n))
              /\ m[x] = Missing <=> ~IsConcept(x, n + 1) /\ AliasRow(x, n) = 0
              /\ m[x] # Missing /\ ~IsConcept(x, n + 1) => Holds(m[x], Given(x, n))
              /\ m[x] # Missing /\ IsConcept(x, n + 1) => Holds(m[x], TmeIDs(x)[n])
    <2>1. CASE x = c
      BY <1>3, <1>4, <1>8, <2>1
    <2>2. CASE x # c
      <3>1. m[x] = conceptMap[x] /\ (IsConcept(x, n + 1) <=> IsConcept(x, n))
        BY <1>3, <1>4, <2>2
      <3>2. QED
        BY <1>7, <2>2, <3>1, SaidIs
    <2>3. QED
      BY <2>1, <2>2
  <1>10. ASSUME NEW x \in Concept, NEW y \in Concept,
               IsConcept(x, n + 1), y # x, Shares(m[x], m[y])
        PROVE ~IsConcept(y, n + 1) /\ m[y].len <= m[x].len
    <2>1. m[x] = conceptMap[x] /\ m[y] = conceptMap[y]
      BY <1>3, <1>10 DEF Shares, Nil
    <2>2. conceptMap[x] # Missing /\ conceptMap[y] # Missing
      BY <1>10, <2>1 DEF Shares
    <2>3. (IsConcept(c, n) \/ conceptMap[c] = Missing)
      BY <1>1, <1>6, <1>7
    <2>4. IsConcept(x, n)
      BY <1>4, <1>10, <2>2, <2>3
    <2>5. ~IsConcept(y, n) /\ m[y].len <= m[x].len
      BY <1>5, <1>10, <2>1, <2>4 DEF SharingInv, n
    <2>6. y # c
      BY <2>2, <2>3, <2>5
    <2>7. QED
      BY <1>4, <2>5, <2>6
  <1>11. QED
    BY <1>3, <1>4, <1>5, <1>8, <1>9, <1>10 DEF m, n, c

(* A TME row writes behind what any other entry reads.                     *)
LEMMA ExactAddTmeID ==
    ASSUME MapTypeOK, EntriesInv, SharingInv, AddTmeID PROVE EntriesInv' /\ SharingInv'
  <1> DEFINE c == Row1.concept
             v == Row1.value
             m == Enter(c)
             s == m[c]
             l == Longer(s)
             h == Write(s, v)
             n == done
  <1>1. /\ n < Len(rows) /\ Row1.authority = "tme" /\ done' = n + 1
        /\ rows' = rows /\ heap' = h /\ conceptMap' = [m EXCEPT ![c] = l]
    BY DEF AddTmeID, NextRow
  <1>2. /\ c \in Concept /\ v \in TmeID /\ n \in Nat /\ n + 1 \in 1 .. Len(rows)
        /\ Row1 = rows[n + 1]
    BY <1>1, NextRowType
  <1>3. heap \in Seq(Seq(Element)) /\ rows \in Seq(Row)
    BY DEF MapTypeOK, Element
  <1>t. SUFFICES ASSUME ~Tangled(n + 1)
                 PROVE  /\ \A x \in Concept :
                              /\ conceptMap'[x] = Missing <=>
                                    ~IsConcept(x, n + 1) /\ AliasRow(x, n + 1) = 0
                              /\ conceptMap'[x] # Missing =>
                                    HoldsIn(h, conceptMap'[x], Said(x, n + 1))
                        /\ \A x, y \in Concept :
                            (/\ IsConcept(x, n + 1) /\ y # x
                             /\ Shares(conceptMap'[x], conceptMap'[y]))
                            => ~IsConcept(y, n + 1) /\ conceptMap'[y].len <= conceptMap'[x].len
    BY <1>1, MapLater DEF HoldsIn
  <1>4. /\ AliasRow(c, n + 1) = 0 /\ IsConcept(c, n + 1)
        /\ Holds(s, TmeIDs(c)[n])
        /\ \A x \in Concept :
                     /\ x # c => (IsConcept(x, n + 1) <=> IsConcept(x, n))
                     /\ m[x] = Missing <=> ~IsConcept(x, n + 1) /\ AliasRow(x, n) = 0
                     /\ m[x] # Missing /\ ~IsConcept(x, n + 1) => Holds(m[x], Given(x, n))
                     /\ m[x] # Missing /\ IsConcept(x, n + 1) => Holds(m[x], TmeIDs(x)[n])
        /\ \A x, y \in Concept :
                     (IsConcept(x, n + 1) /\ y # x /\ Shares(m[x], m[y]))
                     => ~IsConcept(y, n + 1) /\ m[y].len <= m[x].len
    BY <1>1, <1>t, EntryReady
  <1>5. TmeIDs(c)[n] \in Seq(TmeID) /\ TmeIDs(c)[n + 1] = Append(TmeIDs(c)[n], v)
    BY <1>1, <1>2, <1>3, OneMoreTmeID
  <1>6. \A x : x # c => TmeIDs(x)[n + 1] = TmeIDs(x)[n]
    BY <1>2, <1>3, OneMoreTmeID
  <1>7. \A x : AliasRow(x, n + 1) = AliasRow(x, n)
    BY <1>1, <1>2, AliasRowType, OneMoreAlias DEF MakesAlias
  <1> HIDE DEF c, v, n
  <1>8. /\ m \in [Concept -> Slice \cup {Missing}] /\ s \in Slice /\ Within(s, heap)
        /\ s # Missing
        /\ \A x \in Concept : m[x] # Missing => m[x] \in Slice /\ Within(m[x], heap)
    BY <1>2, Entered
  <1> HIDE DEF m, s
  <1>9. /\ l \in Slice /\ l.len = s.len + 1 /\ h[l.array][l.len] = v
        /\ \A j \in 1 .. s.len : h[l.array][j] = heap[s.array][j]
        /\ (l.array = s.array /\ s.array # 0) \/ l.array = Len(heap) + 1
        /\ \A x \in 1 .. Len(heap) : \A j \in 1 .. Len(heap[x]) :
              x # l.array \/ j # l.len => h[x][j] = heap[x][j]
    BY <1>2, <1>3, <1>8, Appending
  <1> HIDE DEF l, h
  <1>10. conceptMap'[c] = l /\ \A x \in Concept \ {c} : conceptMap'[x] = m[x]
    BY <1>1, <1>2, <1>8
  <1>11. Missing \notin Slice /\ l # Missing
    BY <1>9, MissingAssumption
  (* A slice with elements lies in the arrays there were. *)
  <1>12. ASSUME NEW x \in Concept \ {c}, m[x] # Missing, m[x].array # 0 \/ m[x].len # 0
         PROVE  /\ m[x].array \in 1 .. Len(heap)
                /\ m[x].len \in 1 .. Len(heap[m[x].array])
                /\ m[x].array = l.array => Shares(s, m[x]) /\ l.array = s.array
    <2>1. m[x] \in Slice /\ Within(m[x], heap) /\ m[x] # Nil
      BY <1>8, <1>12 DEF Nil
    <2>2. m[x].array \in DOMAIN heap /\ m[x].len \in DOMAIN heap[m[x].array]
      BY <2>1 DEF Within
    <2>3. m[x].array \in 1 .. Len(heap)
      BY <1>3, <2>2
    <2>4. heap[m[x].array] \in Seq(Element)
      BY <1>3, <2>3
    <2>5. m[x].array = l.array => Shares(s, m[x]) /\ l.array = s.array
      BY <1>3, <1>8, <1>9, <1>12, <2>3 DEF Shares
    <2>6. QED
      BY <2>2, <2>3, <2>4, <2>5
  <1>13. ASSUME NEW x \in Concept
         PROVE  /\ conceptMap'[x] = Missing <=>
                       ~IsConcept(x, n + 1) /\ AliasRow(x, n + 1) = 0
                /\ conceptMap'[x] # Missing => HoldsIn(h, conceptMap'[x], Said(x, n + 1))
    <2>1. CASE x = c
      <3>1. Said(c, n + 1) = Append(TmeIDs(c)[n], v)
        BY <1>4, <1>5, SaidIs
      <3> DEFINE t == TmeIDs(c)[n]
      <3>2. t \in Seq(TmeID) /\ s.len = Len(t) /\ \A j \in 1 .. s.len : heap[s.array][j] = t[j]
        BY <1>4, <1>5 DEF Holds
      <3> HIDE DEF t
      <3>3. /\ l.len = Len(Append(t, v))
            /\ \A j \in 1 .. l.len : h[l.array][j] = Append(t, v)[j]
        BY <1>8, <1>9, <3>2 DEF Slice
      <3>4. HoldsIn(h, l, Said(c, n + 1))
        BY <3>1, <3>3 DEF HoldsIn, t
      <3>5. QED
        BY <1>4, <1>10, <1>11, <2>1, <3>4
    <2>2. CASE x # c
      <3>1. conceptMap'[x] = m[x]
        BY <1>10, <2>2
      <3>2. ASSUME m[x] # Missing PROVE HoldsIn(h, m[x], Said(x, n + 1))
        <4> DEFINE t == Said(x, n + 1)
        <4>1. Holds(m[x], t)
          BY <1>4, <1>6, <1>7, <2>2, <3>2, SaidIs DEF Given
        <4> HIDE DEF t
        <4>3. ASSUME NEW j \in 1 .. m[x].len PROVE h[m[x].array][j] = heap[m[x].array][j]
          <5>1. m[x] \in Slice
            BY <1>8, <3>2
          <5>2. m[x].len # 0 /\ m[x].len \in Nat
            BY <4>3, <5>1 DEF Slice
          <5>3. /\ m[x].array \in 1 .. Len(heap) /\ j \in 1 .. Len(heap[m[x].array])
            BY <1>12, <2>2, <3>2, <5>2
          <5>4. CASE m[x].array = l.array /\ j = l.len
            <6>1. Shares(s, m[x])
              BY <1>12, <2>2, <3>2, <5>2, <5>4
            <6>2. m[x].len <= s.len
              BY <1>2, <1>4, <2>2, <6>1 DEF s
            <6>3. QED
              BY <1>8, <1>9, <5>2, <5>4, <6>2 DEF Slice
          <5>5. QED
            BY <1>9, <5>3, <5>4
        <4>4. QED
          BY <4>1, <4>3 DEF Holds, HoldsIn, t
      <3>3. QED
        BY <1>4, <1>7, <2>2, <3>1, <3>2
    <2>3. QED
      BY <2>1, <2>2
  <1>14. ASSUME NEW x \in Concept, NEW y \in Concept,
                IsConcept(x, n + 1), y # x, Shares(conceptMap'[x], conceptMap'[y])
         PROVE  ~IsConcept(y, n + 1) /\ conceptMap'[y].len <= conceptMap'[x].len
    <2>1. CASE x # c /\ y # c
      BY <1>4, <1>10, <1>14, <2>1
    <2>2. CASE x = c
      <3>1. m[y] # Missing /\ m[y].array # 0 /\ m[y].array = l.array /\ conceptMap'[y] = m[y]
        BY <1>10, <1>14, <2>2 DEF Shares
      <3>2. Shares(s, m[y])
        BY <1>12, <1>14, <2>2, <3>1
      <3>3. ~IsConcept(y, n + 1) /\ m[y].len <= s.len
        BY <1>4, <1>14, <2>2, <3>2 DEF s
      <3>4. m[y].len \in Nat /\ s.len \in Nat
        BY <1>8, <3>1 DEF Slice
      <3>5. QED
        BY <1>9, <1>10, <2>2, <3>1, <3>3, <3>4
    <2>3. CASE y = c
      <3>1. m[x] # Missing /\ m[x].array # 0 /\ m[x].array = l.array
        BY <1>10, <1>14, <2>3 DEF Shares
      <3>2. Shares(s, m[x])
        BY <1>12, <1>14, <2>3, <3>1
      <3>3. Shares(m[x], m[c])
        BY <3>2 DEF Shares, s
      <3>4. QED
        BY <1>2, <1>4, <1>14, <2>3, <3>3
    <2>4. QED
      BY <2>1, <2>2, <2>3
  <1>15. QED
    BY <1>13, <1>14

LEMMA HoldsHere ==
    ASSUME NEW s, NEW t PROVE HoldsIn(heap, s, t) <=> Holds(s, t)
  BY DEF HoldsIn, Holds

(* A UPP row gives a new alias what its concept has; an alias that has an  *)
(* entry keeps it, which is that of an earlier UPP row.                    *)
LEMMA ExactAddAlias ==
    ASSUME MapTypeOK, EntriesInv, SharingInv, AddAlias PROVE EntriesInv' /\ SharingInv'
  <1> DEFINE c == Row1.concept
             v == Row1.value
             m == Enter(c)
             n == done
  <1>1. /\ n < Len(rows) /\ Row1.authority = "upp" /\ done' = n + 1
        /\ rows' = rows /\ heap' = heap /\ conceptMap' = Alias(m, Row1)
    BY DEF AddAlias, NextRow
  <1>2. /\ c \in Concept /\ v \in Concept /\ n \in Nat /\ n + 1 \in 1 .. Len(rows)
        /\ Row1 = rows[n + 1]
    BY <1>1, NextRowType
  <1>3. rows \in Seq(Row)
    BY DEF MapTypeOK
  <1>t. SUFFICES ASSUME ~Tangled(n + 1)
                 PROVE  /\ \A x \in Concept :
                              /\ conceptMap'[x] = Missing <=>
                                    ~IsConcept(x, n + 1) /\ AliasRow(x, n + 1) = 0
                              /\ conceptMap'[x] # Missing =>
                                    Holds(conceptMap'[x], Said(x, n + 1))
                        /\ \A x, y \in Concept :
                            (/\ IsConcept(x, n + 1) /\ y # x
                             /\ Shares(conceptMap'[x], conceptMap'[y]))
                            => ~IsConcept(y, n + 1) /\ conceptMap'[y].len <= conceptMap'[x].len
    BY <1>1, MapLater DEF Holds
  <1>4. /\ AliasRow(c, n + 1) = 0 /\ IsConcept(c, n + 1)
        /\ m[c] # Missing /\ Holds(m[c], TmeIDs(c)[n])
        /\ \A x \in Concept :
                     /\ x # c => (IsConcept(x, n + 1) <=> IsConcept(x, n))
                     /\ m[x] = Missing <=> ~IsConcept(x, n + 1) /\ AliasRow(x, n) = 0
                     /\ m[x] # Missing /\ ~IsConcept(x, n + 1) => Holds(m[x], Given(x, n))
                     /\ m[x] # Missing /\ IsConcept(x, n + 1) => Holds(m[x], TmeIDs(x)[n])
        /\ \A x, y \in Concept :
                     (IsConcept(x, n + 1) /\ y # x /\ Shares(m[x], m[y]))
                     => ~IsConcept(y, n + 1) /\ m[y].len <= m[x].len
    BY <1>1, <1>t, EntryReady
  <1>5. \A x : TmeIDs(x)[n + 1] = TmeIDs(x)[n]
    BY <1>1, <1>2, <1>3, OneMoreTmeID
  <1>6. \A x : AliasRow(x, n + 1) =
                  IF AliasRow(x, n) # 0 THEN AliasRow(x, n)
                  ELSE IF x = v /\ v # c THEN n + 1 ELSE 0
    BY <1>1, <1>2, OneMoreAlias DEF MakesAlias
  <1>7. conceptMap' = IF m[v] = Missing THEN [m EXCEPT ![v] = m[c]] ELSE m
    BY <1>1 DEF Alias
  <1>r. rows[n + 1].concept = c
    BY <1>2
  <1> HIDE DEF c, v, n
  <1>8. /\ m \in [Concept -> Slice \cup {Missing}] /\ m[c] \in Slice
    BY <1>2, Entered
  <1>9. v # c => ~IsConcept(v, n + 1)
    <2>1. v # c => AliasRow(v, n + 1) # 0
      BY <1>2, <1>6
    <2>2. QED
      BY <1>2, <1>t, <2>1 DEF Tangled
  <1> HIDE DEF m
  <1>10. \A x \in Concept : conceptMap'[x] = IF x = v /\ m[v] = Missing THEN m[c] ELSE m[x]
    BY <1>2, <1>7, <1>8
  <1>11. ASSUME NEW x \in Concept
         PROVE  /\ conceptMap'[x] = Missing <=>
                       ~IsConcept(x, n + 1) /\ AliasRow(x, n + 1) = 0
                /\ conceptMap'[x] # Missing => Holds(conceptMap'[x], Said(x, n + 1))
    <2>1. CASE x = v /\ m[v] = Missing
      <3>1. v # c /\ AliasRow(x, n + 1) = n + 1 /\ n + 1 # 0
        BY <1>2, <1>4, <1>6, <2>1
      <3>2. Said(x, n + 1) = TmeIDs(c)[n]
        BY <1>5, <1>9, <1>r, <2>1, <3>1, SaidIs DEF Given
      <3>3. QED
        BY <1>4, <1>10, <2>1, <3>1, <3>2
    <2>2. CASE ~(x = v /\ m[v] = Missing)
      <3>1. conceptMap'[x] = m[x]
        BY <1>10, <2>2
      <3>2. AliasRow(x, n + 1) = AliasRow(x, n)
        <4>1. CASE AliasRow(x, n) # 0
          BY <1>6, <4>1
        <4>2. CASE AliasRow(x, n) = 0
          <5>1. CASE x = v /\ v # c
            BY <1>2, <1>4, <1>9, <2>2, <4>2, <5>1
          <5>2. CASE ~(x = v /\ v # c)
            BY <1>6, <4>2, <5>2
          <5>3. QED
            BY <5>1, <5>2
        <4>3. QED
          BY <4>1, <4>2
      <3>3. QED
        BY <1>4, <1>5, <3>1, <3>2, SaidIs DEF Given
    <2>3. QED
      BY <2>1, <2>2
  <1>12. ASSUME NEW x \in Concept, NEW y \in Concept,
                IsConcept(x, n + 1), y # x, Shares(conceptMap'[x], conceptMap'[y])
         PROVE  ~IsConcept(y, n + 1) /\ conceptMap'[y].len <= conceptMap'[x].len
    <2>1. conceptMap'[x] = m[x]
      <3>1. x = v => v = c
        BY <1>9, <1>12
      <3>2. QED
        BY <1>4, <1>10, <3>1
    <2>2. CASE conceptMap'[y] = m[y]
      BY <1>4, <1>12, <2>1, <2>2
    <2>3. CASE conceptMap'[y] # m[y]
      <3>1. y = v /\ m[v] = Missing /\ conceptMap'[y] = m[c] /\ v # c
        BY <1>4, <1>10, <2>3
      <3>2. x = c
        <4>1. SUFFICES ASSUME x # c PROVE FALSE
          OBVIOUS
        <4>2. Shares(m[x], m[c])
          BY <1>12, <2>1, <3>1
        <4>3. QED
          BY <1>2, <1>4, <1>12, <4>1, <4>2
      <3>3. m[c].len \in Nat
        BY <1>8 DEF Slice
      <3>4. QED
        BY <1>9, <2>1, <3>1, <3>2, <3>3
    <2>4. QED
      BY <2>2, <2>3
  <1>13. QED
    BY <1>11, <1>12

LEMMA ExactOther ==
    ASSUME MapTypeOK, EntriesInv, SharingInv, OtherAuthority PROVE EntriesInv' /\ SharingInv'
  <1> DEFINE c == Row1.concept
             m == Enter(c)
             n == done
  <1>1. /\ n < Len(rows) /\ Row1.authority = "other" /\ done' = n + 1
        /\ rows' = rows /\ heap' = heap /\ conceptMap' = m
    BY DEF OtherAuthority, NextRow
  <1>2. /\ c \in Concept /\ n \in Nat /\ n + 1 \in 1 .. Len(rows)
        /\ Row1 = rows[n + 1]
    BY <1>1, NextRowType
  <1>3. rows \in Seq(Row)
    BY DEF MapTypeOK
  <1>t. SUFFICES ASSUME ~Tangled(n + 1)
                 PROVE  /\ \A x \in Concept :
                              /\ conceptMap'[x] = Missing <=>
                                    ~IsConcept(x, n + 1) /\ AliasRow(x, n + 1) = 0
                              /\ conceptMap'[x] # Missing =>
                                    Holds(conceptMap'[x], Said(x, n + 1))
                        /\ \A x, y \in Concept :
                            (/\ IsConcept(x, n + 1) /\ y # x
                             /\ Shares(conceptMap'[x], conceptMap'[y]))
                            => ~IsConcept(y, n + 1) /\ conceptMap'[y].len <= conceptMap'[x].len
    BY <1>1, MapLater DEF Holds
  <1>4. /\ \A x \in Concept :
                     /\ m[x] = Missing <=> ~IsConcept(x, n + 1) /\ AliasRow(x, n) = 0
                     /\ m[x] # Missing /\ ~IsConcept(x, n + 1) => Holds(m[x], Given(x, n))
                     /\ m[x] # Missing /\ IsConcept(x, n + 1) => Holds(m[x], TmeIDs(x)[n])
        /\ \A x, y \in Concept :
                     (IsConcept(x, n + 1) /\ y # x /\ Shares(m[x], m[y]))
                     => ~IsConcept(y, n + 1) /\ m[y].len <= m[x].len
    BY <1>1, <1>t, EntryReady
  <1>5. \A x : TmeIDs(x)[n + 1] = TmeIDs(x)[n]
    BY <1>1, <1>2, <1>3, OneMoreTmeID
  <1>6. \A x : AliasRow(x, n + 1) = AliasRow(x, n)
    BY <1>1, <1>2, AliasRowType, OneMoreAlias DEF MakesAlias
  <1> HIDE DEF c, n, m
  <1>7. QED
    BY <1>1, <1>4, <1>5, <1>6, SaidIs DEF Given

-----------------------------------------------------------------------------
MapInv == MapTypeOK /\ TiedInv /\ OwnIDs /\ EntriesInv /\ SharingInv

LEMMA MapInvInit ==
    ASSUME InitMap, rows \in Seq(Row) PROVE MapInv
  <1>1. MapTypeOK
    BY MapTypeInit
  <1>2. \A c \in Concept : conceptMap[c] = Missing
    BY DEF InitMap
  <1>3. \A c : ~IsConcept(c, 0)
    BY DEF IsConcept
  <1>4. \A c : AliasRow(c, 0) = 0
    BY AliasRowType
  <1>5. TiedInv /\ OwnIDs
    BY <1>2 DEF TiedInv, OwnIDs, Shares
  <1>6. EntriesInv /\ SharingInv
    BY <1>2, <1>3, <1>4 DEF EntriesInv, SharingInv, Shares, InitMap
  <1>7. QED
    BY <1>1, <1>5, <1>6 DEF MapInv

LEMMA MapInvStep ==
    ASSUME MapInv, TransformToConceptModel PROVE MapInv'
  <1> USE DEF MapInv
  <1>1. CASE AddTmeID
    BY <1>1, TypeAddTmeID, TiedAddTmeID, ExactAddTmeID
  <1>2. CASE AddAlias
    BY <1>2, TypeAddAlias, TiedAddAlias, ExactAddAlias
  <1>3. CASE OtherAuthority
    BY <1>3, TypeOther, TiedOther, ExactOther
  <1>4. QED
    BY <1>1, <1>2, <1>3 DEF TransformToConceptModel

(* What is read of an entry is what it holds, and was set.                 *)
LEMMA ReadEntry ==
    ASSUME MapTypeOK, OwnIDs, NEW c \in Concept, conceptMap[c] # Missing
    PROVE  /\ Read(c) \in Seq(TmeID) /\ Read(c) # Missing
           /\ Len(Read(c)) = conceptMap[c].len
           /\ \A j \in 1 .. conceptMap[c].len : Read(c)[j] = heap[conceptMap[c].array][j]
  <1> DEFINE s == conceptMap[c]
             e == heap[s.array]
  <1>1. heap \in Seq(Seq(Element)) /\ rows \in Seq(Row) /\ done \in 0 .. Len(rows)
    BY DEF MapTypeOK, Element
  <1>2. s \in Slice /\ Within(s, heap)
    BY Entry
  <1>3. CASE s = Nil
    <2>1. Read(c) = << >>
      BY <1>3, MissingAssumption DEF Read
    <2>2. << >> \in Seq(TmeID) /\ Missing \notin Seq(TmeID)
      BY MissingAssumption
    <2>3. s.len = 0 /\ Len(Read(c)) = 0
      BY <1>3, <2>1 DEF Nil
    <2> HIDE DEF s
    <2>4. Read(c) \in Seq(TmeID) /\ Read(c) # Missing
      BY <2>1, <2>2
    <2>5. QED
      BY <2>3, <2>4 DEF s
  <1>4. CASE s # Nil
    <2>1. s.array \in DOMAIN heap /\ s.len \in DOMAIN e
      BY <1>2, <1>4 DEF Within
    <2>2. s.array \in 1 .. Len(heap)
      BY <1>1, <2>1
    <2>3. e \in Seq(Element)
      BY <1>1, <2>2
    <2>4. s.len \in 1 .. Len(e)
      BY <2>1, <2>3
    <2>5. Read(c) = SubSeq(e, 1, s.len)
      BY <1>4 DEF Read
    <2>6. ASSUME NEW j \in 1 .. done
          PROVE  /\ rows[j].concept \in Concept
                 /\ rows[j].authority = "tme" => rows[j].value \in TmeID
                 /\ rows[j].authority = "upp" => rows[j].value \in Concept
      <3>1. rows[j] \in Row
        BY <1>1
      <3>2. QED
        BY <3>1, RowType
    <2>7. Closed(Concept) /\ GivenTo(Concept) \subseteq TmeID
      BY <2>6 DEF Closed, UppRows, GivenTo
    <2>8. \A j \in 1 .. s.len : e[j] \in TmeID
      BY <2>7 DEF OwnIDs
    <2> HIDE DEF e, s
    <2>9. /\ SubSeq(e, 1, s.len) \in Seq(TmeID) /\ Len(SubSeq(e, 1, s.len)) = s.len
          /\ \A j \in 1 .. s.len : SubSeq(e, 1, s.len)[j] = e[j]
      BY <2>3, <2>4, <2>8
    <2>10. QED
      BY <2>5, <2>9, MissingAssumption DEF e, s
  <1>5. QED
    BY <1>3, <1>4

LEMMA SaidType ==
    ASSUME rows \in Seq(Row), NEW c, NEW n \in 0 .. Len(rows)
    PROVE  /\ Said(c, n) \in Seq(TmeID) \cup {Missing}
           /\ Said(c, n) = Missing <=> ~IsConcept(c, n) /\ AliasRow(c, n) = 0
  <1>1. Missing \notin Seq(TmeID) /\ n \in Nat
    BY MissingAssumption
  <1>2. AliasRow(c, n) \in 0 .. Len(rows)
    BY <1>1, AliasRowType
  <1>3. CASE IsConcept(c, n)
    <2>1. Said(c, n) = TmeIDs(c)[n] /\ TmeIDs(c)[n] \in Seq(TmeID)
      BY <1>3, SaidIs, TmeIDsRun
    <2>2. QED
      BY <1>1, <1>3, <2>1
  <1>4. CASE ~IsConcept(c, n) /\ AliasRow(c, n) # 0
    <2>1. Said(c, n) = Given(c, n)
      BY <1>4, SaidIs
    <2>2. Given(c, n) \in Seq(TmeID)
      BY <1>2, TmeIDsRun DEF Given
    <2>3. QED
      BY <1>1, <1>4, <2>1, <2>2
  <1>5. CASE ~IsConcept(c, n) /\ AliasRow(c, n) = 0
    BY <1>5, SaidIs
  <1>6. QED
    BY <1>3, <1>4, <1>5

(* Entries are exact when the invariant holds.                             *)
LEMMA EntriesFromInv ==
    ASSUME MapInv PROVE EntriesExact
  <1> USE DEF MapInv
  <1>1. SUFFICES ASSUME ~Tangled(done), NEW c \in Concept PROVE Read(c) = Said(c, done)
    BY DEF EntriesExact
  <1>2. rows \in Seq(Row) /\ done \in 0 .. Len(rows)
    BY DEF MapTypeOK
  <1>3. /\ conceptMap[c] = Missing <=> ~IsConcept(c, done) /\ AliasRow(c, done) = 0
        /\ conceptMap[c] # Missing => Holds(conceptMap[c], Said(c, done))
    BY <1>1 DEF EntriesInv
  <1>4. CASE conceptMap[c] = Missing
    BY <1>3, <1>4, SaidIs DEF Read
  <1>5. CASE conceptMap[c] # Missing
    <2>1. Said(c, done) \in Seq(TmeID)
      BY <1>2, <1>3, <1>5, SaidType
    <2>2. Read(c) \in Seq(TmeID) /\ Len(Read(c)) = Len(Said(c, done))
      BY <1>3, <1>5, ReadEntry DEF Holds
    <2>3. \A j \in 1 .. Len(Read(c)) : Read(c)[j] = Said(c, done)[j]
      BY <1>3, <1>5, ReadEntry DEF Holds
    <2>4. QED
      BY <2>1, <2>2, <2>3
  <1>6. QED
    BY <1>4, <1>5

(* No ids are foreign when the invariant holds.                            *)
LEMMA NoForeignFromInv ==
    ASSUME MapInv PROVE NoForeignIDs
  <1> USE DEF MapInv
  <1>1. SUFFICES ASSUME NEW c \in Concept, Read(c) # Missing,
                        NEW S \in SUBSET (Linked \cup {c}), c \in S, Closed(S)
                 PROVE  ToSet(Read(c)) \subseteq GivenTo(S)
    BY DEF NoForeignIDs
  <1>2. rows \in Seq(Row) /\ done \in 0 .. Len(rows)
    BY DEF MapTypeOK
  <1>3. ASSUME NEW j \in UppRows PROVE rows[j].concept \in Concept /\ rows[j].value \in Concept
    <2>1. rows[j] \in Row /\ rows[j].authority = "upp"
      BY <1>2, <1>3 DEF UppRows
    <2>2. QED
      BY <2>1, RowType
  <1>4. S \in SUBSET Concept
    BY <1>3 DEF Linked
  <1>5. conceptMap[c] # Missing
    BY <1>1 DEF Read
  <1>6. /\ Read(c) \in Seq(TmeID) /\ Len(Read(c)) = conceptMap[c].len
        /\ \A j \in 1 .. conceptMap[c].len : Read(c)[j] = heap[conceptMap[c].array][j]
    BY <1>5, ReadEntry
  <1>7. \A j \in 1 .. conceptMap[c].len : heap[conceptMap[c].array][j] \in GivenTo(S)
    BY <1>1, <1>4, <1>5 DEF OwnIDs
  <1>8. QED
    BY <1>6, <1>7 DEF ToSet

-----------------------------------------------------------------------------
(* The same of a set of indices.                                           *)
LEMMA UpTo ==
    ASSUME NEW N \in Nat, NEW S, 0 \in S, \A n \in 1 .. N : n - 1 \in S => n \in S
    PROVE  \A n \in 0 .. N : n \in S
  <1> DEFINE t == [n \in Nat |-> n]
  <1>1. t[0] \in S
    OBVIOUS
  <1>2. \A n \in 1 .. N : t[n - 1] \in S => t[n] \in S
    OBVIOUS
  <1> HIDE DEF t
  <1>3. \A n \in 0 .. N : t[n] \in S
    BY <1>1, <1>2, Stays
  <1>4. QED
    BY <1>3 DEF t

(* appendIfNotExists adds an element once.                                 *)
LEMMA AppendedOnce ==
    ASSUME NEW E, NEW s \in Seq(E), NEW e \in E
    PROVE  /\ AppendIfNotExists(s, e) \in Seq(E)
           /\ ToSet(AppendIfNotExists(s, e)) = ToSet(s) \cup {e}
           /\ IsInjective(s) => IsInjective(AppendIfNotExists(s, e))
  <1>1. CASE \E j \in DOMAIN s : s[j] = e
    BY <1>1 DEF AppendIfNotExists, ToSet
  <1>2. CASE ~(\E j \in DOMAIN s : s[j] = e)
    <2> DEFINE r == Append(s, e)
    <2>1. AppendIfNotExists(s, e) = r
      BY <1>2 DEF AppendIfNotExists
    <2>2. /\ r \in Seq(E) /\ Len(r) = Len(s) + 1 /\ r[Len(s) + 1] = e
          /\ \A j \in 1 .. Len(s) : r[j] = s[j]
          /\ DOMAIN r = 1 .. Len(s) + 1 /\ DOMAIN s = 1 .. Len(s) /\ Len(s) \in Nat
      OBVIOUS
    <2> HIDE DEF r
    <2>3. ToSet(r) = ToSet(s) \cup {e}
      <3>1. ASSUME NEW j \in DOMAIN r PROVE r[j] \in ToSet(s) \cup {e}
        BY <2>2 DEF ToSet
      <3>2. ASSUME NEW j \in DOMAIN s PROVE s[j] \in ToSet(r)
        BY <2>2 DEF ToSet
      <3>3. e \in ToSet(r)
        BY <2>2 DEF ToSet
      <3>4. QED
        BY <3>1, <3>2, <3>3 DEF ToSet
    <2>4. ASSUME IsInjective(s), NEW j \in DOMAIN r, NEW k \in DOMAIN r, r[j] = r[k] PROVE j = k
      BY <1>2, <2>2, <2>4 DEF IsInjective
    <2>5. QED
      BY <2>1, <2>2, <2>3, <2>4 DEF IsInjective
  <1>3. QED
    BY <1>1, <1>2

(* The recursion of PrepareElasticField.                                   *)
Appends(base, N, ids) ==
    CHOOSE field : field = [n \in 0 .. N |->
        IF n = 0 THEN base ELSE AppendIfNotExists(field[n - 1], ids[n])]

Appended(D, base, N, ids) ==
    LET t == Appends(base, N, ids)
    IN  /\ t[0] = base
        /\ \A n \in 0 .. N : t[n] \in D
        /\ \A n \in 1 .. N : t[n] = AppendIfNotExists(t[n - 1], ids[n])

LEMMA AppendRun ==
    ASSUME NEW D, NEW base \in D, NEW N \in Nat, NEW ids
    PROVE  (\A n \in 1 .. N : \A r \in D : AppendIfNotExists(r, ids[n]) \in D)
           => Appended(D, base, N, ids)
  <1> DEFINE step == [n \in 1 .. N |-> [r \in D |-> AppendIfNotExists(r, ids[n])]]
             Body(g, n) == IF n = 0 THEN base ELSE AppendIfNotExists(g[n - 1], ids[n])
             t == Appends(base, N, ids)
  <1>1. ASSUME \A n \in 1 .. N : \A r \in D : AppendIfNotExists(r, ids[n]) \in D
        PROVE  /\ t[0] = base
               /\ \A n \in 0 .. N : t[n] \in D
               /\ \A n \in 1 .. N : t[n] = AppendIfNotExists(t[n - 1], ids[n])
    <2>1. step \in [1 .. N -> [D -> D]]
      BY <1>1
    <2> HIDE DEF step
    <2>2. PICK g \in [0 .. N -> D] :
             g[0] = base /\ \A n \in 1 .. N : g[n] = step[n][g[n - 1]]
      BY <2>1, Run
    <2>3. ASSUME NEW n \in 0 .. N PROVE g[n] = Body(g, n)
      <3>1. CASE n # 0
        <4>1. n - 1 \in 0 .. N /\ n \in 1 .. N
          BY <3>1
        <4>2. g[n - 1] \in D
          BY <2>2, <4>1
        <4>3. QED
          BY <2>2, <3>1, <4>1, <4>2 DEF step
      <3>2. QED
        BY <2>2, <3>1
    <2>4. g = [n \in 0 .. N |-> Body(g, n)]
      <3> HIDE DEF Body
      <3>1. QED
        BY <2>2, <2>3
    <2>5. t = [n \in 0 .. N |-> Body(t, n)]
      BY <2>4, Zenon DEF Appends
    <2> HIDE DEF Body, t
    <2>6. ASSUME NEW n \in 0 .. N PROVE t[n] = Body(t, n)
      <3>1. [k \in 0 .. N |-> Body(t, k)][n] = Body(t, n)
        OBVIOUS
      <3>2. QED
        BY <2>5, <3>1, Zenon
    <2>7. t[0] = base
      BY <2>6 DEF Body
    <2>8. ASSUME NEW n \in 1 .. N PROVE t[n] = AppendIfNotExists(t[n - 1], ids[n])
      BY <2>6 DEF Body
    <2>9. \A n \in 0 .. N : t[n] \in D
      BY <1>1, <2>7, <2>8, Stays
    <2>10. QED
      BY <2>7, <2>8, <2>9
  <1> HIDE DEF t
  <1>2. QED
    BY <1>1 DEF t, Appended

(* prepareElasticField adds each identifier once.                          *)
LEMMA Prepared ==
    ASSUME NEW E, NEW s \in Seq(E), NEW ids \in Seq(E)
    PROVE  LET r == PrepareElasticField(s, ids)
           IN  /\ r \in Seq(E) /\ ToSet(r) = ToSet(s) \cup ToSet(ids)
               /\ IsInjective(s) => IsInjective(r)
  <1> DEFINE N == Len(ids)
  <1>0. N \in Nat /\ DOMAIN ids = 1 .. N /\ \A n \in 1 .. N : ids[n] \in E
    OBVIOUS
  <1>1. ASSUME NEW n \in 1 .. N, NEW r \in Seq(E)
        PROVE  /\ AppendIfNotExists(r, ids[n]) \in Seq(E)
               /\ ToSet(AppendIfNotExists(r, ids[n])) = ToSet(r) \cup {ids[n]}
               /\ IsInjective(r) => IsInjective(AppendIfNotExists(r, ids[n]))
    <2>1. r \in Seq(E) /\ ids[n] \in E
      BY <1>0
    <2>2. QED
      BY <2>1, AppendedOnce, Zenon
  <1> DEFINE t == Appends(s, N, ids)
             D == Seq(E)
  <1>r. PrepareElasticField(s, ids) = t[N]
    BY Zenon DEF PrepareElasticField, Appends
  <1>2. /\ t[0] = s
        /\ \A n \in 0 .. N : t[n] \in D
        /\ \A n \in 1 .. N : t[n] = AppendIfNotExists(t[n - 1], ids[n])
    <2>1. s \in D /\ N \in Nat
      OBVIOUS
    <2>2. \A n \in 1 .. N : \A r \in D : AppendIfNotExists(r, ids[n]) \in D
      BY <1>1
    <2> HIDE DEF D, N
    <2>3. Appended(D, s, N, ids)
      BY <2>1, <2>2, AppendRun
    <2>4. QED
      BY <2>3 DEF Appended
  <1> HIDE DEF t
  <1> DEFINE Good(n) == /\ ToSet(t[n]) = ToSet(s) \cup {ids[j] : j \in 1 .. n}
                        /\ IsInjective(s) => IsInjective(t[n])
             S == {n \in Nat : Good(n)}
  <1> HIDE DEF N
  <1>3. 0 \in S
    BY <1>2
  <1>4. ASSUME NEW n \in 1 .. N, n - 1 \in S PROVE n \in S
    <2>1. n \in Nat /\ n - 1 \in 0 .. N /\ 1 .. n = 1 .. (n - 1) \cup {n}
      BY <1>0
    <2>2. t[n - 1] \in Seq(E) /\ t[n] = AppendIfNotExists(t[n - 1], ids[n])
      BY <1>2, <2>1
    <2>3. ToSet(t[n]) = ToSet(t[n - 1]) \cup {ids[n]}
      BY <1>1, <2>2, Zenon
    <2>4. IsInjective(t[n - 1]) => IsInjective(t[n])
      BY <1>1, <2>2, Zenon
    <2>5. {ids[j] : j \in 1 .. n} = {ids[j] : j \in 1 .. (n - 1)} \cup {ids[n]}
      BY <2>1
    <2>6. QED
      BY <1>4, <2>1, <2>3, <2>4, <2>5
  <1> HIDE DEF S
  <1>5. \A n \in 0 .. N : n \in S
    BY <1>0, <1>3, <1>4, UpTo, Zenon
  <1>6. N \in 0 .. N
    BY <1>0
  <1>7. ToSet(t[N]) = ToSet(s) \cup ToSet(ids) /\ (IsInjective(s) => IsInjective(t[N]))
    BY <1>0, <1>5, <1>6 DEF S, ToSet
  <1>8. QED
    BY <1>2, <1>6, <1>7, <1>r

(* The recursion of LookedUp.                                              *)
Kept(list, N) ==
    CHOOSE anns : anns = [k \in 0 .. N |->
        IF k = 0 THEN << >>
        ELSE IF IsLookedUp(list[k]) THEN Append(anns[k - 1], list[k])
        ELSE anns[k - 1]]

KeptOnes(D, list, N) ==
    \A n \in 0 .. N : Kept(list, N)[n] \in D

LEMMA KeepRun ==
    ASSUME NEW D, << >> \in D, NEW N \in Nat, NEW list
    PROVE  (\A n \in 1 .. N : \A r \in D : IsLookedUp(list[n]) => Append(r, list[n]) \in D)
           => KeptOnes(D, list, N)
  <1> DEFINE Step(r, n) == IF IsLookedUp(list[n]) THEN Append(r, list[n]) ELSE r
             step == [n \in 1 .. N |-> [r \in D |-> Step(r, n)]]
             base == << >>
             Body(g, n) == IF n = 0 THEN base ELSE Step(g[n - 1], n)
             t == Kept(list, N)
  <1>1. ASSUME \A n \in 1 .. N : \A r \in D : IsLookedUp(list[n]) => Append(r, list[n]) \in D
        PROVE  \A n \in 0 .. N : t[n] \in D
    <2>0. \A n \in 1 .. N : \A r \in D : Step(r, n) \in D
      BY <1>1
    <2>1. step \in [1 .. N -> [D -> D]] /\ base \in D
      <3> HIDE DEF Step
      <3>1. QED
        BY <2>0
    <2> HIDE DEF step, base
    <2>2. PICK g \in [0 .. N -> D] :
             g[0] = base /\ \A n \in 1 .. N : g[n] = step[n][g[n - 1]]
      BY <2>1, Run
    <2>3. ASSUME NEW n \in 0 .. N PROVE g[n] = Body(g, n)
      <3> HIDE DEF Step
      <3>1. CASE n # 0
        <4>1. n - 1 \in 0 .. N /\ n \in 1 .. N
          BY <3>1
        <4>2. g[n - 1] \in D
          BY <2>2, <4>1
        <4>3. QED
          BY <2>2, <3>1, <4>1, <4>2 DEF step
      <3>2. QED
        BY <2>2, <3>1
    <2>4. g = [n \in 0 .. N |-> Body(g, n)]
      <3> HIDE DEF Body
      <3>1. QED
        BY <2>2, <2>3
    <2>5. t = [n \in 0 .. N |-> Body(t, n)]
      BY <2>4, Zenon DEF Kept, base
    <2> HIDE DEF Body, t, Step
    <2>6. ASSUME NEW n \in 0 .. N PROVE t[n] = Body(t, n)
      <3>1. [k \in 0 .. N |-> Body(t, k)][n] = Body(t, n)
        OBVIOUS
      <3>2. QED
        BY <2>5, <3>1, Zenon
    <2>7. t[0] \in D
      BY <2>1, <2>6 DEF Body
    <2>8. ASSUME NEW n \in 1 .. N PROVE t[n] = Step(t[n - 1], n)
      BY <2>6 DEF Body
    <2>9. \A n \in 0 .. N : t[n] \in D
      BY <2>0, <2>7, <2>8, Stays
    <2>10. QED
      BY <2>9
  <1> HIDE DEF t
  <1>2. QED
    BY <1>1 DEF t, KeptOnes

(* Nothing that is ignored is looked up.                                   *)
LEMMA LookedUpType ==
    ASSUME NEW list \in Seq(Annotation)
    PROVE  LookedUp(list) \in Seq({a \in Annotation : IsLookedUp(a)})
  <1> DEFINE N == Len(list)
             D == Seq({a \in Annotation : IsLookedUp(a)})
  <1>1. N \in Nat /\ << >> \in D
    OBVIOUS
  <1>2. \A n \in 1 .. N : \A r \in D : IsLookedUp(list[n]) => Append(r, list[n]) \in D
    OBVIOUS
  <1>3. LookedUp(list) = Kept(list, N)[N]
    BY Zenon DEF LookedUp, Kept
  <1> HIDE DEF N, D
  <1>4. KeptOnes(D, list, N)
    BY <1>1, <1>2, KeepRun
  <1>5. LookedUp(list) \in D
    BY <1>1, <1>3, <1>4 DEF KeptOnes
  <1>6. QED
    BY <1>5 DEF D

-----------------------------------------------------------------------------
(* The fields: what an annotation brings to which.                         *)

Model == [Field -> [names : Seq(Nat), ids : Seq(Identifier)]]

Clean(m) == \A f \in Field : IsInjective(m[f].names) /\ IsInjective(m[f].ids)

(* In m2 the label and the identifiers of S have come to the field f of m. *)
Brought(m, m2, f, label, S) ==
    /\ ToSet(m2[f].names) = ToSet(m[f].names) \cup {label}
    /\ ToSet(m2[f].ids) = ToSet(m[f].ids) \cup S

(* Add brings the label and the identifiers to the one field.              *)
LEMMA AddGives ==
    ASSUME NEW m \in Model, NEW f \in Field, NEW label \in Nat, NEW ids \in Seq(Identifier)
    PROVE  /\ Add(m, f, label, ids) \in Model
           /\ Clean(m) => Clean(Add(m, f, label, ids))
           /\ Brought(m, Add(m, f, label, ids), f, label, ToSet(ids))
           /\ \A g \in Field : g # f => Add(m, f, label, ids)[g] = m[g]
  <1> DEFINE m2 == Add(m, f, label, ids)
             names == AppendIfNotExists(m[f].names, label)
             list == PrepareElasticField(m[f].ids, ids)
  <1>1. m[f].names \in Seq(Nat) /\ m[f].ids \in Seq(Identifier)
    BY DEF Model
  <1>2. /\ names \in Seq(Nat) /\ ToSet(names) = ToSet(m[f].names) \cup {label}
        /\ IsInjective(m[f].names) => IsInjective(names)
    <2> DEFINE E == Nat
               s == m[f].names
    <2>1. s \in Seq(E) /\ label \in E
      BY <1>1
    <2> HIDE DEF E, s
    <2>2. /\ AppendIfNotExists(s, label) \in Seq(E)
          /\ ToSet(AppendIfNotExists(s, label)) = ToSet(s) \cup {label}
          /\ IsInjective(s) => IsInjective(AppendIfNotExists(s, label))
      BY <2>1, AppendedOnce, Zenon
    <2>3. QED
      BY <2>2 DEF E, s
  <1>3. /\ list \in Seq(Identifier) /\ ToSet(list) = ToSet(m[f].ids) \cup ToSet(ids)
        /\ IsInjective(m[f].ids) => IsInjective(list)
    BY <1>1, Prepared, Zenon
  <1>4. m2 = [m EXCEPT ![f] = [names |-> names, ids |-> list]]
    BY DEF Add
  <1> HIDE DEF m2, names, list
  <1>5. /\ m2 \in Model /\ m2[f] = [names |-> names, ids |-> list]
        /\ \A g \in Field : g # f => m2[g] = m[g]
    BY <1>2, <1>3, <1>4 DEF Model
  <1>6. Clean(m) => Clean(m2)
    BY <1>2, <1>3, <1>5 DEF Clean
  <1>7. Brought(m, m2, f, label, ToSet(ids))
    BY <1>2, <1>3, <1>5 DEF Brought
  <1>8. QED
    BY <1>5, <1>6, <1>7 DEF m2

(* The identifier looked for is one of the list.                           *)
LEMMA CmrIDIn ==
    ASSUME NEW ids \in Seq(Identifier), NEW taxonomy, HasCmrID(taxonomy, ids)
    PROVE  CmrID(taxonomy, ids) \in ToSet(ids)
  <1> DEFINE S == At(taxonomy, ids)
  <1>1. S \in SUBSET Nat /\ S # {} /\ S \subseteq DOMAIN ids
    BY DEF At, HasCmrID
  <1>2. CmrID(taxonomy, ids) = ids[FirstAt(S)]
    BY DEF CmrID
  <1> HIDE DEF S
  <1>3. \E j \in S : \A k \in S : j <= k
    BY <1>1, LeastIndex
  <1>4. FirstAt(S) \in S
    BY <1>3 DEF FirstAt
  <1>5. QED
    BY <1>1, <1>2, <1>4 DEF ToSet

LEMMA FallbackIn ==
    ASSUME NEW ids \in Seq(Identifier), NEW taxonomy, Len(ids) > 0
    PROVE  CmrIDWithFallback(taxonomy, ids) \in ToSet(ids)
  <1>1. Len(ids) > 1 => ids[2] \in ToSet(ids)
    BY DEF ToSet
  <1>2. ids[1] \in ToSet(ids)
    BY DEF ToSet
  <1>3. QED
    BY <1>1, <1>2, CmrIDIn DEF CmrIDWithFallback

(* The fields a type of the annotation a brings it to, and what it brings. *)
GivesType(a, ids, type, f) ==
    \/ type \in Plain /\ f = FieldOf[type]
    \/ type = "person" /\ f = "people" /\ IsPeople(ids)
    \/ /\ type = "person" /\ f = "authors"
       /\ a.predicate \in Authoring /\ HasCmrID("Authors", ids)

What(ids, f) ==
    IF f = "authors" THEN {ids[1], CmrID("Authors", ids)} ELSE ToSet(ids)

(* From m to m2 the annotation came to the fields of F, and nothing else    *)
(* came to any.                                                            *)
Reached(m, m2, a, ids, F) ==
    /\ m2 \in Model /\ (Clean(m) => Clean(m2))
    /\ \A f \in Field :
          IF f \in F THEN Brought(m, m2, f, a.label, What(ids, f))
          ELSE /\ ToSet(m2[f].names) = ToSet(m[f].names)
               /\ ToSet(m2[f].ids) = ToSet(m[f].ids)

LEMMA ReachedTwice ==
    ASSUME NEW m, NEW m1, NEW m2, NEW a, NEW ids, NEW F, NEW G,
           Reached(m, m1, a, ids, F), Reached(m1, m2, a, ids, G)
    PROVE  Reached(m, m2, a, ids, F \cup G)
  BY DEF Reached, Brought

LEMMA FieldNames ==
    /\ "people" \in Field /\ "authors" \in Field /\ "sections" \in Field
    /\ \A t \in Plain : /\ FieldOf[t] \in Field
                        /\ FieldOf[t] \notin {"people", "authors", "sections"}
  BY DEF Field, Plain, FieldOf

LEMMA AddReaches ==
    ASSUME NEW m \in Model, NEW f \in Field, NEW a \in Annotation,
           NEW ids \in Seq(Identifier), f # "authors"
    PROVE  Reached(m, Add(m, f, a.label, ids), a, ids, {f})
  <1>1. a.label \in Nat
    BY DEF Annotation
  <1> DEFINE m2 == Add(m, f, a.label, ids)
             label == a.label
  <1>2. /\ m2 \in Model
        /\ Clean(m) => Clean(m2)
        /\ Brought(m, m2, f, label, ToSet(ids))
        /\ \A g \in Field : g # f => m2[g] = m[g]
    BY <1>1, AddGives
  <1> HIDE DEF m2
  <1>3. Reached(m, m2, a, ids, {f})
    BY <1>2 DEF Reached, What
  <1>4. QED
    BY <1>3 DEF m2

LEMMA AuthorReaches ==
    ASSUME NEW m \in Model, NEW a \in Annotation,
           NEW ids \in Seq(Identifier), Len(ids) > 0, HasCmrID("Authors", ids)
    PROVE  Reached(m, Add(m, "authors", a.label, <<CmrID("Authors", ids), ids[1]>>),
                   a, ids, {"authors"})
  <1> DEFINE author == CmrID("Authors", ids)
             list == <<author, ids[1]>>
             m2 == Add(m, "authors", a.label, list)
             label == a.label
  <1>1. label \in Nat /\ "authors" \in Field
    BY FieldNames DEF Annotation
  <1>2. author \in Identifier /\ ids[1] \in Identifier
    BY CmrIDIn DEF ToSet
  <1> HIDE DEF author
  <1>3. list \in Seq(Identifier) /\ ToSet(list) = {ids[1], author}
    BY <1>2 DEF ToSet
  <1> HIDE DEF list
  <1>4. /\ m2 \in Model
        /\ Clean(m) => Clean(m2)
        /\ Brought(m, m2, "authors", label, ToSet(list))
        /\ \A g \in Field : g # "authors" => m2[g] = m[g]
    BY <1>1, <1>3, AddGives
  <1> HIDE DEF m2
  <1>5. Reached(m, m2, a, ids, {"authors"})
    BY <1>3, <1>4 DEF Reached, What, author
  <1>6. QED
    BY <1>5 DEF m2, list, author

LEMMA StayReaches ==
    ASSUME NEW m \in Model, NEW a, NEW ids
    PROVE  Reached(m, m, a, ids, {})
  BY DEF Reached

(* A person comes to the people, to the authors, to both or to neither.    *)
LEMMA AddPersonReaches ==
    ASSUME NEW m \in Model, NEW a \in Annotation,
           NEW ids \in Seq(Identifier), Len(ids) > 0
    PROVE  Reached(m, AddPerson(m, a, ids), a, ids,
                   {f \in Field : GivesType(a, ids, "person", f)})
  <1> DEFINE m1 == IF IsPeople(ids) THEN Add(m, "people", a.label, ids) ELSE m
             P == IF IsPeople(ids) THEN {"people"} ELSE {}
             writes == a.predicate \in Authoring /\ HasCmrID("Authors", ids)
             A == IF writes THEN {"authors"} ELSE {}
             m2 == AddPerson(m, a, ids)
  <1>1. Reached(m, m1, a, ids, P)
    BY AddReaches, StayReaches, FieldNames
  <1>2. m2 = IF writes THEN Add(m1, "authors", a.label, <<CmrID("Authors", ids), ids[1]>>) ELSE m1
    BY Zenon DEF AddPerson
  <1>3. m1 \in Model
    BY <1>1 DEF Reached
  <1>4. {f \in Field : GivesType(a, ids, "person", f)} = P \cup A
    <2>1. "person" \notin Plain
      BY DEF Plain, FieldOf
    <2>2. QED
      BY <2>1, FieldNames DEF GivesType
  <1> HIDE DEF m1, m2, P
  <1>5. Reached(m1, m2, a, ids, A)
    <2>1. CASE writes
      BY <1>2, <1>3, <2>1, AuthorReaches
    <2>2. CASE ~writes
      BY <1>2, <1>3, <2>2, StayReaches
    <2>3. QED
      BY <2>1, <2>2
  <1> HIDE DEF A, writes
  <1>6. Reached(m, m2, a, ids, P \cup A)
    BY <1>1, <1>5, ReachedTwice
  <1>7. QED
    BY <1>4, <1>6 DEF m2

LEMMA AddTypeReaches ==
    ASSUME NEW m \in Model, NEW a \in Annotation, NEW type,
           AnnIDs(a) \in Seq(Identifier), Len(AnnIDs(a)) > 0
    PROVE  Reached(m, AddType(m, a, type), a, AnnIDs(a),
                   {f \in Field : GivesType(a, AnnIDs(a), type, f)})
  <1> DEFINE ids == AnnIDs(a)
             G == {f \in Field : GivesType(a, ids, type, f)}
  <1>0. "person" \notin Plain /\ ids \in Seq(Identifier) /\ Len(ids) > 0
    BY DEF Plain, FieldOf
  <1>d. AddType(m, a, type) = IF type = "person" THEN AddPerson(m, a, ids)
                              ELSE IF type \in Plain THEN Add(m, FieldOf[type], a.label, ids)
                              ELSE m
    BY DEF AddType
  <1> HIDE DEF ids
  <1>1. ASSUME type = "person" PROVE Reached(m, AddType(m, a, type), a, ids, G)
    BY <1>0, <1>d, <1>1, AddPersonReaches
  <1>2. ASSUME type \in Plain PROVE Reached(m, AddType(m, a, type), a, ids, G)
    <2>1. G = {FieldOf[type]}
      BY <1>0, <1>2, FieldNames DEF GivesType
    <2>2. FieldOf[type] \in Field /\ FieldOf[type] # "authors"
      BY <1>2, FieldNames
    <2> HIDE DEF G
    <2>3. Reached(m, Add(m, FieldOf[type], a.label, ids), a, ids, {FieldOf[type]})
      BY <1>0, <2>2, AddReaches
    <2>4. AddType(m, a, type) = Add(m, FieldOf[type], a.label, ids)
      BY <1>0, <1>2, <1>d
    <2>5. QED
      BY <2>1, <2>3, <2>4
  <1>3. ASSUME type # "person", type \notin Plain
        PROVE  Reached(m, AddType(m, a, type), a, ids, G)
    <2>1. G = {}
      BY <1>3 DEF GivesType
    <2> HIDE DEF G
    <2>2. AddType(m, a, type) = m
      BY <1>3, <1>d
    <2>3. QED
      BY <2>1, <2>2, StayReaches
  <1> HIDE DEF G
  <1>4. Reached(m, AddType(m, a, type), a, ids, G)
    BY <1>1, <1>2, <1>3
  <1>5. QED
    BY <1>4 DEF ids, G

(* The recursion of PopulateAnnotationRelatedFields.                       *)
Added(base, N, a) ==
    CHOOSE fields : fields = [k \in 0 .. N |->
        IF k = 0 THEN base ELSE AddType(fields[k - 1], a, a.types[k])]

AddedAll(base, N, a) ==
    LET t == Added(base, N, a)
    IN  /\ t[0] = base
        /\ \A n \in 0 .. N : t[n] \in Model
        /\ \A n \in 1 .. N : t[n] = AddType(t[n - 1], a, a.types[n])

LEMMA AddRun ==
    ASSUME NEW base, NEW N \in Nat, NEW a
    PROVE  (base \in Model /\ \A r \in Model : \A type : AddType(r, a, type) \in Model)
           => AddedAll(base, N, a)
  <1> DEFINE step == [n \in 1 .. N |-> [r \in Model |-> AddType(r, a, a.types[n])]]
             Body(g, n) == IF n = 0 THEN base ELSE AddType(g[n - 1], a, a.types[n])
             t == Added(base, N, a)
  <1>1. ASSUME base \in Model, \A r \in Model : \A type : AddType(r, a, type) \in Model
        PROVE  /\ t[0] = base
               /\ \A n \in 0 .. N : t[n] \in Model
               /\ \A n \in 1 .. N : t[n] = AddType(t[n - 1], a, a.types[n])
    <2>0. base \in Model
      BY <1>1
    <2>1. step \in [1 .. N -> [Model -> Model]]
      BY <1>1
    <2> HIDE DEF step
    <2>2. PICK g \in [0 .. N -> Model] :
             g[0] = base /\ \A n \in 1 .. N : g[n] = step[n][g[n - 1]]
      BY <2>0, <2>1, Run
    <2>3. ASSUME NEW n \in 0 .. N PROVE g[n] = Body(g, n)
      <3>1. CASE n # 0
        <4>1. n - 1 \in 0 .. N /\ n \in 1 .. N
          BY <3>1
        <4>2. g[n - 1] \in Model
          BY <2>2, <4>1
        <4>3. QED
          BY <2>2, <3>1, <4>1, <4>2 DEF step
      <3>2. QED
        BY <2>2, <3>1
    <2>4. g = [n \in 0 .. N |-> Body(g, n)]
      <3> HIDE DEF Body
      <3>1. QED
        BY <2>2, <2>3
    <2>5. t = [n \in 0 .. N |-> Body(t, n)]
      BY <2>4, Zenon DEF Added
    <2> HIDE DEF Body, t
    <2>6. ASSUME NEW n \in 0 .. N PROVE t[n] = Body(t, n)
      <3>1. [k \in 0 .. N |-> Body(t, k)][n] = Body(t, n)
        OBVIOUS
      <3>2. QED
        BY <2>5, <3>1, Zenon
    <2>7. t[0] = base
      BY <2>6 DEF Body
    <2>8. ASSUME NEW n \in 1 .. N PROVE t[n] = AddType(t[n - 1], a, a.types[n])
      BY <2>6 DEF Body
    <2>9. \A n \in 0 .. N : t[n] \in Model
      BY <1>1, <2>7, <2>8, Stays
    <2>10. QED
      BY <2>7, <2>8, <2>9
  <1> HIDE DEF t
  <1>2. QED
    BY <1>1 DEF t, AddedAll

(* The fields its predicate and its first k types bring the annotation to. *)
GivesUpTo(a, ids, k) ==
    {f \in Field : \/ f = "sections" /\ a.predicate \in Sections
                   \/ \E j \in 1 .. k : GivesType(a, ids, a.types[j], f)}

(* An annotation comes to these fields, for all its types, and no others.  *)
LEMMA PopulateReaches ==
    ASSUME NEW m \in Model, NEW a \in Annotation,
           AnnIDs(a) \in Seq(Identifier), Len(AnnIDs(a)) > 0
    PROVE  Reached(m, PopulateAnnotationRelatedFields(m, a), a, AnnIDs(a),
                   GivesUpTo(a, AnnIDs(a), Len(a.types)))
  <1> DEFINE ids == AnnIDs(a)
             base == HandleSectionMapping(m, a)
             N == Len(a.types)
             t == Added(base, N, a)
             S == {n \in Nat : Reached(m, t[n], a, ids, GivesUpTo(a, ids, n))}
  <1>1. N \in Nat
    BY DEF Annotation
  <1>2. Reached(m, base, a, ids, GivesUpTo(a, ids, 0))
    <2> HIDE DEF ids
    <2>1. CASE a.predicate \in Sections
      <3>1. GivesUpTo(a, ids, 0) = {"sections"}
        BY <2>1, FieldNames DEF GivesUpTo
      <3>2. base = Add(m, "sections", a.label, ids)
        BY <2>1 DEF HandleSectionMapping, ids
      <3>3. "sections" \in Field /\ "sections" # "authors" /\ ids \in Seq(Identifier)
        BY FieldNames DEF ids
      <3>4. QED
        BY <3>1, <3>2, <3>3, AddReaches
    <2>2. CASE a.predicate \notin Sections
      <3>1. GivesUpTo(a, ids, 0) = {}
        BY <2>2 DEF GivesUpTo
      <3>2. base = m
        BY <2>2 DEF HandleSectionMapping
      <3>3. QED
        BY <3>1, <3>2, StayReaches
    <2>3. QED
      BY <2>1, <2>2
  <1>3. base \in Model
    BY <1>2 DEF Reached
  <1>4. \A r \in Model : \A type : AddType(r, a, type) \in Model
    BY AddTypeReaches DEF Reached
  <1>5. PopulateAnnotationRelatedFields(m, a) = t[N]
    BY Zenon DEF PopulateAnnotationRelatedFields, Added
  <1> HIDE DEF N, base
  <1>6. AddedAll(base, N, a)
    BY <1>1, <1>3, <1>4, AddRun
  <1>7. /\ t[0] = base
        /\ \A n \in 0 .. N : t[n] \in Model
        /\ \A n \in 1 .. N : t[n] = AddType(t[n - 1], a, a.types[n])
    BY <1>6 DEF AddedAll
  <1> HIDE DEF t
  <1>8. 0 \in S
    BY <1>2, <1>7
  <1>9. ASSUME NEW n \in 1 .. N, n - 1 \in S PROVE n \in S
    <2> DEFINE G == GivesUpTo(a, ids, n - 1)
               H == {f \in Field : GivesType(a, ids, a.types[n], f)}
    <2>1. n - 1 \in 0 .. N /\ n \in Nat /\ 1 .. n = 1 .. (n - 1) \cup {n}
      BY <1>1
    <2>2. Reached(m, t[n - 1], a, ids, G)
      BY <1>9
    <2>3. Reached(t[n - 1], t[n], a, ids, H)
      BY <1>7, <2>1, AddTypeReaches
    <2>4. GivesUpTo(a, ids, n) = G \cup H
      <3> HIDE DEF ids
      <3>1. QED
        BY <2>1 DEF GivesUpTo
    <2> HIDE DEF G, H, ids
    <2>5. Reached(m, t[n], a, ids, G \cup H)
      BY <2>2, <2>3, ReachedTwice
    <2>6. QED
      BY <2>1, <2>4, <2>5
  <1> HIDE DEF S
  <1>10. N \in 0 .. N /\ \A n \in 0 .. N : n \in S
    BY <1>1, <1>8, <1>9, UpTo
  <1>11. Reached(m, t[N], a, ids, GivesUpTo(a, ids, N))
    BY <1>10 DEF S
  <1>12. QED
    BY <1>5, <1>11 DEF N

Gives(a, ids) == GivesUpTo(a, ids, Len(a.types))

(* The fields of m hold what the annotations of P, each with its           *)
(* identifiers, bring, once.                                               *)
FieldsHold(m, P) ==
    /\ Clean(m)
    /\ \A f \in Field :
          LET from == {p \in P : f \in Gives(p[1], p[2])}
          IN  /\ ToSet(m[f].names) = {p[1].label : p \in from}
              /\ ToSet(m[f].ids) = UNION {What(p[2], f) : p \in from}

LEMMA OneMoreAnnotation ==
    ASSUME NEW m, NEW m2, NEW P, NEW a, NEW ids,
           FieldsHold(m, P), Reached(m, m2, a, ids, Gives(a, ids))
    PROVE  FieldsHold(m2, P \cup {<<a, ids>>})
  <1> DEFINE q == <<a, ids>>
             From(f, R) == {p \in R : f \in Gives(p[1], p[2])}
  <1>1. Clean(m2)
    BY DEF FieldsHold, Reached
  <1>2. ASSUME NEW f \in Field
        PROVE  /\ ToSet(m2[f].names) = {p[1].label : p \in From(f, P \cup {q})}
               /\ ToSet(m2[f].ids) = UNION {What(p[2], f) : p \in From(f, P \cup {q})}
    <2>1. /\ ToSet(m[f].names) = {p[1].label : p \in From(f, P)}
          /\ ToSet(m[f].ids) = UNION {What(p[2], f) : p \in From(f, P)}
      BY DEF FieldsHold
    <2>2. q[1] = a /\ q[2] = ids
      OBVIOUS
    <2> HIDE DEF q
    <2>3. CASE f \in Gives(a, ids)
      <3>1. From(f, P \cup {q}) = From(f, P) \cup {q}
        BY <2>2, <2>3
      <3>2. Brought(m, m2, f, a.label, What(ids, f))
        BY <2>3 DEF Reached
      <3> HIDE DEF From
      <3>3. {p[1].label : p \in From(f, P) \cup {q}}
               = {p[1].label : p \in From(f, P)} \cup {a.label}
        BY <2>2
      <3>4. UNION {What(p[2], f) : p \in From(f, P) \cup {q}}
               = (UNION {What(p[2], f) : p \in From(f, P)}) \cup What(ids, f)
        BY <2>2
      <3>5. QED
        BY <2>1, <3>1, <3>2, <3>3, <3>4 DEF Brought
    <2>4. CASE f \notin Gives(a, ids)
      <3>1. From(f, P \cup {q}) = From(f, P)
        BY <2>2, <2>4
      <3>2. ToSet(m2[f].names) = ToSet(m[f].names) /\ ToSet(m2[f].ids) = ToSet(m[f].ids)
        BY <2>4 DEF Reached
      <3> HIDE DEF From
      <3>3. QED
        BY <2>1, <3>1, <3>2
    <2>5. QED
      BY <2>3, <2>4
  <1>3. QED
    BY <1>1, <1>2 DEF FieldsHold

LEMMA NoAnnotation ==
    ASSUME NEW m, m = [f \in Field |-> [names |-> << >>, ids |-> << >>]]
    PROVE  m \in Model /\ FieldsHold(m, {})
  <1>1. m \in Model
    BY DEF Model
  <1>2. Clean(m)
    BY DEF Clean, IsInjective
  <1>3. ASSUME NEW f \in Field PROVE ToSet(m[f].names) = {} /\ ToSet(m[f].ids) = {}
    BY DEF ToSet
  <1>4. QED
    BY <1>1, <1>2, <1>3 DEF FieldsHold

LEMMA AnnIDsType ==
    ASSUME MapTypeOK, OwnIDs, NEW a \in Annotation, Found(a)
    PROVE  AnnIDs(a) \in Seq(Identifier) /\ Len(AnnIDs(a)) > 0
  <1>1. a.id \in Concept
    BY DEF Annotation
  <1>2. Read(a.id) \in Seq(TmeID)
    BY <1>1, ReadEntry DEF Found
  <1> DEFINE c == [taxonomy |-> "canonical", n |-> a.id]
             r == Read(a.id)
  <1>3. c \in Identifier /\ TmeID \subseteq Identifier
    BY <1>1 DEF Identifier
  <1>4. AnnIDs(a) = <<c>> \o r
    BY DEF AnnIDs
  <1> HIDE DEF c, r
  <1>5. r \in Seq(Identifier)
    BY <1>2, <1>3 DEF r
  <1>6. QED
    BY <1>3, <1>4, <1>5

-----------------------------------------------------------------------------
(* The inductive invariant of the loop.                                    *)

(* Annotations are mapped when the map is complete, and are not ignored.   *)
OrderInv ==
    /\ i > 0 => done = Len(rows)
    /\ pc = "lookup" => i = 0
    /\ theme # None => pc = "done"
    /\ (pc = "map" \/ i > 0) => \A j \in DOMAIN annotations : IsLookedUp(annotations[j])

(* The annotations mapped so far, with the identifiers each had.           *)
Pairs ==
    {<<annotations[j], AnnIDs(annotations[j])>> : j \in {k \in 1 .. i : Found(annotations[k])}}

FieldsInv == FieldsHold(model, Pairs)

IsPrimary(a) == a.predicate = "isPrimaryClassifiedBy" /\ Found(a)

(* The last primary classification so far is the primary section.          *)
SectionInv ==
    \A j \in 1 .. i :
        (/\ IsPrimary(annotations[j])
         /\ \A k \in 1 .. i : IsPrimary(annotations[k]) => k <= j)
        => /\ section.name = annotations[j].label
           /\ section.id \in ToSet(AnnIDs(annotations[j]))

FieldTypeOK ==
    /\ annotations \in Seq(Annotation)
    /\ pc \in {"lookup", "map", "done"}
    /\ i \in 0 .. Len(annotations)
    /\ model \in Model
    /\ section \in Tag \cup {None}
    /\ theme \in Tag \cup {None}

Inv ==
    /\ MapInv /\ FieldTypeOK /\ OrderInv
    /\ FieldsInv /\ SectionInv /\ ThemeConsistent

LEMMA InRowsNow ==
    ASSUME rows' = rows, done' = done
    PROVE  /\ Tangled(done)' <=> Tangled(done)
           /\ \A c : /\ IsConcept(c, done)' <=> IsConcept(c, done)
                     /\ Said(c, done)' = Said(c, done)
                     /\ AliasRow(c, done)' = AliasRow(c, done)
  BY InRows, InRowsLater, Zenon

LEMMA MapInvStays ==
    ASSUME MapInv, rows' = rows, UNCHANGED mapVars PROVE MapInv'
  <1> USE DEF MapInv
  <1>1. done' = done /\ conceptMap' = conceptMap /\ heap' = heap
    BY DEF mapVars
  <1>2. MapTypeOK'
    BY <1>1 DEF MapTypeOK
  <1>3. \A S : Closed(S)' => Closed(S)
    BY <1>1 DEF Closed, UppRows
  <1>4. \A S : GivenTo(S) \subseteq GivenTo(S)'
    BY <1>1 DEF GivenTo
  <1>5. TiedInv'
    BY <1>1, <1>3 DEF TiedInv, Shares
  <1>6. OwnIDs'
    BY <1>1, <1>3, <1>4 DEF OwnIDs
  <1>7. EntriesInv'
    BY <1>1, InRowsNow DEF EntriesInv, Holds
  <1>8. SharingInv'
    BY <1>1, InRowsNow DEF SharingInv, Shares
  <1>9. QED
    BY <1>2, <1>5, <1>6, <1>7, <1>8

(* No annotation has been mapped yet.                                      *)
LEMMA NothingMapped ==
    ASSUME i = 0, model \in Model, theme = None
    PROVE  Pairs = {} /\ SectionInv /\ ThemeConsistent
  BY DEF Pairs, SectionInv, ThemeConsistent

LEMMA InvInit == ASSUME Init PROVE Inv
  <1>1. annotations \in Seq(Annotation) /\ rows \in Seq(Row)
    BY EventsAssumption DEF Init
  <1>2. MapInv
    BY <1>1, MapInvInit DEF Init
  <1>3. model \in Model /\ FieldsHold(model, {})
    BY NoAnnotation DEF Init
  <1>4. FieldTypeOK
    BY <1>1, <1>3 DEF FieldTypeOK, Init
  <1>5. OrderInv
    BY DEF OrderInv, Init
  <1>6. Pairs = {} /\ SectionInv /\ ThemeConsistent
    BY <1>3, NothingMapped DEF Init
  <1>7. QED
    BY <1>2, <1>3, <1>4, <1>5, <1>6 DEF Inv, FieldsInv

LEMMA EntriesStay ==
    ASSUME UNCHANGED mapVars, NEW a
    PROVE  AnnIDs(a)' = AnnIDs(a) /\ (Found(a)' <=> Found(a))
  BY DEF mapVars, AnnIDs, Read, Found

(* A step before the first annotation is mapped.                           *)
LEMMA InvBefore ==
    ASSUME Inv, MapInv', i = 0, pc # "done",
           i' = 0, model' = model, theme' = theme, section' = section,
           pc' \in {"lookup", "map", "done"}, annotations' \in Seq(Annotation),
           pc' = "map" => \A j \in DOMAIN annotations' : IsLookedUp(annotations'[j])
    PROVE  Inv'
  <1> USE DEF Inv
  <1>1. theme = None /\ model \in Model
    BY DEF OrderInv, FieldTypeOK
  <1>2. Pairs = {} /\ Pairs' = {}
    BY DEF Pairs
  <1>3. FieldsInv'
    BY <1>2 DEF FieldsInv, FieldsHold, Clean, Gives, GivesUpTo, GivesType, What
  <1>4. SectionInv'
    BY DEF SectionInv
  <1>5. ThemeConsistent'
    BY <1>1 DEF ThemeConsistent
  <1>6. FieldTypeOK'
    BY <1>1 DEF FieldTypeOK, Model
  <1>7. OrderInv'
    <2>1. ~(i' > 0)
      OBVIOUS
    <2>2. QED
      BY <1>1, <2>1 DEF OrderInv, IsLookedUp
  <1>8. QED
    BY <1>3, <1>4, <1>5, <1>6, <1>7

LEMMA InvLookup ==
    ASSUME Inv, Lookup \/ LookupFails PROVE Inv'
  <1>1. /\ i = 0 /\ pc = "lookup" /\ i' = 0 /\ model' = model /\ theme' = theme
        /\ section' = section /\ rows' = rows /\ UNCHANGED mapVars
    BY DEF Lookup, LookupFails, Inv, OrderInv
  <1>2. MapInv'
    BY <1>1, MapInvStays DEF Inv
  <1>3. annotations \in Seq(Annotation)
    BY DEF Inv, FieldTypeOK
  <1>4. CASE Lookup
    <2>1. annotations' = LookedUp(annotations) /\ pc' \in {"map", "done"}
      BY <1>4 DEF Lookup
    <2>2. annotations' \in Seq({a \in Annotation : IsLookedUp(a)})
      BY <1>3, <2>1, LookedUpType
    <2>3. /\ annotations' \in Seq(Annotation)
          /\ \A j \in DOMAIN annotations' : IsLookedUp(annotations'[j])
      BY <2>2
    <2>4. QED
      BY <1>1, <1>2, <2>1, <2>3, InvBefore
  <1>5. CASE LookupFails
    <2>1. annotations' = annotations /\ pc' = "done"
      BY <1>5 DEF LookupFails
    <2>2. QED
      BY <1>1, <1>2, <1>3, <2>1, InvBefore
  <1>6. QED
    BY <1>4, <1>5

LEMMA InvReadConcordances ==
    ASSUME Inv, ReadConcordances PROVE Inv'
  <1>1. /\ pc = "map" /\ TransformToConceptModel /\ UNCHANGED fieldVars
    BY DEF ReadConcordances
  <1>2. MapInv'
    BY <1>1, MapInvStep DEF Inv
  <1>3. done < Len(rows)
    BY <1>1 DEF TransformToConceptModel, AddTmeID, AddAlias, OtherAuthority, NextRow
  <1>4. i = 0
    BY <1>3 DEF Inv, OrderInv, MapInv, MapTypeOK, FieldTypeOK
  <1>5. annotations \in Seq(Annotation) /\ \A j \in DOMAIN annotations : IsLookedUp(annotations[j])
    BY <1>1 DEF Inv, FieldTypeOK, OrderInv
  <1>6. QED
    BY <1>1, <1>2, <1>4, <1>5, InvBefore DEF fieldVars

(* An annotation of a section gives the sections its identifiers.          *)
LEMMA SectionsHold ==
    ASSUME FieldsInv, NEW j \in 1 .. i, Found(annotations[j]),
           annotations[j].predicate \in Sections
    PROVE  ToSet(AnnIDs(annotations[j])) \subseteq ToSet(model["sections"].ids)
  <1> DEFINE a == annotations[j]
             ids == AnnIDs(a)
             p == <<a, ids>>
  <1>1. p \in Pairs
    BY DEF Pairs
  <1>2. "sections" \in Field /\ "sections" \in Gives(a, ids)
    BY FieldNames DEF Gives, GivesUpTo
  <1>3. What(ids, "sections") = ToSet(ids)
    BY DEF What
  <1>4. p[1] = a /\ p[2] = ids
    OBVIOUS
  <1> HIDE DEF a, ids, p
  <1>5. ToSet(model["sections"].ids) =
           UNION {What(q[2], "sections") : q \in {r \in Pairs : "sections" \in Gives(r[1], r[2])}}
    BY <1>2 DEF FieldsInv, FieldsHold
  <1>6. ToSet(ids) \subseteq ToSet(model["sections"].ids)
    BY <1>1, <1>2, <1>3, <1>4, <1>5
  <1>7. QED
    BY <1>6 DEF a, ids

LEMMA FieldsPrime ==
    ASSUME FieldsHold(model', Pairs') PROVE FieldsInv'
  BY Zenon DEF FieldsInv, FieldsHold, Clean, IsInjective, ToSet, Gives, GivesUpTo,
               GivesType, What, CmrID, HasCmrID, FirstAt, At, IsPeople

(* Mapping an annotation: the fields get what it brings, and the primary   *)
(* section may become its own.                                             *)
LEMMA InvMapAnnotation ==
    ASSUME Inv, MapAnnotation PROVE Inv'
  <1> DEFINE a == annotations[i + 1]
             ids == AnnIDs(a)
             tag == [name |-> a.label, id |-> CmrIDWithFallback("Sections", ids)]
  <1>1. /\ pc = "map" /\ MapComplete /\ i < Len(annotations) /\ i' = i + 1
        /\ annotations' = annotations /\ pc' = pc /\ theme' = theme /\ rows' = rows
        /\ UNCHANGED mapVars
    BY DEF MapAnnotation
  <1>2. IF Found(a)
        THEN /\ model' = PopulateAnnotationRelatedFields(model, a)
             /\ section' = IF a.predicate = "isPrimaryClassifiedBy" THEN tag ELSE section
        ELSE model' = model /\ section' = section
    BY DEF MapAnnotation, Primary
  <1>3. /\ annotations \in Seq(Annotation) /\ model \in Model /\ i \in Nat
        /\ section \in Tag \cup {None} /\ theme = None
        /\ i + 1 \in 1 .. Len(annotations) /\ 1 .. i' = 1 .. i \cup {i + 1}
        /\ i' \in 0 .. Len(annotations) /\ i' > 0
    BY <1>1 DEF Inv, FieldTypeOK, OrderInv
  <1>4. a \in Annotation
    BY <1>3
  <1>5. MapTypeOK /\ OwnIDs
    BY DEF Inv, MapInv
  <1>6. MapInv'
    BY <1>1, MapInvStays DEF Inv
  <1>7. \A b : AnnIDs(b)' = AnnIDs(b) /\ (Found(b)' <=> Found(b))
    BY <1>1, EntriesStay
  <1> HIDE DEF a
  <1>8. Found(a) => ids \in Seq(Identifier) /\ Len(ids) > 0
    BY <1>4, <1>5, AnnIDsType
  <1>9. Found(a) => Reached(model, model', a, ids, Gives(a, ids))
    BY <1>2, <1>3, <1>4, <1>8, PopulateReaches DEF Gives
  <1> HIDE DEF ids, tag
  <1>10. model' \in Model
    BY <1>2, <1>3, <1>9 DEF Reached
  <1>11. Pairs' = IF Found(a) THEN Pairs \cup {<<a, ids>>} ELSE Pairs
    <2>1. Pairs' = {<<annotations[j], AnnIDs(annotations[j])>> :
                        j \in {k \in 1 .. i' : Found(annotations[k])}}
      BY <1>1, <1>7 DEF Pairs
    <2>2. {k \in 1 .. i' : Found(annotations[k])} =
             {k \in 1 .. i : Found(annotations[k])} \cup (IF Found(a) THEN {i + 1} ELSE {})
      BY <1>1, <1>3 DEF a
    <2>3. QED
      BY <2>1, <2>2 DEF Pairs, a, ids
  <1>12. FieldsInv'
    <2>1. FieldsHold(model, Pairs)
      BY DEF Inv, FieldsInv
    <2>2. FieldsHold(model', Pairs')
      <3>1. CASE Found(a)
        BY <1>9, <1>11, <2>1, <3>1, OneMoreAnnotation
      <3>2. CASE ~Found(a)
        BY <1>2, <1>11, <2>1, <3>2
      <3>3. QED
        BY <3>1, <3>2
    <2>3. QED
      BY <2>2, FieldsPrime
  <1>13. section' \in Tag \cup {None}
    <2>1. Found(a) => tag \in Tag
      <3>1. Found(a) => CmrIDWithFallback("Sections", ids) \in ToSet(ids)
        BY <1>8, FallbackIn
      <3>2. Found(a) => CmrIDWithFallback("Sections", ids) \in Identifier
        BY <1>8, <3>1 DEF ToSet
      <3>3. a.label \in Nat
        BY <1>4 DEF Annotation
      <3>4. QED
        BY <3>2, <3>3 DEF tag, Tag
    <2>2. QED
      BY <1>2, <1>3, <2>1
  <1>14. FieldTypeOK'
    BY <1>1, <1>3, <1>10, <1>13 DEF FieldTypeOK, Inv, Model
  <1>15. OrderInv'
    <2>1. done' = Len(rows')
      BY <1>1 DEF MapComplete, mapVars
    <2>2. \A j \in DOMAIN annotations : IsLookedUp(annotations[j])
      BY <1>1 DEF Inv, OrderInv
    <2>3. QED
      BY <1>1, <1>3, <2>1, <2>2 DEF OrderInv, IsLookedUp
  <1>16. ThemeConsistent'
    BY <1>1, <1>3 DEF ThemeConsistent
  <1>17. SectionInv'
    <2>1. SUFFICES ASSUME NEW j \in 1 .. i', IsPrimary(annotations[j]),
                          \A k \in 1 .. i' : IsPrimary(annotations[k]) => k <= j
                   PROVE  /\ section'.name = annotations[j].label
                          /\ section'.id \in ToSet(AnnIDs(annotations[j]))
      BY <1>1, <1>7 DEF SectionInv, IsPrimary, ToSet
    <2>2. CASE IsPrimary(a)
      <3>1. j = i + 1
        BY <1>1, <1>3, <2>1, <2>2 DEF a
      <3>2. section' = tag
        BY <1>2, <2>2 DEF IsPrimary
      <3>3. CmrIDWithFallback("Sections", ids) \in ToSet(ids)
        BY <1>8, <2>2, FallbackIn DEF IsPrimary
      <3>4. QED
        BY <3>1, <3>2, <3>3 DEF tag, ids, a
    <2>3. CASE ~IsPrimary(a)
      <3>1. j # i + 1 /\ j \in 1 .. i
        BY <1>3, <2>1, <2>3 DEF a
      <3>2. section' = section
        BY <1>2, <2>3 DEF IsPrimary
      <3>3. QED
        BY <1>3, <2>1, <3>1, <3>2 DEF Inv, SectionInv
    <2>4. QED
      BY <2>2, <2>3
  <1>18. QED
    BY <1>6, <1>12, <1>14, <1>15, <1>16, <1>17 DEF Inv

LEMMA ThemeOfCandidate ==
    ASSUME MapTypeOK, OwnIDs, NEW a \in Annotation, Found(a), ThemeOf(a) # None
    PROVE  /\ ThemeOf(a) \in Tag /\ ThemeOf(a).name = a.label
           /\ ThemeOf(a).id \in ToSet(AnnIDs(a))
  <1> DEFINE typed == {k \in DOMAIN a.types : a.types[k] \in DOMAIN ThemeTaxonomy}
             taxonomy == ThemeTaxonomy[a.types[FirstAt(typed)]]
             id == CmrIDWithFallback(taxonomy, AnnIDs(a))
  <1>1. ThemeOf(a) = IF typed = {} THEN None ELSE [name |-> a.label, id |-> id]
    BY Zenon DEF ThemeOf
  <1> HIDE DEF typed, taxonomy
  <1>2. AnnIDs(a) \in Seq(Identifier) /\ id \in ToSet(AnnIDs(a))
    BY AnnIDsType, FallbackIn
  <1>3. id \in Identifier /\ a.label \in Nat
    BY <1>2 DEF ToSet, Annotation
  <1> HIDE DEF id
  <1>4. QED
    BY <1>1, <1>2, <1>3 DEF Tag

(* The theme is a foremost candidate: its identifiers are the sections'.   *)
LEMMA InvPopulatePrimaryTheme ==
    ASSUME Inv, PopulatePrimaryTheme PROVE Inv'
  <1>1. /\ pc = "map" /\ MapComplete /\ i = Len(annotations) /\ i' = i
        /\ annotations' = annotations /\ pc' = "done" /\ model' = model /\ rows' = rows
        /\ section' = section /\ UNCHANGED mapVars
        /\ IF Candidates = {} THEN theme' = theme
           ELSE \E a \in Foremost : theme' = ThemeOf(a)
    BY DEF PopulatePrimaryTheme
  <1>2. MapInv'
    BY <1>1, MapInvStays DEF Inv
  <1>3. \A b : AnnIDs(b)' = AnnIDs(b) /\ (Found(b)' <=> Found(b))
    BY <1>1, EntriesStay
  <1>4. /\ annotations \in Seq(Annotation) /\ theme = None /\ i = Len(annotations)
        /\ FieldsInv /\ MapTypeOK /\ OwnIDs
    BY <1>1 DEF Inv, FieldTypeOK, OrderInv, MapInv
  <1>5. FieldsInv'
    <2>1. Pairs' = Pairs
      BY <1>1, <1>3 DEF Pairs
    <2>2. QED
      BY <1>1, <1>4, <2>1, FieldsPrime DEF FieldsInv
  <1>6. SectionInv'
    BY <1>1, <1>3 DEF Inv, SectionInv, IsPrimary, ToSet
  <1>7. CASE theme' = None
    <2>1. FieldTypeOK' /\ OrderInv'
      BY <1>1, <1>7 DEF Inv, FieldTypeOK, OrderInv, Model, IsLookedUp, MapComplete, mapVars
    <2>2. ThemeConsistent'
      BY <1>7 DEF ThemeConsistent
    <2>3. QED
      BY <1>2, <1>5, <1>6, <2>1, <2>2 DEF Inv
  <1>8. CASE theme' # None
    <2>1. PICK a \in Foremost : theme' = ThemeOf(a)
      BY <1>1, <1>4, <1>8
    <2>2. /\ a \in Candidates /\ \A b \in Candidates : a.label <= b.label
      BY DEF Foremost
    <2>3. PICK j \in DOMAIN annotations : a = annotations[j]
      BY <2>2 DEF Candidates
    <2>4. a \in Annotation /\ Found(a) /\ a.predicate = "about" /\ j \in 1 .. i
      BY <1>4, <2>2, <2>3 DEF Candidates
    <2>5. theme' \in Tag /\ theme'.name = a.label /\ theme'.id \in ToSet(AnnIDs(a))
      BY <1>4, <1>8, <2>1, <2>4, ThemeOfCandidate
    <2>6. ToSet(AnnIDs(a)) \subseteq ToSet(model["sections"].ids)
      BY <1>4, <2>3, <2>4, SectionsHold DEF Sections
    <2>7. \A k \in DOMAIN annotations :
             (annotations[k].predicate = "about" /\ Found(annotations[k]))
             => a.label <= annotations[k].label
      BY <2>2 DEF Candidates
    <2>8. ThemeConsistent'
      <3>1. /\ theme'.id \in ToSet(AnnIDs(annotations[j]))
            /\ theme'.id \in ToSet(model["sections"].ids)
            /\ theme'.name = annotations[j].label /\ annotations[j].predicate = "about"
        BY <2>3, <2>4, <2>5, <2>6
      <3>2. ToSet(AnnIDs(annotations[j]))' = ToSet(AnnIDs(annotations[j]))
        BY <1>1 DEF ToSet, AnnIDs, Read, mapVars
      <3>3. ToSet(model["sections"].ids)' = ToSet(model["sections"].ids)
        BY <1>1 DEF ToSet
      <3>4. \A k \in DOMAIN annotations :
               (annotations[k].predicate = "about" /\ Found(annotations[k])')
               => annotations[j].label <= annotations[k].label
        BY <1>1, <2>3, <2>7 DEF Found, mapVars
      <3>5. QED
        BY <1>1, <3>1, <3>2, <3>3, <3>4 DEF ThemeConsistent
    <2>9. FieldTypeOK' /\ OrderInv'
      BY <1>1, <2>5 DEF Inv, FieldTypeOK, OrderInv, Model, IsLookedUp, MapComplete, mapVars
    <2>10. QED
      BY <1>2, <1>5, <1>6, <2>8, <2>9 DEF Inv
  <1>9. QED
    BY <1>7, <1>8

LEMMA InvStutter ==
    ASSUME Inv, UNCHANGED vars PROVE Inv'
  <1>1. /\ i' = i /\ annotations' = annotations /\ pc' = pc /\ model' = model /\ rows' = rows
        /\ section' = section /\ theme' = theme /\ UNCHANGED mapVars /\ done' = done
    BY DEF vars, fieldVars, mapVars
  <1>2. MapInv'
    BY <1>1, MapInvStays DEF Inv
  <1>3. \A b : AnnIDs(b)' = AnnIDs(b) /\ (Found(b)' <=> Found(b))
    BY <1>1, EntriesStay
  <1>4. FieldsInv'
    <2>1. Pairs' = Pairs
      BY <1>1, <1>3 DEF Pairs
    <2>2. QED
      BY <1>1, <2>1, FieldsPrime DEF Inv, FieldsInv
  <1>5. SectionInv'
    BY <1>1, <1>3 DEF Inv, SectionInv, IsPrimary, ToSet
  <1>6. FieldTypeOK'
    BY <1>1 DEF Inv, FieldTypeOK, Model
  <1>7. OrderInv'
    BY <1>1 DEF Inv, OrderInv, IsLookedUp
  <1>8. ThemeConsistent'
    BY <1>1, <1>3 DEF Inv, ThemeConsistent, ToSet
  <1>9. QED
    BY <1>2, <1>4, <1>5, <1>6, <1>7, <1>8 DEF Inv

LEMMA InvStep == Inv /\ [Next]_vars => Inv'
  <1>1. ASSUME Inv, Next PROVE Inv'
    <2>1. CASE Lookup \/ LookupFails
      BY <1>1, <2>1, InvLookup
    <2>2. CASE ReadConcordances
      BY <1>1, <2>2, InvReadConcordances
    <2>3. CASE MapAnnotation
      BY <1>1, <2>3, InvMapAnnotation
    <2>4. CASE PopulatePrimaryTheme
      BY <1>1, <2>4, InvPopulatePrimaryTheme
    <2>5. QED
      BY <1>1, <2>1, <2>2, <2>3, <2>4 DEF Next
  <1>2. ASSUME Inv, UNCHANGED vars PROVE Inv'
    BY <1>2, InvStutter
  <1>3. QED
    BY <1>1, <1>2

-----------------------------------------------------------------------------
(* The invariant holds of every state of ToIndexModel.                     *)
THEOREM AnnotationInvariance == Spec => []Inv
  <1>1. Init => Inv
    BY InvInit
  <1>2. QED
    BY <1>1, InvStep, PTL DEF Spec

(* Every slice of the map lies within its array, every field holds labels  *)
(* and identifiers, and so do the primary section and theme: no step reads *)
(* behind the end of an array or uses what is not there.                   *)
THEOREM TypeCorrect == Spec => []TypeOK
  <1>1. Inv => TypeOK
    BY DEF Inv, MapInv, FieldTypeOK, TypeOK, Model
  <1>2. QED
    BY <1>1, AnnotationInvariance, PTL

(* TransformToConceptModel: while no alias has rows of its own, the entry  *)
(* of a concept is its TME ids in the order of the rows, and that of an    *)
(* alias those its concept had at the row that made it one, whichever      *)
(* slices share an array and whatever is appended to it.                   *)
THEOREM EntriesAreExact == Spec => []EntriesExact
  <1>1. Inv => EntriesExact
    BY EntriesFromInv DEF Inv
  <1>2. QED
    BY <1>1, AnnotationInvariance, PTL

(* Also when entries overwrite each other's elements: an entry holds ids   *)
(* of names that UPP rows tie to its own, and no element never set.        *)
THEOREM NoIDIsForeign == Spec => []NoForeignIDs
  <1>1. Inv => NoForeignIDs
    BY NoForeignFromInv DEF Inv
  <1>2. QED
    BY <1>1, AnnotationInvariance, PTL

(* populatePrimaryTheme: the theme is the label and an identifier of an    *)
(* "about" annotation, the identifier is among the sections', and no other *)
(* candidate comes before it in the alphabet.                              *)
THEOREM ThemeIsConsistent == Spec => []ThemeConsistent
  <1>1. Inv => ThemeConsistent
    BY DEF Inv
  <1>2. QED
    BY <1>1, AnnotationInvariance, PTL

(* A set of indices that is not empty has a last one.                      *)
LEMMA GreatestIndex ==
    ASSUME NEW n \in Nat, NEW S \in SUBSET (1 .. n), S # {}
    PROVE  \E j \in S : \A k \in S : k <= j
  <1> DEFINE T == {n - j : j \in S}
  <1>1. T \in SUBSET Nat /\ T # {}
    <2>1. \A j \in S : n - j \in Nat
      OBVIOUS
    <2>2. PICK j \in S : TRUE
      OBVIOUS
    <2>3. n - j \in T
      OBVIOUS
    <2>4. QED
      BY <2>1, <2>3
  <1> HIDE DEF T
  <1>2. PICK t \in T : \A u \in T : t <= u
    BY <1>1, LeastIndex
  <1>3. PICK j \in S : t = n - j
    BY DEF T
  <1>4. ASSUME NEW k \in S PROVE k <= j
    <2>1. n - k \in T
      BY DEF T
    <2>2. n - j <= n - k
      BY <1>2, <1>3, <2>1
    <2>3. QED
      BY <2>2
  <1>5. QED
    BY <1>4

(* handlePrimarySection: the primary section is the label and an           *)
(* identifier of the last primary classification that was found, and the   *)
(* identifier is among the sections'.                                      *)
THEOREM SectionIsConsistent == Spec => []SectionConsistent
  <1>1. ASSUME Inv PROVE SectionConsistent
    <2> DEFINE primary == {j \in 1 .. i : /\ annotations[j].predicate = "isPrimaryClassifiedBy"
                                          /\ Found(annotations[j])}
               last == CHOOSE j \in primary : \A k \in primary : k <= j
    <2>1. SUFFICES ASSUME primary # {}
                   PROVE  LET a == annotations[last]
                          IN  /\ section.name = a.label
                              /\ section.id \in ToSet(AnnIDs(a))
                              /\ section.id \in ToSet(model["sections"].ids)
      BY Zenon DEF SectionConsistent
    <2>2. i \in Nat /\ primary \in SUBSET (1 .. i)
      BY <1>1 DEF Inv, FieldTypeOK
    <2> HIDE DEF primary
    <2>3. \E j \in primary : \A k \in primary : k <= j
      BY <2>1, <2>2, GreatestIndex
    <2>4. last \in primary /\ \A k \in primary : k <= last
      BY <2>3
    <2> HIDE DEF last
    <2>5. last \in 1 .. i /\ IsPrimary(annotations[last])
      BY <2>4 DEF primary, IsPrimary
    <2>6. \A k \in 1 .. i : IsPrimary(annotations[k]) => k <= last
      BY <2>4 DEF primary, IsPrimary
    <2>7. /\ section.name = annotations[last].label
          /\ section.id \in ToSet(AnnIDs(annotations[last]))
      BY <1>1, <2>5, <2>6 DEF Inv, SectionInv
    <2>8. ToSet(AnnIDs(annotations[last])) \subseteq ToSet(model["sections"].ids)
      BY <1>1, <2>5, SectionsHold DEF Inv, IsPrimary, Sections
    <2>9. QED
      BY <2>7, <2>8
  <1>2. QED
    BY <1>1, AnnotationInvariance, PTL

(* What the rows say of an annotation is what the complete map has of it.  *)
LEMMA Identified ==
    ASSUME MapInv, done = Len(rows), ~Tangled(Len(rows)), NEW a \in Annotation
    PROVE  /\ Found(a) <=> Said(a.id, Len(rows)) # Missing
           /\ Found(a) => AnnIDs(a) = SaidIDs(a)
  <1>1. a.id \in Concept
    BY DEF Annotation
  <1>2. Read(a.id) = Said(a.id, Len(rows))
    BY <1>1, EntriesFromInv DEF EntriesExact
  <1>3. Found(a) <=> Read(a.id) # Missing
    BY <1>1, ReadEntry DEF Found, MapInv, Read
  <1>4. QED
    BY <1>2, <1>3 DEF AnnIDs, SaidIDs

LEMMA ContributesIs ==
    ASSUME NEW a \in Annotation, NEW f \in Field
    PROVE  Contributes(a, f) <=>
              Said(a.id, Len(rows)) # Missing /\ f \in Gives(a, SaidIDs(a))
  <1> DEFINE ids == SaidIDs(a)
             said == Said(a.id, Len(rows)) # Missing
  <1>1. a.types \in Seq(STRING) /\ DOMAIN a.types = 1 .. Len(a.types)
    BY DEF Annotation
  <1>2. Contributes(a, f) <=>
           /\ said
           /\ \/ f = "sections" /\ a.predicate \in Sections
              \/ \E t \in Plain \cap Types(a) : f = FieldOf[t]
              \/ f = "people" /\ "person" \in Types(a) /\ IsPeople(ids)
              \/ /\ f = "authors" /\ "person" \in Types(a)
                 /\ a.predicate \in Authoring /\ HasCmrID("Authors", ids)
    BY DEF Contributes, IsPeople
  <1> HIDE DEF ids, said
  <1>3. (\/ \E t \in Plain \cap Types(a) : f = FieldOf[t]
         \/ f = "people" /\ "person" \in Types(a) /\ IsPeople(ids)
         \/ /\ f = "authors" /\ "person" \in Types(a)
            /\ a.predicate \in Authoring /\ HasCmrID("Authors", ids))
        <=> \E j \in 1 .. Len(a.types) : GivesType(a, ids, a.types[j], f)
    BY <1>1 DEF Types, GivesType
  <1>4. f \in Gives(a, ids) <=> \/ f = "sections" /\ a.predicate \in Sections
                                \/ \E j \in 1 .. Len(a.types) : GivesType(a, ids, a.types[j], f)
    BY DEF Gives, GivesUpTo
  <1>5. QED
    BY <1>2, <1>3, <1>4 DEF ids, said

(* From the rows to the document: while no alias has rows of its own, every *)
(* field holds the labels of exactly the annotations that contribute to it *)
(* and the identifiers the rows give those, each once, and nothing comes   *)
(* from an annotation that is ignored.                                     *)
THEOREM FieldsAreExact == Spec => []FieldsExact
  <1>1. ASSUME Inv PROVE FieldsExact
    <2>1. SUFFICES ASSUME pc # "lookup", ~Tangled(Len(rows)), NEW f \in Field
                   PROVE  LET from == {a \in Mapped : Contributes(a, f)}
                          IN  /\ ToSet(model[f].names) = {a.label : a \in from}
                              /\ ToSet(model[f].ids) = UNION {Contributed(a, f) : a \in from}
                              /\ \A a \in from : a.predicate \notin Ignored
                              /\ IsInjective(model[f].names)
                              /\ IsInjective(model[f].ids)
      BY DEF FieldsExact
    <2> DEFINE from == {a \in Mapped : Contributes(a, f)}
               pairs == {p \in Pairs : f \in Gives(p[1], p[2])}
    <2>2. /\ annotations \in Seq(Annotation) /\ i \in 0 .. Len(annotations) /\ MapInv
          /\ (i > 0 => done = Len(rows))
          /\ (i > 0 => \A j \in DOMAIN annotations : IsLookedUp(annotations[j]))
          /\ FieldsHold(model, Pairs)
      BY <1>1 DEF Inv, FieldTypeOK, OrderInv, FieldsInv
    <2>3. /\ ToSet(model[f].names) = {p[1].label : p \in pairs}
          /\ ToSet(model[f].ids) = UNION {What(p[2], f) : p \in pairs}
          /\ IsInjective(model[f].names) /\ IsInjective(model[f].ids)
      BY <2>2 DEF FieldsHold, Clean
    <2>4. ASSUME NEW a \in Mapped
          PROVE  /\ a \in Annotation /\ a.predicate \notin Ignored
                 /\ Contributes(a, f) <=> Found(a) /\ f \in Gives(a, AnnIDs(a))
                 /\ Found(a) => AnnIDs(a) = SaidIDs(a)
      <3>1. PICK j \in 1 .. i : a = annotations[j]
        BY DEF Mapped
      <3>2. i > 0 /\ j \in DOMAIN annotations /\ a \in Annotation
        BY <2>2, <3>1
      <3>3. IsLookedUp(a)
        BY <2>2, <3>1, <3>2
      <3>4. done = Len(rows)
        BY <2>2, <3>2
      <3>5. /\ Found(a) <=> Said(a.id, Len(rows)) # Missing
            /\ Found(a) => AnnIDs(a) = SaidIDs(a)
        BY <2>1, <2>2, <3>2, <3>4, Identified
      <3>6. Contributes(a, f) <=>
              Said(a.id, Len(rows)) # Missing /\ f \in Gives(a, SaidIDs(a))
        BY <3>2, ContributesIs
      <3>7. QED
        BY <3>2, <3>3, <3>5, <3>6 DEF IsLookedUp
    <2>5. ASSUME NEW a \in from
          PROVE  <<a, SaidIDs(a)>> \in pairs
      <3>1. a \in Mapped /\ Found(a) /\ AnnIDs(a) = SaidIDs(a) /\ f \in Gives(a, AnnIDs(a))
        BY <2>4
      <3>2. <<a, AnnIDs(a)>> \in Pairs
        BY <3>1 DEF Mapped, Pairs
      <3>3. QED
        BY <3>1, <3>2
    <2>6. ASSUME NEW p \in pairs
          PROVE  p[1] \in from /\ p[2] = SaidIDs(p[1])
      <3>1. PICK j \in 1 .. i :
               Found(annotations[j]) /\ p = <<annotations[j], AnnIDs(annotations[j])>>
        BY DEF Pairs
      <3>2. p[1] = annotations[j] /\ p[2] = AnnIDs(p[1]) /\ Found(p[1]) /\ f \in Gives(p[1], p[2])
        BY <3>1
      <3>3. p[1] \in Mapped
        BY <3>2 DEF Mapped
      <3>4. QED
        BY <2>4, <3>2, <3>3
    <2>7. \A a : Contributed(a, f) = What(SaidIDs(a), f)
      BY DEF Contributed, What
    <2>8. \A a \in from : a.predicate \notin Ignored
      BY <2>4
    <2> HIDE DEF from, pairs
    <2>9. {p[1].label : p \in pairs} = {a.label : a \in from}
      <3>1. ASSUME NEW a \in from PROVE \E p \in pairs : a.label = p[1].label
        BY <2>5
      <3>2. QED
        BY <2>6, <3>1
    <2>10. UNION {What(p[2], f) : p \in pairs} = UNION {Contributed(a, f) : a \in from}
      <3>1. ASSUME NEW a \in from PROVE \E p \in pairs : Contributed(a, f) = What(p[2], f)
        BY <2>5, <2>7
      <3>2. ASSUME NEW p \in pairs PROVE \E a \in from : Contributed(a, f) = What(p[2], f)
        BY <2>6, <2>7
      <3>3. QED
        BY <3>1, <3>2
    <2>11. QED
      BY <2>3, <2>8, <2>9, <2>10 DEF from
  <1>2. QED
    BY <1>1, AnnotationInvariance, PTL

=============================================================================
