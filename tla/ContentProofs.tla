---------------------------- MODULE ContentProofs ----------------------------
(***************************************************************************)
(* Theorems about ContentFields, and the lemmas they rest on: what a text  *)
(* keeps when positions are left out of it, which every transformer but    *)
(* the one for entities does; what each transformer, and each list of      *)
(* them, leaves of a text; and what the stages of the mapper have done.    *)
(*                                                                         *)
(* The second half is about the words of a text made of blocks: no         *)
(* transformer takes what is in one block for a part of the next, so that  *)
(* each adds its own words to those of the text behind it.                 *)
(***************************************************************************)
EXTENDS ContentFields, WellFoundedInduction, TLAPS

(* Induction over the natural numbers, and functions defined by recursion  *)
(* over the indices of a list. *)

LEMMA LeastIndex ==
    ASSUME NEW S \in SUBSET Nat, S # {}
    PROVE  \E j \in S : \A k \in S : j <= k
  <1>1. IsWellFoundedOn(OpToRel(<, Nat), Nat)
    BY NatLessThanWellFounded
  <1>2. PICK j \in S : \A k \in S : ~(<<k, j>> \in OpToRel(<, Nat))
    BY <1>1, WFMin
  <1>3. \A k \in S : ~(k < j)
    BY <1>2 DEF OpToRel
  <1>4. QED
    BY <1>3

LEMMA Induction ==
    ASSUME NEW S \in SUBSET Nat, 0 \in S, \A n \in Nat : n \in S => n + 1 \in S
    PROVE  \A n \in Nat : n \in S
  <1>1. SUFFICES ASSUME NEW n \in Nat, n \notin S PROVE FALSE
    OBVIOUS
  <1>2. PICK j \in Nat \ S : \A k \in Nat \ S : j <= k
    BY <1>1, LeastIndex
  <1>3. j # 0 /\ j - 1 \in Nat
    BY <1>2
  <1>4. j - 1 \in S
    BY <1>2, <1>3
  <1>5. (j - 1) + 1 = j
    BY <1>2
  <1>6. QED
    BY <1>2, <1>3, <1>4, <1>5

(* A list of steps, each a function on D, can be run from any element of D. *)
LEMMA Run ==
    ASSUME NEW D, NEW base \in D, NEW N \in Nat, NEW step \in [1 .. N -> [D -> D]]
    PROVE  \E g \in [0 .. N -> D] :
              g[0] = base /\ \A n \in 1 .. N : g[n] = step[n][g[n - 1]]
  <1> DEFINE Runs(n, g) ==
                /\ g \in [0 .. n -> D] /\ g[0] = base
                /\ \A k \in 1 .. n : g[k] = step[k][g[k - 1]]
             S == {n \in Nat : n <= N => \E g : Runs(n, g)}
  <1>1. 0 \in S
    <2>1. Runs(0, [k \in 0 .. 0 |-> base])
      OBVIOUS
    <2>2. QED
      BY <2>1
  <1>2. ASSUME NEW n \in Nat, n \in S, n + 1 <= N PROVE \E g : Runs(n + 1, g)
    <2>1. PICK g : Runs(n, g)
      BY <1>2
    <2> DEFINE h == [k \in 0 .. n + 1 |-> IF k <= n THEN g[k] ELSE step[n + 1][g[n]]]
    <2>2. step[n + 1] \in [D -> D] /\ g[n] \in D
      BY <1>2, <2>1
    <2>3. h \in [0 .. n + 1 -> D]
      BY <2>1, <2>2
    <2>4. h[0] = base
      BY <2>1
    <2>5. ASSUME NEW k \in 1 .. n + 1 PROVE h[k] = step[k][h[k - 1]]
      <3>1. CASE k <= n
        BY <2>1, <2>5, <3>1
      <3>2. CASE k = n + 1
        BY <3>2
      <3>3. QED
        BY <3>1, <3>2
    <2>6. QED
      BY <2>3, <2>4, <2>5
  <1> HIDE DEF Runs
  <1>3. \A n \in Nat : n \in S => n + 1 \in S
    BY <1>2
  <1> HIDE DEF S
  <1>4. N \in S
    BY <1>1, <1>3, Induction DEF S
  <1>5. PICK g : Runs(N, g)
    BY <1>4 DEF S
  <1>6. QED
    BY <1>5 DEF Runs

(* What a function of that kind is, once one is known to exist, follows     *)
(* step by step.                                                           *)
LEMMA Stays ==
    ASSUME NEW D, NEW N \in Nat, NEW t, t[0] \in D,
           \A n \in 1 .. N : t[n - 1] \in D => t[n] \in D
    PROVE  \A n \in 0 .. N : t[n] \in D
  <1> DEFINE S == {n \in Nat : n <= N => t[n] \in D}
  <1>1. 0 \in S
    OBVIOUS
  <1>2. ASSUME NEW n \in Nat, n \in S PROVE n + 1 \in S
    <2>1. ASSUME n + 1 <= N PROVE t[n + 1] \in D
      <3>1. n + 1 \in 1 .. N /\ (n + 1) - 1 = n /\ t[n] \in D
        BY <1>2, <2>1
      <3>2. QED
        BY <3>1
    <2>2. QED
      BY <2>1
  <1> HIDE DEF S
  <1>3. \A n \in Nat : n \in S
    BY <1>1, <1>2, Induction DEF S
  <1>4. QED
    BY <1>3 DEF S

(* What holds of a step's result if it holds before holds of each.         *)
LEMMA UpTo ==
    ASSUME NEW N \in Nat, NEW S, 0 \in S, \A n \in 1 .. N : n - 1 \in S => n \in S
    PROVE  \A n \in 0 .. N : n \in S
  <1> DEFINE t == [n \in Nat |-> n]
  <1>1. t[0] \in S
    OBVIOUS
  <1>2. \A n \in 1 .. N : t[n - 1] \in S => t[n] \in S
    OBVIOUS
  <1> HIDE DEF t
  <1>3. \A n \in 0 .. N : t[n] \in S
    BY <1>1, <1>2, Stays
  <1>4. QED
    BY <1>3 DEF t

-----------------------------------------------------------------------------
(* The positions a transformer keeps of a text. *)

KeepStep(t, S, n, s) == IF n \in S THEN Append(s, t[n]) ELSE s

Keeps(t, N, S) ==
    CHOOSE kept : kept = [n \in 0 .. N |->
        IF n = 0 THEN << >>
        ELSE IF n \in S THEN Append(kept[n - 1], t[n])
        ELSE kept[n - 1]]

KeptIn(D, t, N, S) ==
    LET kept == Keeps(t, N, S)
    IN  /\ kept[0] = << >>
        /\ \A n \in 0 .. N : kept[n] \in D
        /\ \A n \in 1 .. N : kept[n] = KeepStep(t, S, n, kept[n - 1])

LEMMA KeepRun ==
    ASSUME NEW D, << >> \in D, NEW t, NEW N \in Nat, NEW S
    PROVE  (\A n \in 1 .. N : \A s \in D : KeepStep(t, S, n, s) \in D) => KeptIn(D, t, N, S)
  <1> DEFINE step == [n \in 1 .. N |-> [s \in D |-> KeepStep(t, S, n, s)]]
             Value(g, n) == IF n = 0 THEN << >>
                           ELSE IF n \in S THEN Append(g[n - 1], t[n])
                           ELSE g[n - 1]
             kept == Keeps(t, N, S)
  <1>1. ASSUME \A n \in 1 .. N : \A s \in D : KeepStep(t, S, n, s) \in D
        PROVE  /\ kept[0] = << >>
               /\ \A n \in 0 .. N : kept[n] \in D
               /\ \A n \in 1 .. N : kept[n] = KeepStep(t, S, n, kept[n - 1])
    <2>1. step \in [1 .. N -> [D -> D]]
      BY <1>1
    <2> HIDE DEF step
    <2>2. PICK g \in [0 .. N -> D] :
             g[0] = << >> /\ \A n \in 1 .. N : g[n] = step[n][g[n - 1]]
      BY <2>1, Run
    <2>3. ASSUME NEW n \in 0 .. N PROVE g[n] = Value(g, n)
      <3>1. CASE n # 0
        <4>1. n - 1 \in 0 .. N /\ n \in 1 .. N
          BY <3>1
        <4>2. g[n - 1] \in D
          BY <2>2, <4>1
        <4>3. QED
          BY <2>2, <3>1, <4>1, <4>2 DEF step, KeepStep
      <3>2. QED
        BY <2>2, <3>1
    <2>4. g = [n \in 0 .. N |-> Value(g, n)]
      <3> HIDE DEF Value
      <3>1. QED
        BY <2>2, <2>3
    <2>5. kept = [n \in 0 .. N |-> Value(kept, n)]
      BY <2>4, Zenon DEF Keeps
    <2> HIDE DEF Value, kept
    <2>6. ASSUME NEW n \in 0 .. N PROVE kept[n] = Value(kept, n)
      <3>1. [k \in 0 .. N |-> Value(kept, k)][n] = Value(kept, n)
        OBVIOUS
      <3>2. QED
        BY <2>5, <3>1, Zenon
    <2>7. kept[0] = << >>
      BY <2>6 DEF Value
    <2>8. ASSUME NEW n \in 1 .. N PROVE kept[n] = KeepStep(t, S, n, kept[n - 1])
      BY <2>6 DEF Value, KeepStep
    <2>9. \A n \in 0 .. N : kept[n] \in D
      BY <1>1, <2>7, <2>8, Stays
    <2>10. QED
      BY <2>7, <2>8, <2>9
  <1> HIDE DEF kept
  <1>2. QED
    BY <1>1 DEF kept, KeptIn

(* f leads through the positions S from the left to the right, and u is    *)
(* what t has there.                                                       *)
Through(f, m, S) ==
    /\ f \in [1 .. m -> S]
    /\ \A j, k \in 1 .. m : j < k => f[j] < f[k]
    /\ \A n \in S : \E j \in 1 .. m : f[j] = n

Reads(u, t, S) ==
    \E f : Through(f, Len(u), S) /\ \A j \in 1 .. Len(u) : u[j] = t[f[j]]

LEMMA ReadsNext ==
    ASSUME NEW E, NEW t \in Seq(E), NEW S \in SUBSET (DOMAIN t), NEW n \in 1 .. Len(t),
           NEW u \in Seq(E), Reads(u, t, {k \in S : k <= n - 1})
    PROVE  Reads(KeepStep(t, S, n, u), t, {k \in S : k <= n})
  <1> DEFINE m == Len(u)
             A == {k \in S : k <= n - 1}
             B == {k \in S : k <= n}
  <1>0. m \in Nat /\ S \subseteq Nat /\ n \in Nat
    OBVIOUS
  <1>1. PICK f : Through(f, m, A) /\ \A j \in 1 .. m : u[j] = t[f[j]]
    BY DEF Reads
  <1>2. CASE n \notin S
    <2>1. A = B
      BY <1>0, <1>2
    <2>2. KeepStep(t, S, n, u) = u
      BY <1>2 DEF KeepStep
    <2>3. QED
      BY <2>1, <2>2
  <1>3. CASE n \in S
    <2> DEFINE r == Append(u, t[n])
               h == [j \in 1 .. m + 1 |-> IF j <= m THEN f[j] ELSE n]
    <2>1. r \in Seq(E) /\ Len(r) = m + 1 /\ r[m + 1] = t[n] /\ \A j \in 1 .. m : r[j] = u[j]
      OBVIOUS
    <2>2. \A j \in 1 .. m : f[j] \in A
      BY <1>1 DEF Through
    <2>3. h \in [1 .. m + 1 -> B]
      BY <1>0, <1>3, <2>2
    <2>4. ASSUME NEW j \in 1 .. m + 1, NEW k \in 1 .. m + 1, j < k PROVE h[j] < h[k]
      <3>1. CASE k <= m
        BY <1>0, <1>1, <2>4, <3>1 DEF Through
      <3>2. CASE k = m + 1
        <4>1. j \in 1 .. m /\ h[j] = f[j] /\ h[k] = n
          BY <1>0, <2>4, <3>2
        <4>2. QED
          BY <1>0, <2>2, <4>1
      <3>3. QED
        BY <1>0, <3>1, <3>2
    <2>5. ASSUME NEW k \in B PROVE \E j \in 1 .. m + 1 : h[j] = k
      <3>1. CASE k \in A
        <4>1. PICK j \in 1 .. m : f[j] = k
          BY <1>1, <3>1 DEF Through
        <4>2. j \in 1 .. m + 1 /\ h[j] = k
          BY <1>0, <4>1
        <4>3. QED
          BY <4>2
      <3>2. CASE k = n
        <4>1. m + 1 \in 1 .. m + 1 /\ h[m + 1] = n
          BY <1>0
        <4>2. QED
          BY <3>2, <4>1
      <3>3. QED
        BY <1>0, <3>1, <3>2
    <2>6. ASSUME NEW j \in 1 .. m + 1 PROVE r[j] = t[h[j]]
      BY <1>0, <1>1, <2>1
    <2> HIDE DEF r, h, B
    <2>7. Through(h, Len(r), B)
      BY <2>1, <2>3, <2>4, <2>5 DEF Through
    <2>8. Reads(r, t, B)
      BY <2>1, <2>6, <2>7 DEF Reads
    <2>9. KeepStep(t, S, n, u) = r
      BY <1>3 DEF KeepStep, r
    <2>10. QED
      BY <2>8, <2>9 DEF B
  <1>4. QED
    BY <1>2, <1>3

(* What is kept of a text is what it has at those positions, in order.     *)
LEMMA Kept ==
    ASSUME NEW E, NEW t \in Seq(E), NEW S \in SUBSET (DOMAIN t)
    PROVE  Keep(t, S) \in Seq(E) /\ Reads(Keep(t, S), t, S)
  <1> DEFINE N == Len(t)
             D == Seq(E)
             kept == Keeps(t, N, S)
             Good == {n \in 0 .. N : Reads(kept[n], t, {k \in S : k <= n})}
  <1>1. Keep(t, S) = kept[N]
    BY Zenon DEF Keep, Keeps
  <1>2. N \in Nat /\ << >> \in D
    OBVIOUS
  <1>3. \A n \in 1 .. N : \A s \in D : KeepStep(t, S, n, s) \in D
    <2>1. ASSUME NEW n \in 1 .. N, NEW s \in D PROVE KeepStep(t, S, n, s) \in D
      <3>1. t[n] \in E
        OBVIOUS
      <3>2. QED
        BY <3>1 DEF KeepStep
    <2>2. QED
      BY <2>1
  <1>4. KeptIn(D, t, N, S)
    <2> HIDE DEF D, N
    <2>1. QED
      BY <1>2, <1>3, KeepRun
  <1>5. 0 \in Good
    <2>1. kept[0] = << >>
      BY <1>4, Zenon DEF KeptIn
    <2>2. Through(<< >>, 0, {})
      BY DEF Through
    <2>3. {k \in S : k <= 0} = {}
      OBVIOUS
    <2>4. Reads(<< >>, t, {})
      BY <2>2 DEF Reads
    <2>5. Reads(kept[0], t, {k \in S : k <= 0})
      BY <2>1, <2>3, <2>4, Zenon
    <2>6. 0 \in 0 .. N
      BY <1>2
    <2> HIDE DEF kept, N
    <2>7. QED
      BY <2>5, <2>6
  <1>6. ASSUME NEW n \in 1 .. N, n - 1 \in Good PROVE n \in Good
    <2>1. kept[n] = KeepStep(t, S, n, kept[n - 1]) /\ kept[n - 1] \in D
      <3>1. n - 1 \in 0 .. N
        BY <1>2
      <3>2. QED
        BY <1>4, <3>1, Zenon DEF KeptIn
    <2> HIDE DEF kept
    <2>2. Reads(kept[n - 1], t, {k \in S : k <= n - 1})
      BY <1>6
    <2>3. Reads(KeepStep(t, S, n, kept[n - 1]), t, {k \in S : k <= n})
      BY <2>1, <2>2, ReadsNext
    <2>4. QED
      BY <2>1, <2>3
  <1>7. \A n \in 0 .. N : n \in Good
    <2> HIDE DEF Good
    <2>1. QED
      BY <1>2, <1>5, <1>6, UpTo
  <1>8. kept[N] \in D
    <2>1. N \in 0 .. N
      BY <1>2
    <2>2. QED
      BY <1>4, <2>1, Zenon DEF KeptIn
  <1>9. {k \in S : k <= N} = S
    OBVIOUS
  <1>10. QED
    BY <1>1, <1>2, <1>7, <1>8, <1>9

(* A lexeme a of t has a b behind it.                                      *)
Pair(t, a, b) == \E j, k \in DOMAIN t : j < k /\ t[j] = a /\ t[k] = b

(* What is left of t: lexemes of t, in their order.                        *)
Part(u, t) ==
    /\ ToSet(u) \subseteq ToSet(t)
    /\ \A a, b : Pair(u, a, b) => Pair(t, a, b)

LEMMA KeptIsPart ==
    ASSUME NEW E, NEW t \in Seq(E), NEW S \in SUBSET (DOMAIN t)
    PROVE  Part(Keep(t, S), t)
  <1> DEFINE u == Keep(t, S)
             m == Len(u)
  <1>1. u \in Seq(E) /\ Reads(u, t, S)
    BY Kept
  <1> HIDE DEF u
  <1>2. PICK f : Through(f, m, S) /\ \A j \in 1 .. m : u[j] = t[f[j]]
    BY <1>1 DEF Reads
  <1>3. m \in Nat /\ DOMAIN u = 1 .. m
    BY <1>1
  <1>4. \A j \in 1 .. m : f[j] \in DOMAIN t
    BY <1>2 DEF Through
  <1>5. ToSet(u) \subseteq ToSet(t)
    BY <1>2, <1>3, <1>4 DEF ToSet
  <1>6. ASSUME NEW a, NEW b, Pair(u, a, b) PROVE Pair(t, a, b)
    <2>1. PICK j \in 1 .. m, k \in 1 .. m : j < k /\ u[j] = a /\ u[k] = b
      BY <1>3, <1>6 DEF Pair
    <2>2. f[j] < f[k] /\ t[f[j]] = a /\ t[f[k]] = b
      BY <1>2, <2>1 DEF Through
    <2>3. QED
      BY <1>4, <2>1, <2>2 DEF Pair
  <1>7. QED
    BY <1>5, <1>6 DEF Part, u

(* Every lexeme that is kept comes from a position that is.                *)
LEMMA KeptFrom ==
    ASSUME NEW E, NEW t \in Seq(E), NEW S \in SUBSET (DOMAIN t),
           NEW x \in ToSet(Keep(t, S))
    PROVE  \E n \in S : t[n] = x
  <1> DEFINE u == Keep(t, S)
             m == Len(u)
  <1>1. u \in Seq(E) /\ Reads(u, t, S)
    BY Kept
  <1>2. PICK j \in DOMAIN u : u[j] = x
    BY DEF ToSet
  <1> HIDE DEF u
  <1>3. PICK f : Through(f, m, S) /\ \A k \in 1 .. m : u[k] = t[f[k]]
    BY <1>1 DEF Reads
  <1>4. j \in 1 .. m
    BY <1>1, <1>2
  <1>5. f[j] \in S /\ t[f[j]] = x
    BY <1>2, <1>3, <1>4 DEF Through
  <1>6. QED
    BY <1>5

(* No pair is kept whose first position is left out.                       *)
LEMMA PairFrom ==
    ASSUME NEW E, NEW t \in Seq(E), NEW S \in SUBSET (DOMAIN t), NEW a, NEW b,
           Pair(Keep(t, S), a, b)
    PROVE  \E j \in S, k \in DOMAIN t : j < k /\ t[j] = a /\ t[k] = b
  <1> DEFINE u == Keep(t, S)
             m == Len(u)
  <1>1. u \in Seq(E) /\ Reads(u, t, S)
    BY Kept
  <1>2. PICK j \in DOMAIN u, k \in DOMAIN u : j < k /\ u[j] = a /\ u[k] = b
    BY DEF Pair
  <1> HIDE DEF u
  <1>3. PICK f : Through(f, m, S) /\ \A n \in 1 .. m : u[n] = t[f[n]]
    BY <1>1 DEF Reads
  <1>4. j \in 1 .. m /\ k \in 1 .. m
    BY <1>1, <1>2
  <1>5. f[j] \in S /\ f[k] \in DOMAIN t /\ f[j] < f[k] /\ t[f[j]] = a /\ t[f[k]] = b
    BY <1>2, <1>3, <1>4 DEF Through
  <1>6. QED
    BY <1>5

(* A text begins and ends as before if its ends are kept.                  *)
LEMMA FirstKept ==
    ASSUME NEW E, NEW t \in Seq(E), NEW S \in SUBSET (DOMAIN t), 1 \in S
    PROVE  Keep(t, S) # << >> /\ Keep(t, S)[1] = t[1]
  <1> DEFINE u == Keep(t, S)
             m == Len(u)
  <1>1. u \in Seq(E) /\ Reads(u, t, S)
    BY Kept
  <1> HIDE DEF u
  <1>2. PICK f : Through(f, m, S) /\ \A n \in 1 .. m : u[n] = t[f[n]]
    BY <1>1 DEF Reads
  <1>3. m \in Nat /\ S \subseteq Nat /\ \A n \in S : n >= 1
    BY <1>1
  <1>4. PICK j \in 1 .. m : f[j] = 1
    BY <1>2 DEF Through
  <1>5. 1 \in 1 .. m
    BY <1>3, <1>4
  <1>6. f[1] = 1
    <2>1. f[1] \in S
      BY <1>2, <1>5 DEF Through
    <2>2. CASE 1 < j
      <3>1. f[1] < f[j]
        BY <1>2, <1>5, <2>2 DEF Through
      <3>2. QED
        BY <1>3, <1>4, <2>1, <3>1
    <2>3. CASE j = 1
      BY <1>4, <2>3
    <2>4. QED
      BY <1>3, <1>4, <2>2, <2>3
  <1>7. u # << >> /\ u[1] = t[1]
    BY <1>1, <1>2, <1>5, <1>6
  <1>8. QED
    BY <1>7 DEF u

LEMMA LastKept ==
    ASSUME NEW E, NEW t \in Seq(E), NEW S \in SUBSET (DOMAIN t), Len(t) \in S
    PROVE  Keep(t, S) # << >> /\ Last(Keep(t, S)) = Last(t)
  <1> DEFINE u == Keep(t, S)
             m == Len(u)
             N == Len(t)
  <1>1. u \in Seq(E) /\ Reads(u, t, S)
    BY Kept
  <1> HIDE DEF u
  <1>2. PICK f : Through(f, m, S) /\ \A n \in 1 .. m : u[n] = t[f[n]]
    BY <1>1 DEF Reads
  <1>3. m \in Nat /\ S \subseteq Nat /\ \A n \in S : n <= N
    BY <1>1
  <1>4. PICK j \in 1 .. m : f[j] = N
    BY <1>2 DEF Through
  <1>5. m \in 1 .. m
    BY <1>3, <1>4
  <1>6. f[m] = N
    <2>1. f[m] \in S
      BY <1>2, <1>5 DEF Through
    <2>2. CASE j < m
      <3>1. f[j] < f[m]
        BY <1>2, <1>5, <2>2 DEF Through
      <3>2. QED
        BY <1>3, <1>4, <2>1, <3>1
    <2>3. CASE j = m
      BY <1>4, <2>3
    <2>4. QED
      BY <1>3, <1>4, <2>2, <2>3
  <1>7. u # << >> /\ u[m] = t[N]
    BY <1>1, <1>2, <1>5, <1>6
  <1>8. QED
    BY <1>7 DEF u, Last

-----------------------------------------------------------------------------
(* Cut. *)

LEMMA MinIsLeast ==
    ASSUME NEW S \in SUBSET Nat, S # {}
    PROVE  Min(S) \in S /\ \A n \in S : Min(S) <= n
  <1>1. \E j \in S : \A k \in S : j <= k
    BY LeastIndex
  <1>2. QED
    BY <1>1 DEF Min

CutStep(ends, n, before) ==
    IF n <= before \/ ends[n] = {} THEN before ELSE Min(ends[n])

Cuts(N, ends) ==
    CHOOSE through : through = [n \in 0 .. N |->
        IF n = 0 THEN 0
        ELSE LET before == through[n - 1]
             IN  IF n <= before \/ ends[n] = {} THEN before ELSE Min(ends[n])]

CutIn(D, N, ends) ==
    LET through == Cuts(N, ends)
    IN  /\ through[0] = 0
        /\ \A n \in 0 .. N : through[n] \in D
        /\ \A n \in 1 .. N : through[n] = CutStep(ends, n, through[n - 1])

LEMMA CutRun ==
    ASSUME NEW D, 0 \in D, NEW N \in Nat, NEW ends
    PROVE  (\A n \in 1 .. N : \A b \in D : CutStep(ends, n, b) \in D) => CutIn(D, N, ends)
  <1> DEFINE step == [n \in 1 .. N |-> [b \in D |-> CutStep(ends, n, b)]]
             Value(g, n) == IF n = 0 THEN 0
                            ELSE LET before == g[n - 1]
                                 IN  IF n <= before \/ ends[n] = {} THEN before
                                     ELSE Min(ends[n])
             through == Cuts(N, ends)
  <1>1. ASSUME \A n \in 1 .. N : \A b \in D : CutStep(ends, n, b) \in D
        PROVE  /\ through[0] = 0
               /\ \A n \in 0 .. N : through[n] \in D
               /\ \A n \in 1 .. N : through[n] = CutStep(ends, n, through[n - 1])
    <2>1. step \in [1 .. N -> [D -> D]]
      BY <1>1
    <2> HIDE DEF step
    <2>2. PICK g \in [0 .. N -> D] :
             g[0] = 0 /\ \A n \in 1 .. N : g[n] = step[n][g[n - 1]]
      BY <2>1, Run
    <2>3. ASSUME NEW n \in 0 .. N PROVE g[n] = Value(g, n)
      <3>1. CASE n # 0
        <4>1. n - 1 \in 0 .. N /\ n \in 1 .. N
          BY <3>1
        <4>2. g[n - 1] \in D
          BY <2>2, <4>1
        <4>3. g[n] = CutStep(ends, n, g[n - 1])
          BY <2>2, <4>1, <4>2 DEF step
        <4>4. QED
          BY <3>1, <4>3, Zenon DEF CutStep
      <3>2. CASE n = 0
        BY <2>2, <3>2
      <3>3. QED
        BY <3>1, <3>2
    <2>4. g = [n \in 0 .. N |-> Value(g, n)]
      <3> HIDE DEF Value
      <3>1. QED
        BY <2>2, <2>3
    <2>5. through = [n \in 0 .. N |-> Value(through, n)]
      BY <2>4, Zenon DEF Cuts
    <2> HIDE DEF Value, through
    <2>6. ASSUME NEW n \in 0 .. N PROVE through[n] = Value(through, n)
      <3>1. [k \in 0 .. N |-> Value(through, k)][n] = Value(through, n)
        OBVIOUS
      <3>2. QED
        BY <2>5, <3>1, Zenon
    <2>7. through[0] = 0
      BY <2>6 DEF Value
    <2>8. ASSUME NEW n \in 1 .. N PROVE through[n] = CutStep(ends, n, through[n - 1])
      <3>1. n \in 0 .. N /\ n # 0
        OBVIOUS
      <3>2. through[n] = Value(through, n)
        BY <2>6, <3>1
      <3>3. QED
        BY <3>1, <3>2, Zenon DEF Value, CutStep
    <2>9. \A n \in 0 .. N : through[n] \in D
      BY <1>1, <2>7, <2>8, Stays
    <2>10. QED
      BY <2>7, <2>8, <2>9
  <1> HIDE DEF through
  <1>2. QED
    BY <1>1 DEF through, CutIn

(* Where a match can start nothing is kept; and all is kept if none can.   *)
LEMMA CutKeeps ==
    ASSUME NEW E, NEW t \in Seq(E), NEW ends,
           \A n \in DOMAIN t : ends[n] \in SUBSET (n .. Len(t))
    PROVE  \E S \in SUBSET (DOMAIN t) :
              /\ Cut(t, ends) = Keep(t, S)
              /\ \A n \in S : ends[n] = {}
              /\ (\A n \in DOMAIN t : ends[n] = {}) => S = DOMAIN t
  <1> DEFINE N == Len(t)
             D == Nat
             through == Cuts(N, ends)
             S == {n \in DOMAIN t : through[n] < n}
  <1>1. Cut(t, ends) = Keep(t, S)
    BY Zenon DEF Cut, Cuts
  <1>2. N \in Nat /\ DOMAIN t = 1 .. N /\ 0 \in D
    OBVIOUS
  <1>3. \A n \in 1 .. N : ends[n] # {} => Min(ends[n]) \in Nat /\ Min(ends[n]) >= n
    <2>1. ASSUME NEW n \in 1 .. N, ends[n] # {} PROVE Min(ends[n]) \in n .. N
      <3>1. ends[n] \in SUBSET Nat /\ ends[n] \subseteq n .. N
        OBVIOUS
      <3>2. QED
        BY <2>1, <3>1, MinIsLeast
    <2>2. QED
      BY <2>1
  <1>4. \A n \in 1 .. N : \A b \in D : CutStep(ends, n, b) \in D
    BY <1>3 DEF CutStep
  <1>5. CutIn(D, N, ends)
    <2> HIDE DEF D, N
    <2>1. QED
      BY <1>2, <1>4, CutRun
  <1>6. /\ through[0] = 0
        /\ \A n \in 0 .. N : through[n] \in Nat
        /\ \A n \in 1 .. N : through[n] = CutStep(ends, n, through[n - 1])
    BY <1>5, Zenon DEF CutIn
  <1> HIDE DEF through
  <1>7. ASSUME NEW n \in S PROVE ends[n] = {}
    <2>1. n \in 1 .. N /\ n - 1 \in 0 .. N /\ through[n] < n
      BY <1>2
    <2>2. through[n - 1] \in Nat /\ through[n] = CutStep(ends, n, through[n - 1])
      BY <1>6, <2>1
    <2>3. QED
      BY <1>3, <2>1, <2>2 DEF CutStep
  <1>8. ASSUME \A n \in DOMAIN t : ends[n] = {} PROVE S = DOMAIN t
    <2> DEFINE Zero == {n \in 0 .. N : through[n] = 0}
    <2>1. 0 \in Zero
      BY <1>2, <1>6
    <2>2. ASSUME NEW n \in 1 .. N, n - 1 \in Zero PROVE n \in Zero
      BY <1>2, <1>6, <1>8, <2>2 DEF CutStep
    <2>3. \A n \in 0 .. N : n \in Zero
      <3> HIDE DEF Zero, N
      <3>1. QED
        BY <1>2, <2>1, <2>2, UpTo
    <2>4. QED
      BY <1>2, <2>3
  <1>9. S \in SUBSET (DOMAIN t)
    OBVIOUS
  <1> HIDE DEF S
  <1>10. QED
    BY <1>1, <1>7, <1>8, <1>9

-----------------------------------------------------------------------------
(* What each transformer leaves of a text. *)

Text == Seq(Lexeme)

(* Without a lexeme that opens, an expression takes nothing.               *)
Whole(u, t) == t # << >> => u # << >> /\ u[1] = t[1] /\ Last(u) = Last(t)

LEMMA AllKept ==
    ASSUME NEW t \in Text
    PROVE  Whole(Keep(t, DOMAIN t), t)
  <1>1. SUFFICES ASSUME t # << >> PROVE Whole(Keep(t, DOMAIN t), t)
    BY DEF Whole
  <1>2. t \in Seq(Lexeme) /\ DOMAIN t \in SUBSET (DOMAIN t) /\ 1 \in DOMAIN t /\ Len(t) \in DOMAIN t
    BY <1>1 DEF Text
  <1>3. QED
    BY <1>2, FirstKept, LastKept DEF Whole

LEMMA CutIsPart ==
    ASSUME NEW t \in Text, NEW ends,
           \A n \in DOMAIN t : ends[n] \in SUBSET (n .. Len(t))
    PROVE  /\ Cut(t, ends) \in Text
           /\ Part(Cut(t, ends), t)
           /\ (\A n \in DOMAIN t : ends[n] = {}) => Whole(Cut(t, ends), t)
  <1>1. t \in Seq(Lexeme)
    BY DEF Text
  <1>2. PICK S \in SUBSET (DOMAIN t) :
              /\ Cut(t, ends) = Keep(t, S)
              /\ (\A n \in DOMAIN t : ends[n] = {}) => S = DOMAIN t
    BY <1>1, CutKeeps
  <1>3. Keep(t, S) \in Seq(Lexeme) /\ Part(Keep(t, S), t)
    BY <1>1, Kept, KeptIsPart
  <1>4. QED
    BY <1>2, <1>3, AllKept DEF Text

LEMMA ClosesBehind ==
    ASSUME NEW t \in Text, NEW n \in DOMAIN t, NEW opens \in SUBSET Nat,
           \A o \in opens : o >= n, NEW name
    PROVE  Closes(t, opens, name) \in SUBSET (n .. Len(t))
  <1>1. n \in Nat /\ Len(t) \in Nat
    BY DEF Text
  <1>2. ASSUME NEW k \in 1 .. Len(t), NEW o \in opens, k - 2 > o PROVE k \in n .. Len(t)
    BY <1>1, <1>2
  <1>3. QED
    BY <1>2 DEF Closes

LEMMA InteractiveIsPart ==
    ASSUME NEW t \in Text
    PROVE  InteractiveGraphicsMarkupTagRemover(t) \in Text
           /\ Part(InteractiveGraphicsMarkupTagRemover(t), t)
  <1> DEFINE ends == [i \in DOMAIN t |-> Closes(t, InteractiveOpens(t, i), "/div")]
  <1>1. ASSUME NEW n \in DOMAIN t PROVE ends[n] \in SUBSET (n .. Len(t))
    <2>1. InteractiveOpens(t, n) \in SUBSET Nat /\ \A o \in InteractiveOpens(t, n) : o >= n
      BY DEF InteractiveOpens, Text
    <2>2. QED
      BY <2>1, ClosesBehind
  <1> HIDE DEF ends
  <1>2. Cut(t, ends) \in Text /\ Part(Cut(t, ends), t)
    BY <1>1, CutIsPart
  <1>3. QED
    BY <1>2 DEF ends, InteractiveGraphicsMarkupTagRemover

LEMMA PullIsPart ==
    ASSUME NEW t \in Text
    PROVE  PullTagTransformer(t) \in Text /\ Part(PullTagTransformer(t), t)
  <1> DEFINE ends == [i \in DOMAIN t |-> Closes(t, PullQuoteOpens(t, i), "/pull-quote")]
  <1>1. ASSUME NEW n \in DOMAIN t PROVE ends[n] \in SUBSET (n .. Len(t))
    <2>1. PullQuoteOpens(t, n) \subseteq {n + 2}
      BY Zenon DEF PullQuoteOpens
    <2>2. n \in Nat
      BY DEF Text
    <2>3. PullQuoteOpens(t, n) \in SUBSET Nat /\ \A o \in PullQuoteOpens(t, n) : o >= n
      BY <2>1, <2>2
    <2>4. QED
      BY <2>3, ClosesBehind
  <1> HIDE DEF ends
  <1>2. Cut(t, ends) \in Text /\ Part(Cut(t, ends), t)
    BY <1>1, CutIsPart
  <1>3. QED
    BY <1>2 DEF ends, PullTagTransformer

LEMMA ScriptIsPart ==
    ASSUME NEW t \in Text
    PROVE  ScriptTagRemover(t) \in Text /\ Part(ScriptTagRemover(t), t)
  <1> DEFINE ends == [i \in DOMAIN t |-> Closes(t, ScriptOpens(t, i), "/script")]
  <1>1. ASSUME NEW n \in DOMAIN t PROVE ends[n] \in SUBSET (n .. Len(t))
    <2>1. n \in Nat /\ Len(t) \in Nat
      BY DEF Text
    <2>2. ScriptOpens(t, n) \subseteq n + 2 .. Len(t)
      BY DEF ScriptOpens
    <2>3. ScriptOpens(t, n) \in SUBSET Nat /\ \A o \in ScriptOpens(t, n) : o >= n
      BY <2>1, <2>2
    <2>4. QED
      BY <2>3, ClosesBehind
  <1> HIDE DEF ends
  <1>2. Cut(t, ends) \in Text /\ Part(Cut(t, ends), t)
    BY <1>1, CutIsPart
  <1>3. QED
    BY <1>2 DEF ends, ScriptTagRemover

(* From an opening lexeme to a closing one: no such pair is left.          *)
LEMMA SpansCut ==
    ASSUME NEW t \in Text, NEW open, NEW close, NEW ends,
           ends = [i \in DOMAIN t |-> Spans(t, i, open, close)]
    PROVE  /\ Cut(t, ends) \in Text /\ Part(Cut(t, ends), t)
           /\ open # close => ~Pair(Cut(t, ends), open, close)
           /\ open \notin ToSet(t) => Whole(Cut(t, ends), t)
  <1>0. t \in Seq(Lexeme) /\ Len(t) \in Nat /\ DOMAIN t = 1 .. Len(t)
    BY DEF Text
  <1>1. ASSUME NEW n \in DOMAIN t
        PROVE  /\ ends[n] \in SUBSET (n .. Len(t))
               /\ ends[n] = IF t[n] = open THEN {k \in n .. Len(t) : t[k] = close} ELSE {}
    BY DEF Spans
  <1>2. open \notin ToSet(t) => \A n \in DOMAIN t : ends[n] = {}
    BY <1>1 DEF ToSet
  <1>3. PICK S \in SUBSET (DOMAIN t) : Cut(t, ends) = Keep(t, S) /\ \A n \in S : ends[n] = {}
    BY <1>0, <1>1, CutKeeps
  <1>4. ~Pair(Keep(t, S), open, close)
    <2>1. SUFFICES ASSUME Pair(Keep(t, S), open, close) PROVE FALSE
      OBVIOUS
    <2>2. PICK j \in S, k \in DOMAIN t : j < k /\ t[j] = open /\ t[k] = close
      BY <1>0, <2>1, PairFrom
    <2>3. k \in ends[j]
      BY <1>0, <1>1, <2>2
    <2>4. QED
      BY <1>3, <2>2, <2>3
  <1>5. /\ Cut(t, ends) \in Text /\ Part(Cut(t, ends), t)
        /\ (\A n \in DOMAIN t : ends[n] = {}) => Whole(Cut(t, ends), t)
    BY <1>1, CutIsPart
  <1>6. QED
    BY <1>2, <1>3, <1>4, <1>5

LEMMA TagsGone ==
    ASSUME NEW t \in Text
    PROVE  /\ TagsRemover(t) \in Text /\ Part(TagsRemover(t), t)
           /\ ~Pair(TagsRemover(t), "<", ">")
  <1> DEFINE ends == [i \in DOMAIN t |-> Spans(t, i, "<", ">")]
  <1>1. ends = [i \in DOMAIN t |-> Spans(t, i, "<", ">")]
    OBVIOUS
  <1> HIDE DEF ends
  <1>2. Cut(t, ends) \in Text /\ Part(Cut(t, ends), t) /\ ~Pair(Cut(t, ends), "<", ">")
    BY <1>1, SpansCut
  <1>3. QED
    BY <1>2 DEF ends, TagsRemover

LEMMA CaptionsGone ==
    ASSUME NEW t \in Text
    PROVE  LET u == SquaredCaptionReplacer(t)
           IN  /\ u \in Text /\ Part(u, t) /\ ~Pair(u, "[caption", "]")
               /\ "[caption" \notin ToSet(t) => Whole(u, t)
  <1> DEFINE ends == [i \in DOMAIN t |-> Spans(t, i, "[caption", "]")]
  <1>1. ends = [i \in DOMAIN t |-> Spans(t, i, "[caption", "]")]
    OBVIOUS
  <1> HIDE DEF ends
  <1>2. /\ Cut(t, ends) \in Text /\ Part(Cut(t, ends), t) /\ ~Pair(Cut(t, ends), "[caption", "]")
        /\ "[caption" \notin ToSet(t) => Whole(Cut(t, ends), t)
    BY <1>1, SpansCut
  <1>3. QED
    BY <1>2 DEF ends, SquaredCaptionReplacer

(* Unescaping leaves no entity that was escaped once, and makes brackets,   *)
(* spaces, ampersands, and entities of those that were escaped twice.      *)
Made == {" ", "nb", "<", ">", "&"} \cup Entities

(* What reads as an entity in u was escaped twice in t.                    *)
Unescapes(u, t) == ToSet(u) \cap (Entities \cup Twice) \subseteq Remains(t)

LEMMA EntitiesGone ==
    ASSUME NEW t \in Text
    PROVE  LET u == EntityTransformer(t)
           IN  /\ u \in Text /\ Unescapes(u, t)
               /\ ToSet(u) \subseteq ToSet(t) \cup Made
  <1> DEFINE u == EntityTransformer(t)
  <1>1. ASSUME NEW x \in Lexeme
        PROVE  /\ Unescaped(x) \in Lexeme /\ Unescaped(x) \in {x} \cup Made
               /\ Unescaped(x) \in Entities \cup Twice => x \in Twice
    BY DEF Unescaped, Lexeme, Entities, Twice, Made, Words, Names
  <1>2. DOMAIN u = 1 .. Len(t) /\ \A k \in 1 .. Len(t) : u[k] = Unescaped(t[k]) /\ t[k] \in Lexeme
    BY DEF EntityTransformer, Text
  <1>3. ASSUME NEW k \in 1 .. Len(t)
        PROVE  /\ u[k] \in Lexeme /\ u[k] \in {t[k]} \cup Made
               /\ u[k] \in Entities \cup Twice => t[k] \in Twice
    BY <1>1, <1>2
  <1>4. u \in Text
    BY <1>2, <1>3 DEF EntityTransformer, Text
  <1> HIDE DEF u
  <1>5. ToSet(u) \subseteq ToSet(t) \cup Made
    BY <1>2, <1>3 DEF ToSet, Text
  <1>6. ASSUME NEW y \in ToSet(u), y \in Entities \cup Twice PROVE y \in Remains(t)
    <2>1. PICK k \in 1 .. Len(t) : y = u[k]
      BY <1>2 DEF ToSet
    <2>2. t[k] \in ToSet(t) \cap Twice /\ y = Unescaped(t[k])
      BY <1>2, <1>3, <1>6, <2>1 DEF ToSet, Text
    <2>3. QED
      BY <2>2 DEF Remains
  <1>7. QED
    BY <1>4, <1>5, <1>6 DEF u, Unescapes

Trimmed(t) == t # << >> => {t[1], Last(t)} \cap {" ", "nb"} = {}

LEMMA SpacesTrimmed ==
    ASSUME NEW t \in Text
    PROVE  LET u == OuterSpaceTrimmer(t)
           IN  u \in Text /\ Part(u, t) /\ Trimmed(u)
  <1> DEFINE shown == {k \in DOMAIN t : t[k] \notin {" ", "nb"}}
             S == {n \in DOMAIN t : \E i, k \in shown : i <= n /\ n <= k}
             u == Keep(t, S)
             m == Len(u)
  <1>a. t \in Seq(Lexeme) /\ DOMAIN t \subseteq Nat
    BY DEF Text
  <1>b. S \in SUBSET (DOMAIN t) /\ shown \in SUBSET (DOMAIN t)
    OBVIOUS
  <1>d. \A n \in Nat : n <= n
    OBVIOUS
  <1>1. OuterSpaceTrimmer(t) = u
    BY DEF OuterSpaceTrimmer
  <1>2. ASSUME NEW k \in shown PROVE k \in S
    <2>1. k \in DOMAIN t
      OBVIOUS
    <2>2. k \in Nat
      BY <1>a, <2>1
    <2>3. k <= k
      BY <2>2, <1>d, Zenon
    <2>4. QED
      BY <2>1, <2>3
  <1>3. u \in Text /\ Part(u, t) /\ Reads(u, t, S)
    <2> HIDE DEF S
    <2>1. QED
      BY <1>a, <1>b, Kept, KeptIsPart DEF Text
  <1>4. ASSUME NEW n \in S PROVE \E i, k \in shown : i <= n /\ n <= k
    OBVIOUS
  <1>5. \A k \in shown : t[k] \notin {" ", "nb"}
    OBVIOUS
  <1> HIDE DEF u, S, shown
  <1>c. S \subseteq Nat /\ shown \subseteq Nat
    BY <1>a, <1>b
  <1>6. PICK f : Through(f, m, S) /\ \A j \in 1 .. m : u[j] = t[f[j]]
    BY <1>3 DEF Reads
  <1>7. ASSUME u # << >> PROVE u[1] \notin {" ", "nb"} /\ u[m] \notin {" ", "nb"}
    <2>1. m \in Nat /\ 1 \in 1 .. m /\ m \in 1 .. m
      BY <1>3, <1>7 DEF Text
    <2>2. f[1] \in S /\ f[m] \in S
      BY <1>6, <2>1 DEF Through
    <2>3. PICK i \in shown : i <= f[1]
      BY <1>4, <2>2
    <2>4. PICK k \in shown : f[m] <= k
      BY <1>4, <2>2
    <2>5. PICK j \in 1 .. m : f[j] = i
      BY <1>2, <1>6 DEF Through
    <2>6. PICK l \in 1 .. m : f[l] = k
      BY <1>2, <1>6 DEF Through
    <2>t. f[1] \in Nat /\ f[m] \in Nat /\ i \in Nat /\ k \in Nat /\ j \in Nat /\ l \in Nat
      <3>1. f[1] \in Nat /\ f[m] \in Nat
        BY <1>c, <2>2, Zenon
      <3>2. i \in Nat /\ k \in Nat
        BY <1>c, Zenon
      <3>3. j \in Nat /\ l \in Nat
        BY <2>1
      <3>4. QED
        BY <3>1, <3>2, <3>3
    <2>7. f[1] = i
      <3>1. 1 < j => f[1] < f[j]
        BY <1>6, <2>1 DEF Through
      <3>2. QED
        BY <2>t, <2>1, <2>3, <2>5, <3>1
    <2>8. f[m] = k
      <3>1. l < m => f[l] < f[m]
        BY <1>6, <2>1 DEF Through
      <3>2. QED
        BY <2>t, <2>1, <2>4, <2>6, <3>1
    <2>9. QED
      BY <1>5, <1>6, <2>1, <2>7, <2>8
  <1>8. Trimmed(u)
    BY <1>7 DEF Trimmed, Last
  <1>9. QED
    BY <1>1, <1>3, <1>8

LEMMA EmbedsGone ==
    ASSUME NEW t \in Text
    PROVE  LET u == Embed1Replacer(t)
           IN  u \in Text /\ Part(u, t) /\ ("embed1" \notin ToSet(t) => Whole(u, t))
  <1> DEFINE S == {n \in DOMAIN t : t[n] # "embed1"}
  <1>0. t \in Seq(Lexeme) /\ S \in SUBSET (DOMAIN t)
    BY DEF Text
  <1>1. "embed1" \notin ToSet(t) => S = DOMAIN t
    BY DEF ToSet
  <1>2. Embed1Replacer(t) = Keep(t, S)
    BY DEF Embed1Replacer
  <1> HIDE DEF S
  <1>3. Keep(t, S) \in Text /\ Part(Keep(t, S), t)
    BY <1>0, Kept, KeptIsPart DEF Text
  <1>4. QED
    BY <1>1, <1>2, <1>3, AllKept

(* No two spaces follow each other.                                        *)
Single(t) == ~\E i \in 1 .. Len(t) - 1 : t[i] = " " /\ t[i + 1] = " "

LEMMA SpacesMerged ==
    ASSUME NEW t \in Text
    PROVE  LET u == DuplicateWhiteSpaceRemover(t)
           IN  u \in Text /\ Part(u, t) /\ Single(u) /\ (Trimmed(t) => Trimmed(u))
  <1> DEFINE S == {n \in DOMAIN t : ~(t[n] = " " /\ n > 1 /\ t[n - 1] = " ")}
             u == Keep(t, S)
             m == Len(u)
  <1>a. t \in Seq(Lexeme) /\ Len(t) \in Nat /\ DOMAIN t = 1 .. Len(t)
    BY DEF Text
  <1>b. S \in SUBSET (DOMAIN t)
    OBVIOUS
  <1>1. DuplicateWhiteSpaceRemover(t) = u
    BY DEF DuplicateWhiteSpaceRemover
  <1>2. ASSUME NEW n \in DOMAIN t PROVE n \in S <=> ~(t[n] = " " /\ n > 1 /\ t[n - 1] = " ")
    OBVIOUS
  <1> HIDE DEF S
  <1>0. /\ t \in Seq(Lexeme) /\ S \in SUBSET (DOMAIN t) /\ S \subseteq Nat
        /\ Len(t) \in Nat /\ DOMAIN t = 1 .. Len(t)
    BY <1>a, <1>b
  <1>3. u \in Text /\ Part(u, t) /\ Reads(u, t, S)
    BY <1>0, Kept, KeptIsPart DEF Text
  <1>4. ASSUME Trimmed(t) PROVE Trimmed(u)
    <2>1. CASE t = << >>
      <3>1. ToSet(u) \subseteq {} /\ u \in Seq(Lexeme)
        BY <1>3, <2>1 DEF Part, ToSet, Text
      <3>2. ~(1 \in DOMAIN u)
        BY <3>1 DEF ToSet
      <3>3. u = << >>
        BY <3>1, <3>2
      <3>4. QED
        BY <3>3 DEF Trimmed
    <2>2. CASE t # << >>
      <3>1. 1 \in DOMAIN t /\ Len(t) \in DOMAIN t
        BY <1>0, <2>2
      <3>2. t[1] \notin {" ", "nb"} /\ t[Len(t)] \notin {" ", "nb"}
        BY <1>4, <2>2 DEF Trimmed, Last
      <3>3. 1 \in S /\ Len(t) \in S
        BY <1>2, <3>1, <3>2
      <3>4. u[1] = t[1] /\ Last(u) = Last(t)
        BY <1>0, <3>3, FirstKept, LastKept
      <3>5. QED
        BY <1>4, <2>2, <3>4 DEF Trimmed
    <2>3. QED
      BY <2>1, <2>2
  <1> HIDE DEF u
  <1>5. PICK f : Through(f, m, S) /\ \A j \in 1 .. m : u[j] = t[f[j]]
    BY <1>3 DEF Reads
  <1>6. ASSUME NEW i \in 1 .. m - 1, u[i] = " ", u[i + 1] = " " PROVE FALSE
    <2> DEFINE a == f[i]
               b == f[i + 1]
    <2>1. m \in Nat /\ i \in 1 .. m /\ i + 1 \in 1 .. m /\ i < i + 1
      BY <1>3 DEF Text
    <2>2. a \in S /\ b \in S /\ a < b /\ t[a] = " " /\ t[b] = " "
      BY <1>5, <1>6, <2>1 DEF Through
    <2> HIDE DEF a, b
    <2>t. /\ a \in DOMAIN t /\ b \in DOMAIN t /\ a \in Nat /\ b \in Nat
          /\ a >= 1 /\ b <= Len(t)
      <3>1. a \in DOMAIN t /\ b \in DOMAIN t
        BY <1>0, <2>2, Zenon
      <3>2. QED
        BY <1>0, <3>1
    <2>3. b > 1 /\ b - 1 \in DOMAIN t /\ a <= b - 1 /\ b \in DOMAIN t
      <3>1. a < b
        BY <2>2
      <3>2. Len(t) \in Nat /\ DOMAIN t = 1 .. Len(t)
        BY <1>a
      <3> HIDE DEF m
      <3>3. b > 1 /\ a <= b - 1
        BY <2>t, <3>1
      <3>4. QED
        BY <2>t, <3>2, <3>3
    <2>4. t[b - 1] # " "
      BY <1>2, <2>2, <2>3
    <2>5. b - 1 \in S
      BY <1>2, <2>3, <2>4
    <2>6. PICK j \in 1 .. m : f[j] = b - 1
      BY <1>5, <2>5 DEF Through
    <2>7. a # b - 1
      BY <2>2, <2>4
    <2>8. ~(j <= i)
      <3>1. j < i => f[j] < a
        BY <1>5, <2>1 DEF Through, a
      <3>2. j = i => f[j] = a
        BY DEF a
      <3>3. QED
        BY <2>1, <2>t, <2>3, <2>6, <2>7, <3>1, <3>2
    <2>9. ~(j >= i + 1)
      <3>1. i + 1 < j => b < f[j]
        BY <1>5, <2>1 DEF Through, b
      <3>2. i + 1 = j => f[j] = b
        BY DEF b
      <3>3. QED
        BY <2>1, <2>t, <2>3, <2>6, <3>1, <3>2
    <2>10. QED
      BY <2>1, <2>8, <2>9
  <1>7. Single(u)
    BY <1>6 DEF Single
  <1>8. QED
    BY <1>1, <1>3, <1>4, <1>7

-----------------------------------------------------------------------------
(* What the lists of transformers leave of a text. *)

StepNames == {"interactive", "pull", "entity", "script", "tags", "trim", "embed",
              "caption", "spaces"}

LEMMA TransformsTexts ==
    ASSUME NEW name \in StepNames, NEW t \in Text
    PROVE  Transform(name, t) \in Text
  <1>1. CASE name = "interactive"
    BY <1>1, InteractiveIsPart DEF Transform
  <1>2. CASE name = "pull"
    BY <1>2, PullIsPart DEF Transform
  <1>3. CASE name = "entity"
    BY <1>3, EntitiesGone DEF Transform
  <1>4. CASE name = "script"
    BY <1>4, ScriptIsPart DEF Transform
  <1>5. CASE name = "tags"
    BY <1>5, TagsGone DEF Transform
  <1>6. CASE name = "trim"
    BY <1>6, SpacesTrimmed DEF Transform
  <1>7. CASE name = "embed"
    BY <1>7, EmbedsGone DEF Transform
  <1>8. CASE name = "caption"
    BY <1>8, CaptionsGone DEF Transform
  <1>9. CASE name = "spaces"
    BY <1>9, SpacesMerged DEF Transform
  <1>10. QED
    BY <1>1, <1>2, <1>3, <1>4, <1>5, <1>6, <1>7, <1>8, <1>9 DEF StepNames

Currents(t, N, steps) ==
    CHOOSE current : current = [n \in 0 .. N |->
        IF n = 0 THEN t ELSE Transform(steps[n], current[n - 1])]

TransformedIn(D, t, N, steps) ==
    LET current == Currents(t, N, steps)
    IN  /\ current[0] = t
        /\ \A n \in 1 .. N : current[n] = Transform(steps[n], current[n - 1])

LEMMA TransformRun ==
    ASSUME NEW D, NEW t \in D, NEW N \in Nat, NEW steps
    PROVE  (\A n \in 1 .. N : \A s \in D : Transform(steps[n], s) \in D)
           => TransformedIn(D, t, N, steps)
  <1> DEFINE step == [n \in 1 .. N |-> [s \in D |-> Transform(steps[n], s)]]
             Value(g, n) == IF n = 0 THEN t ELSE Transform(steps[n], g[n - 1])
             current == Currents(t, N, steps)
  <1>1. ASSUME \A n \in 1 .. N : \A s \in D : Transform(steps[n], s) \in D
        PROVE  /\ current[0] = t
               /\ \A n \in 1 .. N : current[n] = Transform(steps[n], current[n - 1])
    <2>1. step \in [1 .. N -> [D -> D]]
      BY <1>1
    <2> HIDE DEF step
    <2>2. PICK g \in [0 .. N -> D] :
             g[0] = t /\ \A n \in 1 .. N : g[n] = step[n][g[n - 1]]
      BY <2>1, Run
    <2>3. ASSUME NEW n \in 0 .. N PROVE g[n] = Value(g, n)
      <3>1. CASE n # 0
        <4>1. n - 1 \in 0 .. N /\ n \in 1 .. N
          BY <3>1
        <4>2. g[n - 1] \in D
          BY <2>2, <4>1
        <4>3. QED
          BY <2>2, <3>1, <4>1, <4>2 DEF step
      <3>2. QED
        BY <2>2, <3>1
    <2>4. g = [n \in 0 .. N |-> Value(g, n)]
      <3> HIDE DEF Value
      <3>1. QED
        BY <2>2, <2>3
    <2>5. current = [n \in 0 .. N |-> Value(current, n)]
      BY <2>4, Zenon DEF Currents
    <2> HIDE DEF Value, current
    <2>6. ASSUME NEW n \in 0 .. N PROVE current[n] = Value(current, n)
      <3>1. [k \in 0 .. N |-> Value(current, k)][n] = Value(current, n)
        OBVIOUS
      <3>2. QED
        BY <2>5, <3>1, Zenon
    <2>7. current[0] = t
      BY <2>6 DEF Value
    <2>8. ASSUME NEW n \in 1 .. N PROVE current[n] = Transform(steps[n], current[n - 1])
      BY <2>6 DEF Value
    <2>10. QED
      BY <2>7, <2>8
  <1> HIDE DEF current
  <1>2. QED
    BY <1>1 DEF current, TransformedIn

LEMMA TransformSteps ==
    ASSUME NEW f \in Fields, NEW t \in Text
    PROVE  LET current == Currents(t, Len(Steps(f)), Steps(f))
           IN  /\ TransformText(f, t) = current[Len(Steps(f))]
               /\ current[0] = t
               /\ \A n \in 1 .. Len(Steps(f)) :
                     current[n] = Transform(Steps(f)[n], current[n - 1])
  <1> DEFINE N == Len(Steps(f))
             steps == Steps(f)
  <1>1. TransformText(f, t) = Currents(t, N, steps)[N]
    BY Zenon DEF TransformText, Currents
  <1>2. N \in Nat /\ \A n \in 1 .. N : steps[n] \in StepNames
    BY DEF Steps, StepNames, Fields
  <1> HIDE DEF N, steps
  <1>3. \A n \in 1 .. N : \A s \in Text : Transform(steps[n], s) \in Text
    BY <1>2, TransformsTexts
  <1>4. TransformedIn(Text, t, N, steps)
    BY <1>2, <1>3, TransformRun
  <1>5. QED
    BY <1>1, <1>4, Zenon DEF TransformedIn, N, steps

LEMMA HeadlineSteps ==
    ASSUME NEW t \in Text
    PROVE  TransformText("headline", t) =
              DuplicateWhiteSpaceRemover(OuterSpaceTrimmer(TagsRemover(EntityTransformer(t))))
  <1> DEFINE current == Currents(t, Len(Steps("headline")), Steps("headline"))
  <1>1. "headline" \in Fields
    BY DEF Fields
  <1>2. /\ TransformText("headline", t) = current[Len(Steps("headline"))]
        /\ current[0] = t
        /\ \A n \in 1 .. Len(Steps("headline")) :
              current[n] = Transform(Steps("headline")[n], current[n - 1])
    BY <1>1, TransformSteps
  <1> HIDE DEF current
  <1>3. Len(Steps("headline")) = 4
    BY DEF Steps
  <1>4. \A n \in 1 .. 4 : current[n] = Transform(Steps("headline")[n], current[n - 1])
    BY <1>2, <1>3
  <1>5. current[1] = EntityTransformer(t)
    <2>1. 1 \in 1 .. 4 /\ 1 - 1 = 0
      OBVIOUS
    <2>2. Steps("headline")[1] = "entity"
      BY DEF Steps
    <2>3. current[1] = Transform("entity", current[0])
      BY <1>4, <2>1, <2>2, Zenon
    <2>4. QED
      BY <1>2, <2>3 DEF Transform
  <1>6. current[2] = TagsRemover(current[1])
    <2>1. 2 \in 1 .. 4 /\ 2 - 1 = 1
      OBVIOUS
    <2>2. Steps("headline")[2] = "tags"
      BY DEF Steps
    <2>3. current[2] = Transform("tags", current[1])
      BY <1>4, <2>1, <2>2, Zenon
    <2>4. QED
      BY <1>2, <2>3 DEF Transform
  <1>7. current[3] = OuterSpaceTrimmer(current[2])
    <2>1. 3 \in 1 .. 4 /\ 3 - 1 = 2
      OBVIOUS
    <2>2. Steps("headline")[3] = "trim"
      BY DEF Steps
    <2>3. current[3] = Transform("trim", current[2])
      BY <1>4, <2>1, <2>2, Zenon
    <2>4. QED
      BY <1>2, <2>3 DEF Transform
  <1>8. current[4] = DuplicateWhiteSpaceRemover(current[3])
    <2>1. 4 \in 1 .. 4 /\ 4 - 1 = 3
      OBVIOUS
    <2>2. Steps("headline")[4] = "spaces"
      BY DEF Steps
    <2>3. current[4] = Transform("spaces", current[3])
      BY <1>4, <2>1, <2>2, Zenon
    <2>4. QED
      BY <1>2, <2>3 DEF Transform
  <1>9. TransformText("headline", t) = current[4]
    BY <1>2, <1>3
  <1>10. QED
    BY <1>5, <1>6, <1>7, <1>8, <1>9

LEMMA BodySteps ==
    ASSUME NEW t \in Text
    PROVE  TransformText("body", t) =
              DuplicateWhiteSpaceRemover(SquaredCaptionReplacer(Embed1Replacer(
                OuterSpaceTrimmer(TagsRemover(ScriptTagRemover(EntityTransformer(
                  PullTagTransformer(InteractiveGraphicsMarkupTagRemover(t)))))))))
  <1> DEFINE current == Currents(t, Len(Steps("body")), Steps("body"))
  <1>1. "body" \in Fields
    BY DEF Fields
  <1>2. /\ TransformText("body", t) = current[Len(Steps("body"))]
        /\ current[0] = t
        /\ \A n \in 1 .. Len(Steps("body")) :
              current[n] = Transform(Steps("body")[n], current[n - 1])
    BY <1>1, TransformSteps
  <1> HIDE DEF current
  <1>3. Len(Steps("body")) = 9
    BY DEF Steps
  <1>4. \A n \in 1 .. 9 : current[n] = Transform(Steps("body")[n], current[n - 1])
    BY <1>2, <1>3
  <1>5. current[1] = InteractiveGraphicsMarkupTagRemover(t)
    <2>1. 1 \in 1 .. 9 /\ 1 - 1 = 0
      OBVIOUS
    <2>2. Steps("body")[1] = "interactive"
      BY DEF Steps
    <2>3. current[1] = Transform("interactive", current[0])
      BY <1>4, <2>1, <2>2, Zenon
    <2>4. QED
      BY <1>2, <2>3 DEF Transform
  <1>6. current[2] = PullTagTransformer(current[1])
    <2>1. 2 \in 1 .. 9 /\ 2 - 1 = 1
      OBVIOUS
    <2>2. Steps("body")[2] = "pull"
      BY DEF Steps
    <2>3. current[2] = Transform("pull", current[1])
      BY <1>4, <2>1, <2>2, Zenon
    <2>4. QED
      BY <1>2, <2>3 DEF Transform
  <1>7. current[3] = EntityTransformer(current[2])
    <2>1. 3 \in 1 .. 9 /\ 3 - 1 = 2
      OBVIOUS
    <2>2. Steps("body")[3] = "entity"
      BY DEF Steps
    <2>3. current[3] = Transform("entity", current[2])
      BY <1>4, <2>1, <2>2, Zenon
    <2>4. QED
      BY <1>2, <2>3 DEF Transform
  <1>8. current[4] = ScriptTagRemover(current[3])
    <2>1. 4 \in 1 .. 9 /\ 4 - 1 = 3
      OBVIOUS
    <2>2. Steps("body")[4] = "script"
      BY DEF Steps
    <2>3. current[4] = Transform("script", current[3])
      BY <1>4, <2>1, <2>2, Zenon
    <2>4. QED
      BY <1>2, <2>3 DEF Transform
  <1>9. current[5] = TagsRemover(current[4])
    <2>1. 5 \in 1 .. 9 /\ 5 - 1 = 4
      OBVIOUS
    <2>2. Steps("body")[5] = "tags"
      BY DEF Steps
    <2>3. current[5] = Transform("tags", current[4])
      BY <1>4, <2>1, <2>2, Zenon
    <2>4. QED
      BY <1>2, <2>3 DEF Transform
  <1>10. current[6] = OuterSpaceTrimmer(current[5])
    <2>1. 6 \in 1 .. 9 /\ 6 - 1 = 5
      OBVIOUS
    <2>2. Steps("body")[6] = "trim"
      BY DEF Steps
    <2>3. current[6] = Transform("trim", current[5])
      BY <1>4, <2>1, <2>2, Zenon
    <2>4. QED
      BY <1>2, <2>3 DEF Transform
  <1>11. current[7] = Embed1Replacer(current[6])
    <2>1. 7 \in 1 .. 9 /\ 7 - 1 = 6
      OBVIOUS
    <2>2. Steps("body")[7] = "embed"
      BY DEF Steps
    <2>3. current[7] = Transform("embed", current[6])
      BY <1>4, <2>1, <2>2, Zenon
    <2>4. QED
      BY <1>2, <2>3 DEF Transform
  <1>12. current[8] = SquaredCaptionReplacer(current[7])
    <2>1. 8 \in 1 .. 9 /\ 8 - 1 = 7
      OBVIOUS
    <2>2. Steps("body")[8] = "caption"
      BY DEF Steps
    <2>3. current[8] = Transform("caption", current[7])
      BY <1>4, <2>1, <2>2, Zenon
    <2>4. QED
      BY <1>2, <2>3 DEF Transform
  <1>13. current[9] = DuplicateWhiteSpaceRemover(current[8])
    <2>1. 9 \in 1 .. 9 /\ 9 - 1 = 8
      OBVIOUS
    <2>2. Steps("body")[9] = "spaces"
      BY DEF Steps
    <2>3. current[9] = Transform("spaces", current[8])
      BY <1>4, <2>1, <2>2, Zenon
    <2>4. QED
      BY <1>2, <2>3 DEF Transform
  <1>14. TransformText("body", t) = current[9]
    BY <1>2, <1>3
  <1>15. QED
    BY <1>5, <1>6, <1>7, <1>8, <1>9, <1>10, <1>11, <1>12, <1>13, <1>14

(* What the properties say of a transformed text u that was t.             *)
Clean(f, u, t) ==
    /\ u \in Text
    /\ ToSet(u) \subseteq ToSet(t) \cup Made
    /\ Unescapes(u, t)
    /\ ~Pair(u, "<", ">")
    /\ f = "body" => ~Pair(u, "[caption", "]")
    /\ Single(u)
    /\ (f = "headline" \/ ToSet(t) \cap {"embed1", "[caption"} = {}) => Trimmed(u)

LEMMA HeadlineClean ==
    ASSUME NEW t \in Text
    PROVE  Clean("headline", TransformText("headline", t), t)
  <1> DEFINE t1 == EntityTransformer(t)
             t2 == TagsRemover(t1)
             t3 == OuterSpaceTrimmer(t2)
             t4 == DuplicateWhiteSpaceRemover(t3)
  <1>1. t1 \in Text /\ Unescapes(t1, t) /\ ToSet(t1) \subseteq ToSet(t) \cup Made
    BY EntitiesGone
  <1>2. t2 \in Text /\ Part(t2, t1) /\ ~Pair(t2, "<", ">")
    <2> HIDE DEF t1
    <2>1. QED
      BY <1>1, TagsGone
  <1>3. t3 \in Text /\ Part(t3, t2) /\ Trimmed(t3)
    <2> HIDE DEF t2
    <2>1. QED
      BY <1>2, SpacesTrimmed
  <1>4. t4 \in Text /\ Part(t4, t3) /\ Single(t4) /\ Trimmed(t4)
    <2> HIDE DEF t3
    <2>1. QED
      BY <1>3, SpacesMerged
  <1>5. TransformText("headline", t) = t4
    BY HeadlineSteps
  <1> HIDE DEF t1, t2, t3, t4
  <1>6. ToSet(t4) \subseteq ToSet(t1) /\ ~Pair(t4, "<", ">")
    BY <1>2, <1>3, <1>4, Zenon DEF Part
  <1>7. QED
    BY <1>1, <1>4, <1>5, <1>6 DEF Clean, Unescapes

LEMMA BodyClean ==
    ASSUME NEW t \in Text
    PROVE  Clean("body", TransformText("body", t), t)
  <1> DEFINE t1 == InteractiveGraphicsMarkupTagRemover(t)
             t2 == PullTagTransformer(t1)
             t3 == EntityTransformer(t2)
             t4 == ScriptTagRemover(t3)
             t5 == TagsRemover(t4)
             t6 == OuterSpaceTrimmer(t5)
             t7 == Embed1Replacer(t6)
             t8 == SquaredCaptionReplacer(t7)
             t9 == DuplicateWhiteSpaceRemover(t8)
  <1>0. TransformText("body", t) = t9
    BY BodySteps
  <1>1. t1 \in Text /\ Part(t1, t)
    BY InteractiveIsPart
  <1> HIDE DEF t1
  <1>2. t2 \in Text /\ Part(t2, t1)
    BY <1>1, PullIsPart
  <1> HIDE DEF t2
  <1>3. t3 \in Text /\ Unescapes(t3, t2) /\ ToSet(t3) \subseteq ToSet(t2) \cup Made
    BY <1>2, EntitiesGone
  <1> HIDE DEF t3
  <1>4. t4 \in Text /\ Part(t4, t3)
    BY <1>3, ScriptIsPart
  <1> HIDE DEF t4
  <1>5. t5 \in Text /\ Part(t5, t4) /\ ~Pair(t5, "<", ">")
    BY <1>4, TagsGone
  <1> HIDE DEF t5
  <1>6. t6 \in Text /\ Part(t6, t5) /\ Trimmed(t6)
    BY <1>5, SpacesTrimmed
  <1> HIDE DEF t6
  <1>7. t7 \in Text /\ Part(t7, t6) /\ ("embed1" \notin ToSet(t6) => Whole(t7, t6))
    BY <1>6, EmbedsGone
  <1> HIDE DEF t7
  <1>8. /\ t8 \in Text /\ Part(t8, t7) /\ ~Pair(t8, "[caption", "]")
        /\ "[caption" \notin ToSet(t7) => Whole(t8, t7)
    BY <1>7, CaptionsGone
  <1> HIDE DEF t8
  <1>9. t9 \in Text /\ Part(t9, t8) /\ Single(t9) /\ (Trimmed(t8) => Trimmed(t9))
    BY <1>8, SpacesMerged
  <1> HIDE DEF t9
  <1>10. ~Pair(t9, "<", ">") /\ ~Pair(t9, "[caption", "]")
    BY <1>5, <1>6, <1>7, <1>8, <1>9, Zenon DEF Part
  <1>11. ToSet(t2) \subseteq ToSet(t)
    BY <1>1, <1>2 DEF Part
  <1>12. /\ ToSet(t9) \subseteq ToSet(t7) /\ ToSet(t7) \subseteq ToSet(t6)
         /\ ToSet(t6) \subseteq ToSet(t3)
    BY <1>4, <1>5, <1>6, <1>7, <1>8, <1>9 DEF Part
  <1>13. ToSet(t6) \subseteq ToSet(t) \cup Made
    BY <1>3, <1>11, <1>12
  <1>14. ASSUME ToSet(t) \cap {"embed1", "[caption"} = {} PROVE Trimmed(t9)
    <2>1. "embed1" \notin ToSet(t6) /\ "[caption" \notin ToSet(t6)
      BY <1>13, <1>14 DEF Made, Entities
    <2>2. Whole(t7, t6) /\ Whole(t8, t7)
      BY <1>7, <1>8, <1>12, <2>1
    <2>3. CASE t6 = << >>
      <3>1. ToSet(t6) = {}
        BY <2>3 DEF ToSet
      <3>2. ToSet(t8) = {}
        BY <1>7, <1>8, <3>1 DEF Part
      <3>3. t8 \in Seq(Lexeme) /\ 1 \notin DOMAIN t8
        BY <1>8, <3>2 DEF ToSet, Text
      <3>4. t8 = << >>
        BY <3>3
      <3>5. QED
        BY <1>9, <3>4 DEF Trimmed
    <2>4. CASE t6 # << >>
      BY <1>6, <1>9, <2>2, <2>4 DEF Trimmed, Whole
    <2>5. QED
      BY <2>3, <2>4
  <1>15. Unescapes(t9, t)
    <2>1. Remains(t2) \subseteq Remains(t)
      BY <1>11 DEF Remains
    <2>2. QED
      BY <1>3, <1>12, <2>1 DEF Unescapes
  <1>16. QED
    BY <1>0, <1>9, <1>10, <1>12, <1>13, <1>14, <1>15 DEF Clean

-----------------------------------------------------------------------------
(* The lexemes of a text are those of its blocks. *)

Flattens(N, seqs) ==
    CHOOSE flatten : flatten = [i \in 1 .. N |->
        IF i = 1 THEN seqs[i] ELSE flatten[i - 1] \o seqs[i]]

(* t is u with v behind it.                                                *)
Joins(t, u, v) == t = u \o v

(* Each step of the flattening puts the next sequence behind what there is. *)
Flattened(D, N, seqs, flatten) ==
    /\ flatten[1] = seqs[1]
    /\ \A n \in 1 .. N : flatten[n] \in D
    /\ \A n \in 1 .. N : n # 1 => Joins(flatten[n], flatten[n - 1], seqs[n])

LEMMA FlattenSteps ==
    ASSUME NEW D, NEW N \in Nat, N # 0, NEW seqs
    PROVE  ((\A n \in 1 .. N : seqs[n] \in D) /\ (\A r, s \in D : r \o s \in D))
           => Flattened(D, N, seqs, Flattens(N, seqs))
  <1> DEFINE step == [n \in 1 .. N - 1 |-> [s \in D |-> s \o seqs[n + 1]]]
             Value(g, n) == IF n = 1 THEN seqs[n] ELSE g[n - 1] \o seqs[n]
             flatten == Flattens(N, seqs)
  <1>1. ASSUME \A n \in 1 .. N : seqs[n] \in D, \A r, s \in D : r \o s \in D
        PROVE  Flattened(D, N, seqs, flatten)
    <2>0. seqs[1] \in D /\ N - 1 \in Nat
      BY <1>1
    <2>1. step \in [1 .. N - 1 -> [D -> D]]
      BY <1>1
    <2> HIDE DEF step
    <2> DEFINE M == N - 1
               base == seqs[1]
    <2>t. base \in D /\ M \in Nat /\ step \in [1 .. M -> [D -> D]]
      BY <2>0, <2>1
    <2>s. \E g \in [0 .. M -> D] : g[0] = base /\ \A n \in 1 .. M : g[n] = step[n][g[n - 1]]
      <3> HIDE DEF M, base
      <3>1. QED
        BY <2>t, Run
    <2>2. PICK g \in [0 .. N - 1 -> D] :
             g[0] = seqs[1] /\ \A n \in 1 .. N - 1 : g[n] = step[n][g[n - 1]]
      BY <2>s
    <2> HIDE DEF M, base
    <2> DEFINE h == [n \in 1 .. N |-> g[n - 1]]
    <2>3. ASSUME NEW n \in 1 .. N PROVE h[n] = Value(h, n)
      <3>1. CASE n # 1
        <4>1. n - 1 \in 1 .. N - 1 /\ n - 2 \in 0 .. N - 1 /\ (n - 1) + 1 = n /\ n - 1 \in 1 .. N
              /\ (n - 1) - 1 = n - 2
          BY <3>1
        <4>2. g[n - 2] \in D
          BY <2>2, <4>1
        <4>3. g[n - 1] = step[n - 1][g[n - 2]]
          BY <2>2, <4>1
        <4>4. g[n - 1] = g[n - 2] \o seqs[n]
          BY <4>1, <4>2, <4>3 DEF step
        <4>5. h[n] = g[n - 1] /\ h[n - 1] = g[n - 2]
          BY <4>1
        <4>6. QED
          BY <3>1, <4>4, <4>5
      <3>2. CASE n = 1
        BY <2>2, <3>2
      <3>3. QED
        BY <3>1, <3>2
    <2>4. h = [n \in 1 .. N |-> Value(h, n)]
      <3>1. h \in [1 .. N -> D]
        BY <2>2
      <3> HIDE DEF Value, h
      <3>2. QED
        BY <2>3, <3>1
    <2> HIDE DEF h
    <2>5. flatten = [n \in 1 .. N |-> Value(flatten, n)]
      BY <2>4, Zenon DEF Flattens
    <2> HIDE DEF Value, flatten
    <2>6. ASSUME NEW n \in 1 .. N PROVE flatten[n] = Value(flatten, n)
      <3>1. [k \in 1 .. N |-> Value(flatten, k)][n] = Value(flatten, n)
        OBVIOUS
      <3>2. QED
        BY <2>5, <3>1, Zenon
    <2> DEFINE Good == {n \in 0 .. N - 1 : flatten[n + 1] \in D}
    <2>7. 0 \in Good
      BY <1>1, <2>0, <2>6 DEF Value
    <2>8. ASSUME NEW n \in 1 .. N - 1, n - 1 \in Good PROVE n \in Good
      <3>1. n + 1 \in 1 .. N /\ n + 1 # 1 /\ (n + 1) - 1 = n /\ (n - 1) + 1 = n /\ n \in 0 .. N - 1
        OBVIOUS
      <3>2. flatten[n + 1] = flatten[n] \o seqs[n + 1]
        BY <2>6, <3>1 DEF Value
      <3>3. flatten[n] \in D /\ seqs[n + 1] \in D
        BY <1>1, <2>8, <3>1
      <3>4. QED
        BY <1>1, <3>1, <3>2, <3>3
    <2>9. \A n \in 0 .. N - 1 : n \in Good
      <3> HIDE DEF Good
      <3>1. QED
        BY <2>0, <2>7, <2>8, UpTo
    <2>10. ASSUME NEW n \in 1 .. N PROVE flatten[n] \in D
      <3>1. n - 1 \in 0 .. N - 1 /\ (n - 1) + 1 = n
        OBVIOUS
      <3>2. n - 1 \in Good
        BY <2>9, <3>1
      <3>3. QED
        BY <3>1, <3>2
    <2>11. flatten[1] = seqs[1]
      BY <2>6 DEF Value
    <2>12. ASSUME NEW n \in 1 .. N, n # 1 PROVE Joins(flatten[n], flatten[n - 1], seqs[n])
      <3>1. flatten[n] = Value(flatten, n)
        BY <2>6
      <3>2. QED
        BY <2>12, <3>1, Zenon DEF Value, Joins
    <2>13. QED
      BY <2>10, <2>11, <2>12, Zenon DEF Flattened
  <1> HIDE DEF flatten
  <1>2. QED
    BY <1>1 DEF flatten

LEMMA FlattenNone == FlattenSeq(<< >>) = << >>
  <1>1. Len(<< >>) = 0
    OBVIOUS
  <1>2. QED
    BY <1>1, Zenon DEF FlattenSeq

LEMMA FlattenLast ==
    ASSUME NEW D, NEW seqs \in Seq(D), seqs # << >>
    PROVE  /\ Len(seqs) \in Nat \ {0}
           /\ FlattenSeq(seqs) = Flattens(Len(seqs), seqs)[Len(seqs)]
  <1>1. Len(seqs) \in Nat /\ Len(seqs) # 0
    OBVIOUS
  <1>2. FlattenSeq(seqs) = Flattens(Len(seqs), seqs)[Len(seqs)]
    BY <1>1, Zenon DEF FlattenSeq, Flattens
  <1>3. QED
    BY <1>1, <1>2

LEMMA FlattenTypes ==
    ASSUME NEW E, NEW seqs \in Seq(Seq(E))
    PROVE  FlattenSeq(seqs) \in Seq(E)
  <1> DEFINE N == Len(seqs)
             D == Seq(E)
  <1>1. CASE seqs = << >>
    <2>1. << >> \in Seq(E)
      OBVIOUS
    <2>2. QED
      BY <1>1, <2>1, FlattenNone
  <1>2. CASE seqs # << >>
    <2>1. N \in Nat /\ N # 0 /\ FlattenSeq(seqs) = Flattens(N, seqs)[N]
      BY <1>2, FlattenLast
    <2>2. \A n \in 1 .. N : seqs[n] \in D
      OBVIOUS
    <2>3. \A r, s \in D : r \o s \in D
      OBVIOUS
    <2> HIDE DEF D, N
    <2>4. Flattened(D, N, seqs, Flattens(N, seqs))
      BY <2>1, <2>2, <2>3, FlattenSteps
    <2>5. N \in 1 .. N
      BY <2>1
    <2>6. QED
      BY <2>1, <2>4, <2>5 DEF Flattened, D
  <1>3. QED
    BY <1>1, <1>2

(* One more sequence comes behind the others.                              *)
LEMMA FlattenAppend ==
    ASSUME NEW E, NEW seqs \in Seq(Seq(E)), NEW s \in Seq(E)
    PROVE  Joins(FlattenSeq(Append(seqs, s)), FlattenSeq(seqs), s)
  <1> DEFINE more == Append(seqs, s)
             N == Len(seqs)
             M == N + 1
             D == Seq(E)
             a == Flattens(N, seqs)
             c == Flattens(M, more)
  <1>0. /\ N \in Nat /\ M \in Nat /\ M # 0 /\ Len(more) = M /\ more # << >> /\ more \in Seq(D)
        /\ \A n \in 1 .. N : more[n] = seqs[n]
        /\ more[M] = s
    OBVIOUS
  <1>1. /\ \A n \in 1 .. N : seqs[n] \in D
        /\ \A n \in 1 .. M : more[n] \in D
        /\ \A r, q \in D : r \o q \in D
    OBVIOUS
  <1>2. FlattenSeq(more) = c[M]
    <2>1. FlattenSeq(more) = Flattens(Len(more), more)[Len(more)]
      <3> HIDE DEF more, D
      <3>1. QED
        BY <1>0, FlattenLast
    <2>2. QED
      BY <1>0, <2>1
  <1> HIDE DEF more, D
  <1>3. Flattened(D, M, more, c)
    <2> HIDE DEF M
    <2>1. QED
      BY <1>0, <1>1, FlattenSteps
  <1> HIDE DEF c
  <1>4. CASE seqs = << >>
    <2>1. N = 0 /\ M = 1
      BY <1>4
    <2>2. c[M] = s
      BY <1>0, <1>3, <2>1 DEF Flattened
    <2>3. FlattenSeq(seqs) = << >>
      BY <1>4, FlattenNone
    <2>4. s = << >> \o s
      OBVIOUS
    <2>5. QED
      BY <1>2, <2>2, <2>3, <2>4, Zenon DEF Joins, more
  <1>5. CASE seqs # << >>
    <2>1. N \in Nat /\ N # 0 /\ FlattenSeq(seqs) = a[N]
      BY <1>5, FlattenLast
    <2>2. Flattened(D, N, seqs, a)
      <3> HIDE DEF N
      <3>1. QED
        BY <1>1, <2>1, FlattenSteps
    <2> HIDE DEF a
    <2> DEFINE K == N - 1
               Good == {n \in 0 .. K : c[n + 1] = a[n + 1]}
    <2>3. 0 \in Good
      <3>1. c[1] = more[1] /\ a[1] = seqs[1] /\ more[1] = seqs[1] /\ 0 \in 0 .. N - 1
        BY <1>0, <1>3, <2>1, <2>2 DEF Flattened
      <3>2. QED
        BY <3>1
    <2>4. ASSUME NEW n \in 1 .. K, n - 1 \in Good PROVE n \in Good
      <3>1. n + 1 \in 1 .. N /\ n + 1 \in 1 .. M /\ n + 1 # 1 /\ (n + 1) - 1 = n
            /\ (n - 1) + 1 = n /\ n \in 0 .. N - 1
        BY <1>0
      <3>2. Joins(c[n + 1], c[n], more[n + 1]) /\ Joins(a[n + 1], a[n], seqs[n + 1])
        BY <1>3, <2>2, <3>1 DEF Flattened
      <3>3. c[n] = a[n] /\ more[n + 1] = seqs[n + 1]
        BY <1>0, <2>4, <3>1
      <3>4. c[n + 1] = a[n + 1]
        BY <3>2, <3>3, Zenon DEF Joins
      <3>5. QED
        BY <3>1, <3>4
    <2>5. c[N] = a[N]
      <3>1. K \in Nat /\ K \in 0 .. K
        BY <2>1
      <3>2. \A n \in 0 .. K : n \in Good
        <4> HIDE DEF Good, K
        <4>1. QED
          BY <2>3, <2>4, <3>1, UpTo
      <3>3. K \in Good
        BY <3>1, <3>2
      <3>4. K + 1 = N
        BY <2>1
      <3>5. QED
        BY <3>3, <3>4
    <2>6. Joins(c[M], c[N], s)
      <3>1. M \in 1 .. M /\ M # 1 /\ M - 1 = N
        BY <2>1
      <3> HIDE DEF M
      <3>2. Joins(c[M], c[M - 1], more[M])
        BY <1>3, <3>1 DEF Flattened
      <3>3. QED
        BY <1>0, <3>1, <3>2
    <2>7. QED
      BY <1>2, <2>1, <2>5, <2>6 DEF more
  <1>6. QED
    BY <1>4, <1>5

LEMMA LexemesOfBlocks ==
    ASSUME NEW blocks \in Seq(Blocks)
    PROVE  /\ Lexemes(blocks) \in Text
           /\ \A x \in ToSet(Lexemes(blocks)) : Has(blocks, x)
  <1> DEFINE seqs == [k \in DOMAIN blocks |-> blocks[k].lexemes]
             N == Len(blocks)
             A == {x \in Lexeme : Has(blocks, x)}
  <1>1. N \in Nat /\ DOMAIN blocks = 1 .. N /\ DOMAIN seqs = 1 .. N
    OBVIOUS
  <1>2. ASSUME NEW k \in 1 .. N PROVE seqs[k] \in Seq(A)
    <2>1. blocks[k].lexemes \in Seq(Lexeme)
      BY BlocksAssumption
    <2>2. \A j \in DOMAIN blocks[k].lexemes : Has(blocks, blocks[k].lexemes[j])
      BY <1>1 DEF Has, ToSet
    <2>3. \A j \in DOMAIN blocks[k].lexemes : blocks[k].lexemes[j] \in A
      BY <2>1, <2>2
    <2> HIDE DEF A
    <2>4. blocks[k].lexemes \in Seq(A)
      BY <2>1, <2>3
    <2>5. QED
      BY <1>1, <2>4
  <1> HIDE DEF A
  <1>3. seqs \in Seq(Seq(A)) /\ Len(seqs) = N
    <2> HIDE DEF N
    <2>1. QED
      BY <1>1, <1>2
  <1> HIDE DEF seqs
  <1>4. FlattenSeq(seqs) \in Seq(A)
    BY <1>3, FlattenTypes
  <1>5. Lexemes(blocks) \in Seq(A)
    BY <1>4 DEF Lexemes, seqs
  <1>6. \A x \in A : x \in Lexeme /\ Has(blocks, x)
    BY DEF A
  <1>7. QED
    BY <1>5, <1>6 DEF Text, ToSet

-----------------------------------------------------------------------------
(* The content and the model. *)

(* The content once handleMessage has chosen between body and bodyXML.      *)
Chosen(e) ==
    IF e.bodyXML # << >> /\ e.body = << >>
    THEN [e EXCEPT !.body = e.bodyXML, !.bodyXML = << >>] ELSE e

HasBody(e) == {e.body, e.bodyXML} # {<< >>}

BestOf(e) ==
    IF e.body # << >> THEN e.body
    ELSE IF e.bodyXML # << >> THEN e.bodyXML
    ELSE e.description

(* Headline and body are the transformed texts of the event.               *)
MadeFrom(e, m) ==
    /\ m.headline = TransformText("headline", Lexemes(e.title))
    /\ m.body = IF HasBody(e) THEN TransformText("body", Lexemes(BestOf(e)))
                ELSE Lexemes(e.description)

ThumbnailOf(c) ==
    IF c.type = "blog" \/ ~c.mainImage THEN Nil
    ELSE IF c.members = << >> \/ Head(c.members) = << >> THEN Blank
    ELSE Last(Head(c.members))

ThumbnailFits(e, thumbnail) ==
    /\ thumbnail \in {""} \cup ImageId <=>
          /\ e.type # "blog" /\ e.mainImage
          /\ e.members # << >> /\ e.members[1] # << >>
    /\ thumbnail \in ImageId => \E k \in DOMAIN e.members[1] : e.members[1][k] = thumbnail
    /\ thumbnail = "" => Last(e.members[1]) = ""
    /\ thumbnail = Nil <=> e.type = "blog" \/ ~e.mainImage

OfKind(e, d) == e.type = "audio" \/ (e.type = "video" /\ d.media = "video")
Media(e) == {k \in DOMAIN e.dataSources : OfKind(e, e.dataSources[k])}
LengthOf(e) == IF Media(e) = {} THEN 0 ELSE e.dataSources[Min(Media(e))].duration

Model == [headline : Text, body : Text, thumbnail : {Nil, Blank, ""} \cup ImageId, length : Nat]

(* The inductive invariant: what the stages have done so far, and that no  *)
(* data source before the one that is looked at counts.                    *)
ContentInv ==
    /\ event \in Contents
    /\ stage \in {"received", "normalised", "scanning", "mapped"}
    /\ content = IF stage = "received" THEN event ELSE Chosen(event)
    /\ scan \in 1 .. Len(event.dataSources) + 1
    /\ model \in Model

StageInv ==
    /\ stage \in {"received", "normalised"} => model.length = 0 /\ scan = 1
    /\ stage \in {"scanning", "mapped"} =>
          MadeFrom(event, model) /\ ThumbnailFits(event, model.thumbnail)
    /\ stage = "scanning" =>
          /\ event.type \in {"video", "audio"} /\ model.length = 0
          /\ \A k \in 1 .. scan - 1 : k \notin Media(event)
    /\ stage = "mapped" => model.length = LengthOf(event)

Inv == ContentInv /\ StageInv

LEMMA ContentFieldTypes ==
    ASSUME NEW e \in Contents
    PROVE  /\ e \in Content
           /\ e.title \in Seq(Blocks) /\ e.body \in Seq(Blocks) /\ e.bodyXML \in Seq(Blocks)
           /\ e.description \in Seq(Blocks) /\ e.mainImage \in BOOLEAN
           /\ e.members \in Seq(Address) /\ e.dataSources \in Seq(DataSource)
           /\ e.type \in ContentType
  <1>1. e \in Content
    BY ContentsAssumption
  <1>2. QED
    BY <1>1 DEF Content

LEMMA ChosenFields ==
    ASSUME NEW e \in Contents
    PROVE  LET c == Chosen(e)
           IN  /\ c.type = e.type /\ c.title = e.title /\ c.description = e.description
               /\ c.mainImage = e.mainImage /\ c.members = e.members
               /\ c.dataSources = e.dataSources
               /\ c.body # << >> <=> HasBody(e)
               /\ HasBody(e) => c.body = BestOf(e)
               /\ c \in {e, [e EXCEPT !.body = e.bodyXML, !.bodyXML = << >>]}
  <1>1. e \in Content
    BY ContentsAssumption
  <1>2. CASE e.bodyXML # << >> /\ e.body = << >>
    BY <1>1, <1>2 DEF Chosen, Content, HasBody, BestOf
  <1>3. CASE ~(e.bodyXML # << >> /\ e.body = << >>)
    BY <1>3 DEF Chosen, HasBody, BestOf
  <1>4. QED
    BY <1>2, <1>3

LEMMA ThumbnailIsRight ==
    ASSUME NEW e \in Contents
    PROVE  /\ ThumbnailOf(Chosen(e)) \in {Nil, Blank, ""} \cup ImageId
           /\ ThumbnailFits(e, ThumbnailOf(Chosen(e)))
  <1> DEFINE th == ThumbnailOf(Chosen(e))
  <1>1. th = ThumbnailOf(e)
    BY ChosenFields, Zenon DEF ThumbnailOf
  <1>2. e.members \in Seq(Address) /\ e.mainImage \in BOOLEAN
    BY ContentFieldTypes
  <1> HIDE DEF th
  <1>3. th \in {Nil, Blank, ""} \cup ImageId /\ ThumbnailFits(e, th)
    <2>3. CASE e.type = "blog" \/ ~e.mainImage
      BY <1>1, <2>3, NilAssumption DEF ThumbnailOf, ThumbnailFits
    <2>4. CASE ~(e.type = "blog" \/ ~e.mainImage)
      <3>1. CASE e.members = << >>
        BY <1>1, <2>4, <3>1, NilAssumption DEF ThumbnailOf, ThumbnailFits
      <3>2. CASE e.members # << >>
        <4> DEFINE a == e.members[1]
        <4>1. Head(e.members) = a /\ a \in Address
          BY <1>2, <3>2
        <4>2. /\ a \in Seq({"content", ""} \cup ImageId)
              /\ a # << >> => Last(a) \in {""} \cup ImageId
          BY <4>1 DEF Address
        <4> HIDE DEF a
        <4>3. CASE a = << >>
          <5>1. th = Blank
            BY <1>1, <2>4, <3>2, <4>1, <4>3, Zenon DEF ThumbnailOf
          <5>2. QED
            BY <2>4, <3>2, <4>3, <5>1, NilAssumption DEF ThumbnailFits, a
        <4>4. CASE a # << >>
          <5>1. th = Last(a)
            BY <1>1, <2>4, <3>2, <4>1, <4>4, Zenon DEF ThumbnailOf
          <5>2. Len(a) \in DOMAIN a /\ a[Len(a)] = th
            <6> DEFINE X == {"content", ""} \cup ImageId
            <6>1. a \in Seq(X) /\ th = a[Len(a)]
              BY <4>2, <5>1 DEF Last
            <6> HIDE DEF X
            <6>2. QED
              BY <4>4, <6>1
          <5>3. th \in {""} \cup ImageId /\ th # Nil
            BY <4>2, <4>4, <5>1, NilAssumption
          <5>4. QED
            BY <2>4, <3>2, <4>4, <5>1, <5>2, <5>3 DEF ThumbnailFits, a
        <4>5. QED
          BY <4>3, <4>4
      <3>3. QED
        BY <3>1, <3>2
    <2>5. QED
      BY <2>3, <2>4
  <1>4. QED
    BY <1>3 DEF th

LEMMA ModelIsMade ==
    ASSUME NEW e \in Contents, NEW m, NEW c, c = Chosen(e),
           m.headline = TransformText("headline", Lexemes(c.title)),
           m.body = IF c.body # << >> THEN TransformText("body", Lexemes(c.body))
                    ELSE Lexemes(c.description)
    PROVE  m.headline \in Text /\ m.body \in Text /\ MadeFrom(e, m)
  <1>1. c.title = e.title /\ c.description = e.description
        /\ (c.body # << >> <=> HasBody(e)) /\ (HasBody(e) => c.body = BestOf(e))
    BY ChosenFields
  <1>2. MadeFrom(e, m)
    BY <1>1 DEF MadeFrom
  <1>3. /\ e.title \in Seq(Blocks) /\ e.body \in Seq(Blocks) /\ e.bodyXML \in Seq(Blocks)
        /\ e.description \in Seq(Blocks)
    BY ContentFieldTypes
  <1>4. BestOf(e) \in Seq(Blocks)
    BY <1>3 DEF BestOf
  <1>5. Lexemes(e.title) \in Text /\ Lexemes(BestOf(e)) \in Text /\ Lexemes(e.description) \in Text
    BY <1>3, <1>4, LexemesOfBlocks
  <1>6. /\ TransformText("headline", Lexemes(e.title)) \in Text
        /\ TransformText("body", Lexemes(BestOf(e))) \in Text
    BY <1>5, HeadlineClean, BodyClean DEF Clean
  <1>7. QED
    BY <1>2, <1>5, <1>6 DEF MadeFrom

LEMMA CountsMeansMedia ==
    ASSUME ContentInv, event.type \in {"video", "audio"}, stage # "received",
           scan \in DOMAIN event.dataSources
    PROVE  Counts(content.dataSources[scan]) <=> scan \in Media(event)
  <1>1. content.type = event.type /\ content.dataSources = event.dataSources
    BY ChosenFields DEF ContentInv
  <1>2. QED
    BY <1>1 DEF Counts, Media, OfKind

LEMMA InitContent == Init => Inv
  <1>1. SUFFICES ASSUME Init PROVE Inv
    OBVIOUS
  <1>2. event \in Contents /\ event.dataSources \in Seq(DataSource)
    BY <1>1, ContentFieldTypes DEF Init
  <1>3. model \in Model /\ model.length = 0 /\ scan = 1 /\ stage = "received" /\ content = event
    BY <1>1 DEF Init, Model, Text
  <1>4. QED
    BY <1>2, <1>3 DEF Inv, ContentInv, StageInv

LEMMA NormaliseContent == Inv /\ Normalise => Inv'
  <1>1. SUFFICES ASSUME Inv, Normalise PROVE Inv'
    OBVIOUS
  <1>2. /\ stage = "received" /\ stage' = "normalised" /\ event' = event
        /\ model' = model /\ scan' = scan /\ content = event
    BY <1>1 DEF Normalise, Inv, ContentInv
  <1>3. content' = Chosen(event)
    BY <1>1, <1>2, Zenon DEF Normalise, Chosen
  <1>4. ContentInv'
    BY <1>1, <1>2, <1>3 DEF Inv, ContentInv
  <1>5. StageInv'
    BY <1>1, <1>2 DEF Inv, StageInv
  <1>6. QED
    BY <1>4, <1>5 DEF Inv

LEMMA PopulateContent == Inv /\ PopulateFields => Inv'
  <1>1. SUFFICES ASSUME Inv, PopulateFields PROVE Inv'
    OBVIOUS
  <1>2. /\ stage = "normalised" /\ event' = event /\ content' = content /\ scan' = scan
        /\ content = Chosen(event) /\ event \in Contents /\ scan = 1
        /\ model \in Model /\ model.length = 0
        /\ scan \in 1 .. Len(event.dataSources) + 1
    BY <1>1 DEF PopulateFields, Inv, ContentInv, StageInv
  <1>3. content.type = event.type
    BY <1>2, ChosenFields
  <1>4. stage' = IF event.type \in {"video", "audio"} THEN "scanning" ELSE "mapped"
    BY <1>1, <1>3 DEF PopulateFields
  <1>5. /\ model'.headline = Headline /\ model'.body = Body /\ model'.thumbnail = Thumbnail
        /\ model'.length = 0
        /\ model' = [headline |-> Headline, body |-> Body, thumbnail |-> Thumbnail, length |-> 0]
    BY <1>1, <1>2 DEF PopulateFields, Model
  <1>6. Thumbnail = ThumbnailOf(content)
    BY Zenon DEF Thumbnail, ThumbnailOf
  <1>7. model'.thumbnail \in {Nil, Blank, ""} \cup ImageId /\ ThumbnailFits(event, model'.thumbnail)
    BY <1>2, <1>5, <1>6, ThumbnailIsRight
  <1>8. /\ model'.headline = TransformText("headline", Lexemes(content.title))
        /\ model'.body = IF content.body # << >> THEN TransformText("body", Lexemes(content.body))
                         ELSE Lexemes(content.description)
    BY <1>5, Zenon DEF Headline, Body
  <1>9. model'.headline \in Text /\ model'.body \in Text /\ MadeFrom(event, model')
    BY <1>2, <1>8, ModelIsMade
  <1>10. model' \in Model
    <2> DEFINE T == {Nil, Blank, ""} \cup ImageId
    <2>1. Thumbnail \in T /\ Headline \in Text /\ Body \in Text /\ 0 \in Nat
      BY <1>5, <1>7, <1>9
    <2> HIDE DEF T
    <2>2. model' \in [headline : Text, body : Text, thumbnail : T, length : Nat]
      BY <1>5, <2>1
    <2>3. QED
      BY <2>2 DEF Model, T
  <1>11. ContentInv'
    BY <1>2, <1>4, <1>10 DEF ContentInv
  <1>12. ASSUME event.type \notin {"video", "audio"} PROVE LengthOf(event) = 0
    <2>1. Media(event) = {}
      BY <1>12 DEF Media, OfKind
    <2>2. QED
      BY <2>1 DEF LengthOf
  <1>13. StageInv'
    <2>1. stage' \in {"scanning", "mapped"} /\ scan' = 1
      BY <1>2, <1>4
    <2>2. \A k \in 1 .. scan' - 1 : k \notin Media(event)
      BY <2>1
    <2>3. stage' = "mapped" => model'.length = LengthOf(event)
      BY <1>4, <1>5, <1>12
    <2>4. stage' = "scanning" => event.type \in {"video", "audio"}
      BY <1>4
    <2>5. QED
      BY <1>2, <1>5, <1>7, <1>9, <2>1, <2>2, <2>3, <2>4 DEF StageInv
  <1>14. QED
    BY <1>11, <1>13 DEF Inv

(* The first data source that counts is the one the length is taken from.  *)
LEMMA FirstMedia ==
    ASSUME NEW e \in Contents, NEW n \in Media(e), \A k \in 1 .. n - 1 : k \notin Media(e)
    PROVE  LengthOf(e) = e.dataSources[n].duration
  <1>1. e.dataSources \in Seq(DataSource)
    BY ContentFieldTypes
  <1>2. Media(e) \in SUBSET Nat /\ \A k \in Media(e) : k >= 1
    BY <1>1 DEF Media
  <1>3. Min(Media(e)) \in Media(e) /\ \A k \in Media(e) : Min(Media(e)) <= k
    BY <1>2, MinIsLeast
  <1>4. Min(Media(e)) = n
    BY <1>2, <1>3
  <1>5. QED
    BY <1>4 DEF LengthOf

LEMMA TakeLengthContent == Inv /\ TakeLength => Inv'
  <1>1. SUFFICES ASSUME Inv, TakeLength PROVE Inv'
    OBVIOUS
  <1>2. /\ stage = "scanning" /\ stage' = "mapped" /\ event' = event /\ content' = content
        /\ scan' = scan /\ event \in Contents /\ model \in Model /\ content = Chosen(event)
        /\ scan \in 1 .. Len(event.dataSources) + 1
        /\ MadeFrom(event, model) /\ ThumbnailFits(event, model.thumbnail)
        /\ event.type \in {"video", "audio"}
        /\ \A k \in 1 .. scan - 1 : k \notin Media(event)
    BY <1>1 DEF TakeLength, Inv, ContentInv, StageInv
  <1>3. content.dataSources = event.dataSources /\ event.dataSources \in Seq(DataSource)
    BY <1>2, ChosenFields, ContentFieldTypes
  <1>4. scan \in DOMAIN event.dataSources /\ Counts(content.dataSources[scan])
    BY <1>1, <1>3 DEF TakeLength
  <1>5. scan \in Media(event)
    BY <1>1, <1>2, <1>4, CountsMeansMedia DEF Inv
  <1>6. model' = [model EXCEPT !.length = event.dataSources[scan].duration]
    BY <1>1, <1>3 DEF TakeLength
  <1>7. event.dataSources[scan].duration \in Nat
    <2>1. event.dataSources[scan] \in DataSource
      BY <1>3, <1>4
    <2>2. QED
      BY <2>1 DEF DataSource
  <1>8. /\ model' \in Model /\ model'.length = event.dataSources[scan].duration
        /\ model'.headline = model.headline /\ model'.body = model.body
        /\ model'.thumbnail = model.thumbnail
    BY <1>2, <1>6, <1>7 DEF Model
  <1>9. model'.length = LengthOf(event)
    BY <1>2, <1>5, <1>8, FirstMedia
  <1>10. ContentInv'
    BY <1>2, <1>8 DEF ContentInv
  <1>11. MadeFrom(event, model')
    BY <1>2, <1>8 DEF MadeFrom
  <1>12. StageInv'
    BY <1>2, <1>8, <1>9, <1>11 DEF StageInv
  <1>13. QED
    BY <1>10, <1>12 DEF Inv

LEMMA NextSourceContent == Inv /\ NextSource => Inv'
  <1>1. SUFFICES ASSUME Inv, NextSource PROVE Inv'
    OBVIOUS
  <1>2. /\ stage = "scanning" /\ stage' = stage /\ event' = event /\ content' = content
        /\ scan' = scan + 1 /\ model' = model /\ event \in Contents /\ content = Chosen(event)
        /\ scan \in 1 .. Len(event.dataSources) + 1
        /\ event.type \in {"video", "audio"}
        /\ \A k \in 1 .. scan - 1 : k \notin Media(event)
    BY <1>1 DEF NextSource, Inv, ContentInv, StageInv
  <1>3. content.dataSources = event.dataSources /\ event.dataSources \in Seq(DataSource)
    BY <1>2, ChosenFields, ContentFieldTypes
  <1>4. scan \in DOMAIN event.dataSources /\ ~Counts(content.dataSources[scan])
    BY <1>1, <1>3 DEF NextSource
  <1>5. scan \notin Media(event)
    BY <1>1, <1>2, <1>4, CountsMeansMedia DEF Inv
  <1>6. \A k \in 1 .. scan' - 1 : k \notin Media(event)
    BY <1>2, <1>5
  <1>7. scan' \in 1 .. Len(event.dataSources) + 1
    BY <1>2, <1>3, <1>4
  <1>8. QED
    BY <1>1, <1>2, <1>6, <1>7 DEF Inv, ContentInv, StageInv

LEMMA NoMoreSourcesContent == Inv /\ NoMoreSources => Inv'
  <1>1. SUFFICES ASSUME Inv, NoMoreSources PROVE Inv'
    OBVIOUS
  <1>2. /\ stage = "scanning" /\ stage' = "mapped" /\ event' = event /\ content' = content
        /\ scan' = scan /\ model' = model /\ event \in Contents /\ content = Chosen(event)
        /\ scan \in 1 .. Len(event.dataSources) + 1 /\ model.length = 0
        /\ \A k \in 1 .. scan - 1 : k \notin Media(event)
    BY <1>1 DEF NoMoreSources, Inv, ContentInv, StageInv
  <1>3. content.dataSources = event.dataSources /\ event.dataSources \in Seq(DataSource)
    BY <1>2, ChosenFields, ContentFieldTypes
  <1>4. scan \notin DOMAIN event.dataSources
    BY <1>1, <1>3 DEF NoMoreSources
  <1>5. scan = Len(event.dataSources) + 1
    BY <1>2, <1>3, <1>4
  <1>6. Media(event) = {}
    <2>1. \A k \in DOMAIN event.dataSources : k \in 1 .. scan - 1
      BY <1>3, <1>5
    <2>2. QED
      BY <1>2, <2>1 DEF Media
  <1>7. model.length = LengthOf(event)
    BY <1>2, <1>6 DEF LengthOf
  <1>8. QED
    BY <1>1, <1>2, <1>7 DEF Inv, ContentInv, StageInv

LEMMA StepContent == Inv /\ [Next]_vars => Inv'
  <1>1. CASE UNCHANGED vars
    BY <1>1 DEF vars, Inv, ContentInv, StageInv
  <1>2. QED
    BY <1>1, NormaliseContent, PopulateContent, TakeLengthContent, NextSourceContent,
       NoMoreSourcesContent DEF Next

-----------------------------------------------------------------------------
(* Theorems. *)

(* What the other theorems follow from: what each stage has done of the    *)
(* event (message_handler.go:118-121, mapper.go:206-298).                  *)
THEOREM ContentInvariance == Spec => []Inv
  <1>1. QED
    BY InitContent, StepContent, PTL DEF Spec

(* Whatever the texts, every transformer (transformer.go:32-67) makes a    *)
(* text of a text, and the loops over members and data sources stay inside *)
(* their lists.                                                            *)
THEOREM TypeCorrect == Spec => []TypeOK
  <1>1. Inv => TypeOK
    <2>1. SUFFICES ASSUME Inv PROVE TypeOK
      OBVIOUS
    <2>2. event \in Contents /\ scan \in 1 .. Len(event.dataSources) + 1
          /\ stage \in {"received", "normalised", "scanning", "mapped"}
          /\ model \in Model /\ content \in {event, Chosen(event)}
      BY <2>1 DEF Inv, ContentInv
    <2>3. content \in {event, [event EXCEPT !.body = event.bodyXML, !.bodyXML = << >>]}
      BY <2>2, ChosenFields
    <2>4. QED
      BY <2>2, <2>3 DEF TypeOK, Model, Text
  <1>2. QED
    BY <1>1, ContentInvariance, PTL

(* A document has a thumbnail exactly if it can have one, of its own image *)
(* set unless its address ends in a slash, and the length of its first data source of the right kind          *)
(* (mapper.go:259-291), for lists of any length.                           *)
THEOREM MediaIsOfContent == Spec => []MediaOfContent
  <1>1. Inv => MediaOfContent
    <2>1. SUFFICES ASSUME Inv, stage = "mapped" PROVE MediaOfContent
      BY DEF MediaOfContent, Mapped
    <2>2. ThumbnailFits(event, model.thumbnail) /\ model.length = LengthOf(event)
      BY <2>1 DEF Inv, StageInv
    <2>3. QED
      BY <2>2, Zenon DEF MediaOfContent, ThumbnailFits, LengthOf, Media, OfKind
  <1>2. QED
    BY <1>1, ContentInvariance, PTL

(* A field that has been through the transformers is what they left of its *)
(* text.                                                                   *)
LEMMA TransformedIsClean ==
    ASSUME Inv, NEW f \in Transformed
    PROVE  Source(f) \in Seq(Blocks) /\ Clean(f, model[f], Lexemes(Source(f)))
  <1>1. stage = "mapped" /\ f \in {"headline"} \cup (IF HasBody(event) THEN {"body"} ELSE {})
    BY DEF Transformed, Mapped, HasBody
  <1>2. event \in Contents /\ MadeFrom(event, model)
    BY <1>1 DEF Inv, ContentInv, StageInv
  <1>3. /\ event.title \in Seq(Blocks) /\ event.body \in Seq(Blocks)
        /\ event.bodyXML \in Seq(Blocks) /\ event.description \in Seq(Blocks)
    BY <1>2, ContentFieldTypes
  <1>4. Source("headline") = event.title
    BY DEF Source
  <1>5. Source("body") = BestOf(event)
    BY DEF Source, BestOf
  <1>6. Lexemes(Source(f)) \in Text /\ Source(f) \in Seq(Blocks)
    <2>1. BestOf(event) \in Seq(Blocks)
      BY <1>3 DEF BestOf
    <2>2. Source(f) \in Seq(Blocks)
      BY <1>1, <1>3, <1>4, <1>5, <2>1
    <2>3. QED
      BY <2>2, LexemesOfBlocks
  <1>7. CASE f = "headline"
    BY <1>2, <1>4, <1>6, <1>7, HeadlineClean DEF MadeFrom
  <1>8. CASE f = "body"
    <2>1. model.body = TransformText("body", Lexemes(BestOf(event)))
      BY <1>1, <1>2, <1>8 DEF MadeFrom
    <2>2. QED
      BY <1>5, <1>6, <1>8, <2>1, BodyClean
  <1>9. QED
    BY <1>1, <1>6, <1>7, <1>8

(* Escaped or not, no tag and, in a body, no caption is left, and no entity *)
(* that was not escaped twice, in texts of any length and in any           *)
(* combination (mapper.go:218-250, pkg/html/transformer.go:43-46).         *)
THEOREM NoMarkupIsLeft == Spec => []NoMarkupLeft
  <1>1. Inv => NoMarkupLeft
    <2>1. SUFFICES ASSUME Inv, NEW f \in Transformed
                   PROVE  LET text == model[f]
                          IN  /\ Unescapes(text, Lexemes(Source(f)))
                              /\ ~\E j, k \in DOMAIN text :
                                    \/ j < k /\ text[j] = "<" /\ text[k] = ">"
                                    \/ j < k /\ f = "body" /\ text[j] = "[caption" /\ text[k] = "]"
      BY Zenon DEF NoMarkupLeft, Unescapes
    <2> DEFINE text == model[f]
    <2>2. Clean(f, text, Lexemes(Source(f)))
      BY <2>1, TransformedIsClean
    <2> HIDE DEF text
    <2>3. Unescapes(text, Lexemes(Source(f)))
      BY <2>2 DEF Clean
    <2>4. ~\E j, k \in DOMAIN text : j < k /\ text[j] = "<" /\ text[k] = ">"
      BY <2>2, Zenon DEF Clean, Pair
    <2>5. f = "body" =>
             ~\E j, k \in DOMAIN text : j < k /\ text[j] = "[caption" /\ text[k] = "]"
      BY <2>2, Zenon DEF Clean, Pair
    <2>6. QED
      BY <2>3, <2>4, <2>5, Zenon DEF text
  <1>2. QED
    BY <1>1, ContentInvariance, PTL

(* No two spaces follow each other, and a field has one at an end only if  *)
(* an embed or a caption was taken after the trimming (mapper.go:244-248). *)
THEOREM SpacesAreInPlace == Spec => []SpacesInPlace
  <1>1. Inv => SpacesInPlace
    <2>1. SUFFICES ASSUME Inv, NEW f \in Transformed
                   PROVE  LET text == model[f]
                          IN  /\ Single(text)
                              /\ text # << >> /\ {text[1], Last(text)} \cap {" ", "nb"} # {}
                                 => /\ f = "body"
                                    /\ \/ Has(Source(f), "embed1")
                                       \/ Has(Source(f), "[caption")
      BY Zenon DEF SpacesInPlace, Single
    <2> DEFINE text == model[f]
    <2>2. Source(f) \in Seq(Blocks) /\ Clean(f, text, Lexemes(Source(f)))
      BY <2>1, TransformedIsClean
    <2>3. f \in {"headline", "body"}
      BY DEF Transformed
    <2> HIDE DEF text
    <2>4. Single(text)
      BY <2>2 DEF Clean
    <2>5. ASSUME text # << >>, {text[1], Last(text)} \cap {" ", "nb"} # {}
          PROVE  f = "body" /\ (Has(Source(f), "embed1") \/ Has(Source(f), "[caption"))
      <3>1. ~Trimmed(text)
        BY <2>5 DEF Trimmed
      <3>2. f # "headline" /\ ToSet(Lexemes(Source(f))) \cap {"embed1", "[caption"} # {}
        BY <2>2, <3>1 DEF Clean
      <3>3. QED
        BY <2>2, <2>3, <3>2, LexemesOfBlocks
    <2>6. QED
      BY <2>4, <2>5 DEF text
  <1>2. QED
    BY <1>1, ContentInvariance, PTL

LEMMA WordsAreKept ==
    ASSUME NEW t \in Text
    PROVE  ToSet(WordsOf(t)) = ToSet(t) \cap Words
  <1> DEFINE S == {n \in DOMAIN t : t[n] \in Words}
             u == Keep(t, S)
  <1>1. t \in Seq(Lexeme) /\ WordsOf(t) = u
    <2>1. S = {n \in DOMAIN t : n \in DOMAIN t /\ t[n] \in Words}
      OBVIOUS
    <2>2. QED
      BY <2>1 DEF Text, WordsOf, WordsAt
  <1>2. S \in SUBSET (DOMAIN t) /\ \A n \in DOMAIN t : n \in S <=> t[n] \in Words
    OBVIOUS
  <1> HIDE DEF S
  <1>3. ASSUME NEW x \in ToSet(u) PROVE x \in ToSet(t) \cap Words
    <2>1. PICK n \in S : t[n] = x
      BY <1>1, <1>2, KeptFrom
    <2>2. QED
      BY <1>2, <2>1 DEF ToSet
  <1>4. ASSUME NEW x \in ToSet(t) \cap Words PROVE x \in ToSet(u)
    <2>1. PICK n \in DOMAIN t : t[n] = x
      BY DEF ToSet
    <2>2. n \in S
      BY <1>2, <2>1
    <2>3. u \in Seq(Lexeme) /\ Reads(u, t, S)
      BY <1>1, <1>2, Kept
    <2> HIDE DEF u
    <2>4. PICK f : Through(f, Len(u), S) /\ \A j \in 1 .. Len(u) : u[j] = t[f[j]]
      BY <2>3 DEF Reads
    <2>5. PICK j \in 1 .. Len(u) : f[j] = n
      BY <2>2, <2>4 DEF Through
    <2>6. j \in DOMAIN u /\ u[j] = x
      BY <2>1, <2>3, <2>4, <2>5
    <2>7. QED
      BY <2>6 DEF ToSet
  <1>5. QED
    BY <1>1, <1>3, <1>4

LEMMA WordsAreBest == Inv => WordsFromBestText
  <1>1. SUFFICES ASSUME Inv, stage = "mapped" PROVE WordsFromBestText
    BY DEF WordsFromBestText, Mapped
  <1> DEFINE text == Lexemes(Source("body"))
  <1>2. event \in Contents /\ MadeFrom(event, model) /\ model.body \in Text
    BY <1>1 DEF Inv, ContentInv, StageInv, Model
  <1>3. text \in Text /\ ToSet(model.body) \subseteq ToSet(text) \cup Made
    <2>1. CASE HasBody(event)
      <3>1. "body" \in Transformed
        BY <1>1, <2>1 DEF Transformed, Mapped, HasBody
      <3>2. Source("body") \in Seq(Blocks) /\ Clean("body", model["body"], text)
        BY <1>1, <3>1, TransformedIsClean
      <3>3. text \in Text
        BY <3>2, LexemesOfBlocks
      <3> HIDE DEF text
      <3>4. QED
        BY <3>2, <3>3 DEF Clean
    <2>2. CASE ~HasBody(event)
      <3>1. Source("body") = event.description
        BY <2>2 DEF Source, HasBody
      <3>2. model.body = text
        BY <1>2, <2>2, <3>1 DEF MadeFrom
      <3>3. QED
        BY <1>2, <3>2
    <2>3. QED
      BY <2>1, <2>2
  <1> HIDE DEF text
  <1>4. ToSet(WordsOf(model.body)) \subseteq ToSet(WordsOf(text))
    <2>1. Made \cap Words = {}
      BY DEF Made, Entities, Words
    <2>2. QED
      BY <1>2, <1>3, <2>1, WordsAreKept
  <1>5. QED
    BY <1>4 DEF WordsFromBestText, text

(* The body is made of words of the best text there is, of body, bodyXML   *)
(* and description (message_handler.go:118-121, mapper.go:236-250).        *)
THEOREM WordsAreOfBestText == Spec => []WordsFromBestText
  BY ContentInvariance, WordsAreBest, PTL

-----------------------------------------------------------------------------
(* Where a text keeps its lexemes: what is kept of two texts in a row is   *)
(* what is kept of each, and keeping twice is keeping once.                *)

LEMMA KeepSteps ==
    ASSUME NEW E, NEW t \in Seq(E), NEW S
    PROVE  /\ Keep(t, S) = Keeps(t, Len(t), S)[Len(t)]
           /\ Keeps(t, Len(t), S)[0] = << >>
           /\ \A n \in 0 .. Len(t) : Keeps(t, Len(t), S)[n] \in Seq(E)
           /\ \A n \in 1 .. Len(t) :
                 Keeps(t, Len(t), S)[n] = KeepStep(t, S, n, Keeps(t, Len(t), S)[n - 1])
  <1> DEFINE N == Len(t)
             D == Seq(E)
             kept == Keeps(t, N, S)
  <1>1. Keep(t, S) = kept[N]
    BY Zenon DEF Keep, Keeps
  <1>2. N \in Nat /\ << >> \in D
    OBVIOUS
  <1>3. \A n \in 1 .. N : \A s \in D : KeepStep(t, S, n, s) \in D
    <2>1. ASSUME NEW n \in 1 .. N, NEW s \in D PROVE KeepStep(t, S, n, s) \in D
      <3>1. t[n] \in E
        OBVIOUS
      <3>2. QED
        BY <3>1 DEF KeepStep
    <2>2. QED
      BY <2>1
  <1>4. KeptIn(D, t, N, S)
    <2> HIDE DEF D, N
    <2>1. QED
      BY <1>2, <1>3, KeepRun
  <1>5. QED
    BY <1>1, <1>4, Zenon DEF KeptIn

(* The first m lexemes of two texts, and what is kept of them, are the same. *)
Agree(t, S, u, R, m) ==
    /\ m \in Nat /\ m <= Len(t) /\ m <= Len(u)
    /\ \A n \in 1 .. m : t[n] = u[n] /\ (n \in S <=> n \in R)

LEMMA KeepAgree ==
    ASSUME NEW E, NEW t \in Seq(E), NEW u \in Seq(E), NEW S, NEW R, NEW m,
           Agree(t, S, u, R, m)
    PROVE  Keeps(t, Len(t), S)[m] = Keeps(u, Len(u), R)[m]
  <1> DEFINE a == Keeps(t, Len(t), S)
             b == Keeps(u, Len(u), R)
             Good == {n \in 0 .. m : a[n] = b[n]}
  <1>0. /\ m \in Nat /\ m <= Len(t) /\ m <= Len(u)
        /\ \A n \in 1 .. m : t[n] = u[n] /\ (n \in S <=> n \in R)
    BY DEF Agree
  <1>1. /\ a[0] = << >>
        /\ \A n \in 1 .. Len(t) : a[n] = KeepStep(t, S, n, a[n - 1])
    BY KeepSteps
  <1>2. /\ b[0] = << >>
        /\ \A n \in 1 .. Len(u) : b[n] = KeepStep(u, R, n, b[n - 1])
    BY KeepSteps
  <1> HIDE DEF a, b
  <1>3. 0 \in Good
    BY <1>0, <1>1, <1>2
  <1>4. ASSUME NEW n \in 1 .. m, n - 1 \in Good PROVE n \in Good
    <2>1. n \in 1 .. Len(t) /\ n \in 1 .. Len(u)
      BY <1>0
    <2>2. a[n] = KeepStep(t, S, n, a[n - 1]) /\ b[n] = KeepStep(u, R, n, b[n - 1])
      BY <1>1, <1>2, <2>1
    <2>3. a[n - 1] = b[n - 1] /\ t[n] = u[n] /\ (n \in S <=> n \in R)
      BY <1>0, <1>4
    <2>4. a[n] = b[n]
      BY <2>2, <2>3 DEF KeepStep
    <2>5. QED
      BY <2>4
  <1>5. \A n \in 0 .. m : n \in Good
    <2> HIDE DEF Good
    <2>1. QED
      BY <1>0, <1>3, <1>4, UpTo
  <1>6. QED
    BY <1>0, <1>5 DEF a, b

LEMMA SameKept ==
    ASSUME NEW E, NEW t \in Seq(E), NEW S, NEW R,
           \A n \in DOMAIN t : n \in S <=> n \in R
    PROVE  Keep(t, S) = Keep(t, R)
  <1>1. Len(t) \in Nat /\ DOMAIN t = 1 .. Len(t)
    OBVIOUS
  <1>2. Keeps(t, Len(t), S)[Len(t)] = Keeps(t, Len(t), R)[Len(t)]
    <2>1. Agree(t, S, t, R, Len(t))
      BY <1>1 DEF Agree
    <2>2. QED
      BY <2>1, KeepAgree
  <1>3. Keep(t, S) = Keeps(t, Len(t), S)[Len(t)] /\ Keep(t, R) = Keeps(t, Len(t), R)[Len(t)]
    BY KeepSteps
  <1>4. QED
    BY <1>2, <1>3

LEMMA AppendJoins ==
    ASSUME NEW E, NEW x \in Seq(E), NEW y \in Seq(E), NEW e \in E, NEW w, Joins(w, x, y)
    PROVE  Joins(Append(w, e), x, Append(y, e))
  <1>1. Append(x \o y, e) = x \o Append(y, e)
    OBVIOUS
  <1>2. QED
    BY <1>1, Zenon DEF Joins

LEMMA KeepAppend ==
    ASSUME NEW E, NEW u \in Seq(E), NEW v \in Seq(E), NEW S, NEW t, Joins(t, u, v)
    PROVE  Joins(Keep(t, S), Keep(u, S), Keep(v, {n \in DOMAIN v : Len(u) + n \in S}))
  <1> DEFINE R == {n \in DOMAIN v : Len(u) + n \in S}
             a == Keeps(t, Len(t), S)
             b == Keeps(u, Len(u), S)
             c == Keeps(v, Len(v), R)
             Good == {n \in 0 .. Len(v) : a[Len(u) + n] = b[Len(u)] \o c[n]}
  <1>0. /\ t \in Seq(E) /\ Len(t) = Len(u) + Len(v) /\ Len(u) \in Nat /\ Len(v) \in Nat
        /\ \A n \in 1 .. Len(u) : t[n] = u[n]
        /\ \A n \in 1 .. Len(v) : t[Len(u) + n] = v[n]
        /\ DOMAIN v = 1 .. Len(v)
    BY DEF Joins
  <1>1. /\ Keep(t, S) = a[Len(t)]
        /\ \A n \in 1 .. Len(t) : a[n] = KeepStep(t, S, n, a[n - 1])
    <2>1. t \in Seq(E)
      BY <1>0
    <2>2. QED
      BY <2>1, KeepSteps
  <1>2. Keep(u, S) = b[Len(u)] /\ \A n \in 0 .. Len(u) : b[n] \in Seq(E)
    BY KeepSteps
  <1>3. /\ Keep(v, R) = c[Len(v)] /\ c[0] = << >>
        /\ \A n \in 0 .. Len(v) : c[n] \in Seq(E)
        /\ \A n \in 1 .. Len(v) : c[n] = KeepStep(v, R, n, c[n - 1])
    BY KeepSteps
  <1>4. a[Len(u)] = b[Len(u)]
    <2>1. Agree(t, S, u, S, Len(u))
      BY <1>0 DEF Agree
    <2>2. t \in Seq(E)
      BY <1>0
    <2>3. QED
      BY <2>1, <2>2, KeepAgree
  <1>5. b[Len(u)] \in Seq(E)
    BY <1>0, <1>2
  <1> HIDE DEF a, b, c
  <1>6. 0 \in Good
    <2>1. Len(u) + 0 = Len(u) /\ 0 \in 0 .. Len(v)
      BY <1>0
    <2>2. b[Len(u)] \o c[0] = b[Len(u)]
      BY <1>3, <1>5
    <2>3. QED
      BY <1>4, <2>1, <2>2
  <1>7. ASSUME NEW n \in 1 .. Len(v), n - 1 \in Good PROVE n \in Good
    <2>1. /\ Len(u) + n \in 1 .. Len(t) /\ (Len(u) + n) - 1 = Len(u) + (n - 1)
          /\ n \in DOMAIN v /\ n - 1 \in 0 .. Len(v)
      BY <1>0
    <2>2. a[Len(u) + n] = KeepStep(t, S, Len(u) + n, a[Len(u) + (n - 1)])
      BY <1>1, <2>1
    <2>3. a[Len(u) + (n - 1)] = b[Len(u)] \o c[n - 1]
      BY <1>7
    <2>4. c[n] = KeepStep(v, R, n, c[n - 1]) /\ c[n - 1] \in Seq(E)
      BY <1>3, <2>1
    <2>5. n \in R <=> Len(u) + n \in S
      BY <2>1
    <2>6. t[Len(u) + n] = v[n] /\ v[n] \in E
      BY <1>0
    <2> HIDE DEF R
    <2>7. a[Len(u) + n] = b[Len(u)] \o c[n]
      <3>1. CASE n \in R
        <4>1. a[Len(u) + n] = Append(a[Len(u) + (n - 1)], v[n])
          BY <2>2, <2>5, <2>6, <3>1 DEF KeepStep
        <4>2. c[n] = Append(c[n - 1], v[n])
          BY <2>4, <3>1 DEF KeepStep
        <4>3. Joins(a[Len(u) + (n - 1)], b[Len(u)], c[n - 1])
          BY <2>3 DEF Joins
        <4>4. Joins(Append(a[Len(u) + (n - 1)], v[n]), b[Len(u)], Append(c[n - 1], v[n]))
          BY <1>5, <2>4, <2>6, <4>3, AppendJoins
        <4>5. QED
          BY <4>1, <4>2, <4>4 DEF Joins
      <3>2. CASE n \notin R
        BY <2>2, <2>3, <2>4, <2>5, <3>2 DEF KeepStep
      <3>3. QED
        BY <3>1, <3>2
    <2>8. n \in 0 .. Len(v)
      BY <1>0
    <2>9. QED
      BY <2>7, <2>8
  <1>8. \A n \in 0 .. Len(v) : n \in Good
    <2> HIDE DEF Good
    <2>1. QED
      BY <1>0, <1>6, <1>7, UpTo
  <1>9. a[Len(t)] = b[Len(u)] \o c[Len(v)]
    <2>1. Len(v) \in 0 .. Len(v)
      BY <1>0
    <2>2. a[Len(u) + Len(v)] = b[Len(u)] \o c[Len(v)]
      BY <1>8, <2>1
    <2>3. QED
      BY <1>0, <2>2
  <1> HIDE DEF R
  <1>10. QED
    BY <1>1, <1>2, <1>3, <1>9 DEF R, Joins

(* f takes m positions, and g takes the same ones first.                   *)
InStep(f, m, g, p) == m <= p /\ \A j \in 1 .. m : f[j] = g[j]

(* There is one way through a set of positions. *)
LEMMA OneWay ==
    ASSUME NEW S \in SUBSET Nat, NEW m \in Nat, NEW p \in Nat, NEW f, NEW g,
           Through(f, m, S), Through(g, p, S)
    PROVE  InStep(f, m, g, p)
  <1> DEFINE Bad == {j \in 1 .. m : ~(j <= p /\ f[j] = g[j])}
  <1>1. /\ \A j \in 1 .. m : f[j] \in S /\ f[j] \in Nat
        /\ \A j \in 1 .. p : g[j] \in S /\ g[j] \in Nat
    BY DEF Through
  <1>2. SUFFICES ASSUME Bad # {} PROVE FALSE
    BY DEF InStep
  <1>3. Bad \in SUBSET Nat
    OBVIOUS
  <1>4. PICK j \in Bad : \A k \in Bad : j <= k
    BY <1>2, <1>3, LeastIndex
  <1>5. j \in 1 .. m /\ \A k \in 1 .. m : k < j => k \in 1 .. p /\ f[k] = g[k]
    BY <1>4
  <1>6. PICK k \in 1 .. p : g[k] = f[j]
    BY <1>1, <1>5 DEF Through
  <1>7. k >= j
    <2>1. SUFFICES ASSUME k < j PROVE FALSE
      BY <1>5, <1>6
    <2>2. f[k] = g[k] /\ f[k] < f[j]
      BY <1>5, <1>6, <2>1 DEF Through
    <2>3. QED
      BY <1>1, <1>5, <1>6, <2>2
  <1>8. j \in 1 .. p
    BY <1>5, <1>6, <1>7
  <1>9. PICK l \in 1 .. m : f[l] = g[j]
    BY <1>1, <1>8 DEF Through
  <1>10. l >= j
    <2>1. SUFFICES ASSUME l < j PROVE FALSE
      BY <1>5, <1>9
    <2>2. f[l] = g[l] /\ l \in 1 .. p
      BY <1>5, <1>9, <2>1
    <2>3. g[l] < g[j]
      BY <1>8, <2>1, <2>2 DEF Through
    <2>4. QED
      BY <1>1, <1>8, <1>9, <2>2, <2>3
  <1>11. f[j] <= f[l]
    <2>1. CASE j = l
      BY <1>1, <1>5, <2>1
    <2>2. CASE j < l
      BY <1>1, <1>5, <1>9, <2>2 DEF Through
    <2>3. QED
      BY <1>5, <1>9, <1>10, <2>1, <2>2
  <1>12. g[j] <= g[k]
    BY <1>1, <1>6, <1>7, <1>8 DEF Through
  <1>13. f[j] = g[j]
    BY <1>1, <1>5, <1>6, <1>8, <1>9, <1>11, <1>12
  <1>14. QED
    BY <1>4, <1>8, <1>13

LEMMA ReadsOnce ==
    ASSUME NEW E, NEW t \in Seq(E), NEW S \in SUBSET (DOMAIN t),
           NEW x \in Seq(E), NEW y \in Seq(E), Reads(x, t, S), Reads(y, t, S)
    PROVE  x = y
  <1>1. PICK f : Through(f, Len(x), S) /\ \A j \in 1 .. Len(x) : x[j] = t[f[j]]
    BY DEF Reads
  <1>2. PICK g : Through(g, Len(y), S) /\ \A j \in 1 .. Len(y) : y[j] = t[g[j]]
    BY DEF Reads
  <1>3. S \in SUBSET Nat /\ Len(x) \in Nat /\ Len(y) \in Nat
    OBVIOUS
  <1>4. InStep(f, Len(x), g, Len(y)) /\ InStep(g, Len(y), f, Len(x))
    BY ONLY <1>1, <1>2, <1>3, OneWay, Zenon
  <1>5. Len(x) = Len(y) /\ \A j \in 1 .. Len(x) : f[j] = g[j]
    BY <1>3, <1>4 DEF InStep
  <1>6. \A j \in 1 .. Len(x) : x[j] = y[j]
    BY <1>1, <1>2, <1>5
  <1>7. QED
    BY <1>5, <1>6

(* f leads from what is kept of t back to t.                               *)
Walks(f, t, S) ==
    /\ Through(f, Len(Keep(t, S)), S)
    /\ \A j \in 1 .. Len(Keep(t, S)) : Keep(t, S)[j] = t[f[j]]

LEMMA KeptWalk ==
    ASSUME NEW E, NEW t \in Seq(E), NEW S \in SUBSET (DOMAIN t)
    PROVE  \E f : Walks(f, t, S)
  BY Kept DEF Reads, Walks

LEMMA KeepKeep ==
    ASSUME NEW E, NEW t \in Seq(E), NEW S \in SUBSET (DOMAIN t), NEW f, Walks(f, t, S),
           NEW R \in SUBSET (DOMAIN Keep(t, S))
    PROVE  Keep(Keep(t, S), R) = Keep(t, {f[j] : j \in R})
  <1> DEFINE u == Keep(t, S)
             x == Keep(u, R)
             Z == {f[j] : j \in R}
             y == Keep(t, Z)
  <1>1. u \in Seq(E)
    BY Kept
  <1>2. Through(f, Len(u), S) /\ \A j \in 1 .. Len(u) : u[j] = t[f[j]]
    BY DEF Walks
  <1>t. R \in SUBSET (DOMAIN u)
    OBVIOUS
  <1> HIDE DEF u
  <1>3. x \in Seq(E) /\ Reads(x, u, R)
    BY <1>1, <1>t, Kept
  <1> HIDE DEF x
  <1>4. PICK g : Through(g, Len(x), R) /\ \A j \in 1 .. Len(x) : x[j] = u[g[j]]
    BY <1>3 DEF Reads
  <1>5. R \subseteq 1 .. Len(u) /\ Len(u) \in Nat /\ Len(x) \in Nat
    BY <1>1, <1>3, <1>t
  <1>6. \A j \in 1 .. Len(u) : f[j] \in S /\ f[j] \in Nat
    BY <1>2 DEF Through
  <1>7. Z \in SUBSET (DOMAIN t)
    BY <1>5, <1>6
  <1> DEFINE h == [j \in 1 .. Len(x) |-> f[g[j]]]
  <1>8. \A j \in 1 .. Len(x) : g[j] \in R /\ g[j] \in 1 .. Len(u)
    BY <1>4, <1>5 DEF Through
  <1>9. Through(h, Len(x), Z)
    <2>1. h \in [1 .. Len(x) -> Z]
      BY <1>8
    <2>2. ASSUME NEW j \in 1 .. Len(x), NEW k \in 1 .. Len(x), j < k PROVE h[j] < h[k]
      <3>1. g[j] < g[k]
        BY <1>4, <2>2 DEF Through
      <3>2. f[g[j]] < f[g[k]]
        BY <1>2, <1>8, <3>1 DEF Through
      <3>3. QED
        BY <3>2
    <2>3. ASSUME NEW n \in Z PROVE \E j \in 1 .. Len(x) : h[j] = n
      <3>1. PICK r \in R : n = f[r]
        OBVIOUS
      <3>2. PICK j \in 1 .. Len(x) : g[j] = r
        BY <1>4 DEF Through
      <3>3. h[j] = n
        BY <3>1, <3>2
      <3>4. QED
        BY <3>3
    <2> HIDE DEF h, Z
    <2>4. QED
      BY <2>1, <2>2, <2>3 DEF Through
  <1>10. \A j \in 1 .. Len(x) : x[j] = t[h[j]]
    BY <1>2, <1>4, <1>8
  <1> HIDE DEF h, Z
  <1>11. Reads(x, t, Z)
    BY <1>9, <1>10 DEF Reads
  <1>12. y \in Seq(E) /\ Reads(y, t, Z)
    BY <1>7, Kept
  <1> HIDE DEF y
  <1>13. x = y
    BY <1>3, <1>7, <1>11, <1>12, ReadsOnce
  <1>14. QED
    BY <1>13 DEF x, y, Z, u

(* The words of what is kept of a text are the words at those positions.   *)
LEMMA WordsKept ==
    ASSUME NEW t \in Text, NEW S \in SUBSET (DOMAIN t)
    PROVE  WordsOf(Keep(t, S)) = WordsAt(t, S)
  <1> DEFINE u == Keep(t, S)
             R == {j \in DOMAIN u : j \in DOMAIN u /\ u[j] \in Words}
             Z == {n \in DOMAIN t : n \in S /\ t[n] \in Words}
  <1>1. t \in Seq(Lexeme)
    BY DEF Text
  <1>2. PICK f : Walks(f, t, S)
    BY <1>1, KeptWalk
  <1>3. WordsOf(u) = Keep(u, R)
    BY Zenon DEF WordsOf, WordsAt
  <1>4. R \in SUBSET (DOMAIN u)
    OBVIOUS
  <1>5. Keep(u, R) = Keep(t, {f[j] : j \in R})
    <2> HIDE DEF R
    <2>1. QED
      BY <1>1, <1>2, <1>4, KeepKeep
  <1>6. u \in Seq(Lexeme)
    BY <1>1, Kept
  <1>7. Through(f, Len(u), S) /\ \A j \in 1 .. Len(u) : u[j] = t[f[j]]
    BY <1>2 DEF Walks
  <1> HIDE DEF u
  <1>8. DOMAIN u = 1 .. Len(u)
    BY <1>6
  <1>9. \A j \in DOMAIN u : f[j] \in S
    BY <1>7, <1>8 DEF Through
  <1>10. {f[j] : j \in R} \subseteq Z
    BY <1>7, <1>8, <1>9
  <1>11. ASSUME NEW n \in Z PROVE n \in {f[j] : j \in R}
    <2>1. PICK j \in 1 .. Len(u) : f[j] = n
      BY <1>7 DEF Through
    <2>2. j \in R
      BY <1>7, <1>8, <2>1
    <2>3. QED
      BY <2>1, <2>2
  <1>12. {f[j] : j \in R} = Z
    BY <1>10, <1>11
  <1> HIDE DEF R
  <1>13. QED
    BY <1>3, <1>5, <1>12 DEF u, WordsAt

-----------------------------------------------------------------------------
(* Where tags and captions are cut, without the order they are cut in.     *)

(* The positions a cut keeps, and how far it has come at each.             *)
Spared(t, ends) == {n \in DOMAIN t : Cuts(Len(t), ends)[n] < n}

LEMMA CutSteps ==
    ASSUME NEW t \in Text, NEW ends, \A n \in DOMAIN t : ends[n] \in SUBSET (n .. Len(t))
    PROVE  /\ Cut(t, ends) = Keep(t, Spared(t, ends))
           /\ Cuts(Len(t), ends)[0] = 0
           /\ \A n \in 0 .. Len(t) : Cuts(Len(t), ends)[n] \in 0 .. Len(t)
           /\ \A n \in 1 .. Len(t) :
                 Cuts(Len(t), ends)[n] = CutStep(ends, n, Cuts(Len(t), ends)[n - 1])
           /\ \A n \in 1 .. Len(t) : ends[n] # {} =>
                 Min(ends[n]) \in ends[n] /\ \A k \in ends[n] : Min(ends[n]) <= k
  <1> DEFINE N == Len(t)
             D == 0 .. N
             through == Cuts(N, ends)
  <1>1. Cut(t, ends) = Keep(t, Spared(t, ends))
    BY Zenon DEF Cut, Cuts, Spared
  <1>2. N \in Nat /\ DOMAIN t = 1 .. N /\ 0 \in D
    BY DEF Text
  <1>3. ASSUME NEW n \in 1 .. N, ends[n] # {}
        PROVE  Min(ends[n]) \in ends[n] /\ \A k \in ends[n] : Min(ends[n]) <= k
    <2>1. ends[n] \in SUBSET Nat
      BY <1>2
    <2>2. QED
      BY <1>3, <2>1, MinIsLeast
  <1>4. \A n \in 1 .. N : \A b \in D : CutStep(ends, n, b) \in D
    <2>1. ASSUME NEW n \in 1 .. N, NEW b \in D PROVE CutStep(ends, n, b) \in D
      <3>1. ends[n] # {} => Min(ends[n]) \in n .. N
        BY <1>2, <1>3
      <3>2. QED
        BY <3>1 DEF CutStep
    <2>2. QED
      BY <2>1
  <1>5. CutIn(D, N, ends)
    <2> HIDE DEF D, N
    <2>1. QED
      BY <1>2, <1>4, CutRun
  <1>6. /\ through[0] = 0
        /\ \A n \in 0 .. N : through[n] \in D
        /\ \A n \in 1 .. N : through[n] = CutStep(ends, n, through[n - 1])
    BY <1>5, Zenon DEF CutIn
  <1>7. QED
    BY <1>1, <1>3, <1>6

(* What a cut from an opening lexeme to the first closing one leaves: all  *)
(* but what an opening one has before it that is closed later, not before. *)
LeftOf(t, open, close) ==
    {n \in DOMAIN t : \A i \in 1 .. n : t[i] = open =>
        \/ \E k \in i .. n - 1 : t[k] = close
        \/ \A k \in i .. Len(t) : t[k] # close}

SpansOf(t, open, close) == [i \in DOMAIN t |-> Spans(t, i, open, close)]

LEMMA SpansLeave ==
    ASSUME NEW t \in Text, NEW open, NEW close
    PROVE  Cut(t, SpansOf(t, open, close)) = Keep(t, LeftOf(t, open, close))
  <1> DEFINE N == Len(t)
             ends == SpansOf(t, open, close)
             through == Cuts(N, ends)
  <1>0. t \in Seq(Lexeme) /\ N \in Nat /\ DOMAIN t = 1 .. N
    BY DEF Text
  <1>1. \A n \in 1 .. N :
           ends[n] = IF t[n] = open THEN {k \in n .. N : t[k] = close} ELSE {}
    BY <1>0 DEF Spans, SpansOf
  <1> HIDE DEF ends
  <1>2. \A n \in DOMAIN t : ends[n] \in SUBSET (n .. Len(t))
    BY <1>0, <1>1
  <1>3. /\ Cut(t, ends) = Keep(t, Spared(t, ends))
        /\ through[0] = 0
        /\ \A n \in 0 .. N : through[n] \in 0 .. N
        /\ \A n \in 1 .. N : through[n] = CutStep(ends, n, through[n - 1])
        /\ \A n \in 1 .. N : ends[n] # {} =>
              Min(ends[n]) \in ends[n] /\ \A k \in ends[n] : Min(ends[n]) <= k
    BY <1>2, CutSteps
  <1>4. \A n \in DOMAIN t : n \in Spared(t, ends) <=> through[n] < n
    BY DEF Spared
  <1> HIDE DEF through
  <1> DEFINE Shut(n) == \A i \in 1 .. n : t[i] = open /\ (\E k \in i .. N : t[k] = close)
                           => \E k \in i .. through[n] : t[k] = close
             Span(n) == \/ through[n] = 0
                        \/ /\ t[through[n]] = close
                           /\ \E i \in 1 .. n : /\ t[i] = open /\ i <= through[n]
                                                /\ \A k \in i .. through[n] - 1 : t[k] # close
             Good == {n \in 0 .. N : Shut(n) /\ Span(n)}
  <1>5. 0 \in Good
    <2>1. 0 \in 0 .. N
      BY <1>0
    <2>2. Shut(0) /\ Span(0)
      BY <1>3
    <2>3. QED
      BY <2>1, <2>2
  <1>6. ASSUME NEW n \in 1 .. N, n - 1 \in Good PROVE n \in Good
    <2> DEFINE before == through[n - 1]
               now == through[n]
    <2>1. n \in 0 .. N /\ n - 1 \in 0 .. N
      BY <1>0
    <2>2. before \in 0 .. N /\ now \in 0 .. N /\ now = CutStep(ends, n, before)
      BY <1>3, <2>1
    <2>3. Shut(n - 1) /\ Span(n - 1)
      BY <1>6
    <2> HIDE DEF Good
    <2>4. CASE now = before
      <3>1. Span(n)
        BY <2>1, <2>2, <2>3, <2>4
      <3>2. ASSUME NEW i \in 1 .. n, t[i] = open, NEW l \in i .. N, t[l] = close
            PROVE  \E k \in i .. now : t[k] = close
        <4>1. CASE i \in 1 .. n - 1
          BY <2>3, <2>4, <3>2, <4>1
        <4>2. CASE i = n
          <5>1. ends[n] # {}
            BY <1>1, <3>2, <4>2
          <5>2. n <= before
            <6>1. n <= before \/ now = Min(ends[n])
              BY <2>2, <5>1 DEF CutStep
            <6>2. Min(ends[n]) >= n
              <7>1. Min(ends[n]) \in ends[n]
                BY <1>3, <5>1
              <7>2. ends[n] \subseteq n .. N
                BY <1>1
              <7>3. QED
                BY <1>0, <7>1, <7>2
            <6>3. QED
              BY <2>2, <2>4, <6>1, <6>2
          <5>3. t[before] = close /\ before \in i .. now
            BY <2>2, <2>3, <2>4, <4>2, <5>2
          <5>4. QED
            BY <5>3
        <4>3. QED
          BY <4>1, <4>2
      <3>3. Shut(n)
        BY <3>2
      <3>4. QED
        BY <2>1, <3>1, <3>3 DEF Good
    <2>5. CASE now # before
      <3>1. n > before /\ ends[n] # {} /\ now = Min(ends[n])
        BY <2>2, <2>5 DEF CutStep
      <3>2. now \in ends[n] /\ \A k \in ends[n] : now <= k
        BY <1>3, <3>1
      <3>3. t[n] = open /\ now \in n .. N /\ t[now] = close
            /\ \A k \in n .. N : t[k] = close => now <= k
        BY <1>1, <3>2
      <3>4. Span(n)
        <4>1. \A k \in n .. now - 1 : t[k] # close
          BY <2>2, <3>3
        <4>2. n \in 1 .. n /\ n <= now
          BY <3>3
        <4>3. QED
          BY <3>3, <4>1, <4>2
      <3>5. ASSUME NEW i \in 1 .. n, t[i] = open, NEW l \in i .. N, t[l] = close
            PROVE  \E k \in i .. now : t[k] = close
        BY <2>2, <3>3
      <3>6. Shut(n)
        BY <3>5
      <3>7. QED
        BY <2>1, <3>4, <3>6 DEF Good
    <2>6. QED
      BY <2>4, <2>5
  <1>7. \A n \in 0 .. N : n \in Good
    <2> HIDE DEF Good, N
    <2>1. QED
      BY <1>0, <1>5, <1>6, UpTo
  <1>8. ASSUME NEW n \in DOMAIN t PROVE n \in Spared(t, ends) <=> n \in LeftOf(t, open, close)
    <2>1. n \in 1 .. N /\ n \in 0 .. N /\ through[n] \in 0 .. N
      BY <1>0, <1>3
    <2>2. Shut(n) /\ Span(n)
      BY <1>7, <2>1
    <2>3. ASSUME through[n] < n PROVE n \in LeftOf(t, open, close)
      <3>1. ASSUME NEW i \in 1 .. n, t[i] = open, NEW l \in i .. N, t[l] = close
            PROVE  \E k \in i .. n - 1 : t[k] = close
        <4>1. PICK k \in i .. through[n] : t[k] = close
          BY <2>2, <3>1
        <4>2. k \in i .. n - 1
          BY <2>1, <2>3
        <4>3. QED
          BY <4>1, <4>2
      <3>2. QED
        BY <3>1 DEF LeftOf
    <2>4. ASSUME n \in LeftOf(t, open, close), ~(through[n] < n) PROVE FALSE
      <3>1. through[n] # 0
        BY <2>1, <2>4
      <3>2. PICK i \in 1 .. n : /\ t[i] = open /\ i <= through[n]
                                /\ \A k \in i .. through[n] - 1 : t[k] # close
        BY <2>2, <3>1
      <3>3. t[through[n]] = close /\ through[n] \in i .. N
        BY <2>1, <2>2, <3>1, <3>2
      <3>4. \/ \E k \in i .. n - 1 : t[k] = close
            \/ \A k \in i .. N : t[k] # close
        BY <2>4, <3>2 DEF LeftOf
      <3>5. PICK k \in i .. n - 1 : t[k] = close
        BY <3>3, <3>4
      <3>6. k \in i .. through[n] - 1
        BY <2>1, <2>4, <3>2
      <3>7. QED
        BY <3>2, <3>5, <3>6
    <2>5. QED
      BY <1>4, <2>3, <2>4
  <1>9. Keep(t, Spared(t, ends)) = Keep(t, LeftOf(t, open, close))
    BY <1>0, <1>8, SameKept
  <1>10. QED
    BY <1>3, <1>9 DEF ends

(* A cut of two texts in a row is a cut of each, if the first leaves        *)
(* nothing open.                                                           *)
LEMMA SpansApart ==
    ASSUME NEW u \in Text, NEW v \in Text, NEW t, Joins(t, u, v), NEW open, NEW close,
           Closed(u, open, close)
    PROVE  Joins(Cut(t, SpansOf(t, open, close)),
                 Keep(u, Outside(u, open, close)), Cut(v, SpansOf(v, open, close)))
  <1> DEFINE L == Len(u)
             S == LeftOf(t, open, close)
             R == {n \in DOMAIN v : L + n \in S}
  <1>0. /\ t \in Text /\ t \in Seq(Lexeme) /\ u \in Seq(Lexeme) /\ v \in Seq(Lexeme)
        /\ L \in Nat /\ Len(v) \in Nat /\ Len(t) = L + Len(v)
        /\ \A n \in 1 .. L : t[n] = u[n]
        /\ \A n \in 1 .. Len(v) : t[L + n] = v[n]
        /\ DOMAIN u = 1 .. L /\ DOMAIN v = 1 .. Len(v) /\ DOMAIN t = 1 .. Len(t)
    BY DEF Joins, Text
  <1>1. ASSUME NEW i \in 1 .. L, t[i] = open PROVE \E k \in i .. L : t[k] = close
    <2>1. PICK k \in i .. Len(u) : u[k] = close
      BY <1>0, <1>1 DEF Closed
    <2>2. k \in 1 .. L
      BY <1>0, <2>1
    <2>3. QED
      BY <1>0, <2>1, <2>2
  <1>2. ASSUME NEW n \in DOMAIN u PROVE n \in S <=> n \in Outside(u, open, close)
    <2>1. n \in 1 .. L /\ n \in DOMAIN t /\ n \in Nat
      BY <1>0
    <2>2. \A i \in 1 .. n : /\ i \in 1 .. L /\ t[i] = u[i]
                            /\ \A k \in i .. n - 1 : t[k] = u[k]
      BY <1>0, <2>1
    <2>3. ASSUME NEW i \in 1 .. n, t[i] = open PROVE ~\A k \in i .. Len(t) : t[k] # close
      <3>1. PICK k \in i .. L : t[k] = close
        BY <1>1, <2>2, <2>3
      <3>2. k \in i .. Len(t)
        BY <1>0, <2>1, <3>1
      <3>3. QED
        BY <3>1, <3>2
    <2>4. n \in S <=> \A i \in 1 .. n : t[i] = open => \E k \in i .. n - 1 : t[k] = close
      BY <2>1, <2>3 DEF LeftOf
    <2>5. QED
      BY <2>2, <2>4 DEF Outside
  <1>3. ASSUME NEW n \in DOMAIN v PROVE n \in R <=> n \in LeftOf(v, open, close)
    <2>1. n \in 1 .. Len(v) /\ L + n \in DOMAIN t /\ n \in Nat
      BY <1>0
    <2>2. ASSUME L + n \in S PROVE n \in LeftOf(v, open, close)
      <3>1. ASSUME NEW i \in 1 .. n, v[i] = open
            PROVE  (\E k \in i .. n - 1 : v[k] = close) \/ (\A k \in i .. Len(v) : v[k] # close)
        <4>1. L + i \in 1 .. L + n /\ t[L + i] = open
          BY <1>0, <2>1, <3>1
        <4>2. CASE \E k \in L + i .. (L + n) - 1 : t[k] = close
          <5>1. PICK k \in L + i .. (L + n) - 1 : t[k] = close
            BY <4>2
          <5>2. k - L \in i .. n - 1 /\ k - L \in 1 .. Len(v) /\ L + (k - L) = k
            BY <1>0, <2>1, <5>1
          <5>3. v[k - L] = close
            BY <1>0, <5>1, <5>2
          <5>4. QED
            BY <5>2, <5>3
        <4>3. CASE \A k \in L + i .. Len(t) : t[k] # close
          <5>1. ASSUME NEW k \in i .. Len(v) PROVE v[k] # close
            <6>1. L + k \in L + i .. Len(t) /\ k \in 1 .. Len(v)
              BY <1>0, <2>1
            <6>2. QED
              BY <1>0, <4>3, <6>1
          <5>2. QED
            BY <5>1
        <4>4. QED
          BY <2>2, <4>1, <4>2, <4>3 DEF LeftOf
      <3>2. QED
        BY <3>1 DEF LeftOf
    <2>3. ASSUME n \in LeftOf(v, open, close) PROVE L + n \in S
      <3>1. ASSUME NEW i \in 1 .. L + n, t[i] = open
            PROVE  \/ \E k \in i .. (L + n) - 1 : t[k] = close
                   \/ \A k \in i .. Len(t) : t[k] # close
        <4>1. CASE i <= L
          <5>1. i \in 1 .. L
            BY <1>0, <2>1, <4>1
          <5>2. PICK k \in i .. L : t[k] = close
            BY <1>1, <3>1, <5>1
          <5>3. k \in i .. (L + n) - 1
            BY <1>0, <2>1, <5>1, <5>2
          <5>4. QED
            BY <5>2, <5>3
        <4>2. CASE i > L
          <5>1. i - L \in 1 .. n /\ i - L \in 1 .. Len(v) /\ L + (i - L) = i
            BY <1>0, <2>1, <4>2
          <5>2. v[i - L] = open
            BY <1>0, <3>1, <5>1
          <5>3. CASE \E k \in i - L .. n - 1 : v[k] = close
            <6>1. PICK k \in i - L .. n - 1 : v[k] = close
              BY <5>3
            <6>2. L + k \in i .. (L + n) - 1 /\ k \in 1 .. Len(v)
              BY <1>0, <2>1, <5>1, <6>1
            <6>3. t[L + k] = close
              BY <1>0, <6>1, <6>2
            <6>4. QED
              BY <6>2, <6>3
          <5>4. CASE \A k \in i - L .. Len(v) : v[k] # close
            <6>1. ASSUME NEW k \in i .. Len(t) PROVE t[k] # close
              <7>1. k - L \in i - L .. Len(v) /\ k - L \in 1 .. Len(v) /\ L + (k - L) = k
                BY <1>0, <5>1
              <7>2. QED
                BY <1>0, <5>4, <7>1
            <6>2. QED
              BY <6>1
          <5>5. QED
            BY <2>3, <5>1, <5>2, <5>3, <5>4 DEF LeftOf
        <4>3. QED
          BY <1>0, <2>1, <4>1, <4>2
      <3>2. QED
        BY <2>1, <3>1 DEF LeftOf
    <2>4. QED
      BY <2>2, <2>3
  <1>4. Cut(t, SpansOf(t, open, close)) = Keep(t, S)
    BY <1>0, SpansLeave
  <1>5. Cut(v, SpansOf(v, open, close)) = Keep(v, LeftOf(v, open, close))
    BY SpansLeave
  <1> HIDE DEF S
  <1>6. Joins(Keep(t, S), Keep(u, S), Keep(v, R))
    BY <1>0, KeepAppend
  <1> HIDE DEF R
  <1>7. Keep(u, S) = Keep(u, Outside(u, open, close))
    BY <1>0, <1>2, SameKept
  <1>8. Keep(v, R) = Keep(v, LeftOf(v, open, close))
    BY <1>0, <1>3, SameKept
  <1>9. QED
    BY <1>4, <1>5, <1>6, <1>7, <1>8

-----------------------------------------------------------------------------
(* The words of a field: the transformers that take words, without those   *)
(* that only take spaces and embeds.                                       *)

LEMMA WordsJoin ==
    ASSUME NEW u \in Text, NEW v \in Text, NEW t, Joins(t, u, v)
    PROVE  Joins(WordsOf(t), WordsOf(u), WordsOf(v))
  <1> DEFINE L == Len(u)
             S == {n \in DOMAIN t : n \in DOMAIN t /\ t[n] \in Words}
             A == {n \in DOMAIN u : n \in DOMAIN u /\ u[n] \in Words}
             B == {n \in DOMAIN v : n \in DOMAIN v /\ v[n] \in Words}
             R == {n \in DOMAIN v : L + n \in S}
  <1>0. /\ u \in Seq(Lexeme) /\ v \in Seq(Lexeme)
        /\ L \in Nat /\ Len(v) \in Nat /\ Len(t) = L + Len(v)
        /\ \A n \in 1 .. L : t[n] = u[n]
        /\ \A n \in 1 .. Len(v) : t[L + n] = v[n]
        /\ DOMAIN u = 1 .. L /\ DOMAIN v = 1 .. Len(v) /\ DOMAIN t = 1 .. Len(t)
    BY DEF Joins, Text
  <1>1. WordsOf(t) = Keep(t, S) /\ WordsOf(u) = Keep(u, A) /\ WordsOf(v) = Keep(v, B)
    BY Zenon DEF WordsOf, WordsAt
  <1>2. \A n \in DOMAIN u : n \in S <=> n \in A
    BY <1>0
  <1>3. \A n \in DOMAIN v : n \in R <=> n \in B
    <2>1. ASSUME NEW n \in DOMAIN v PROVE n \in R <=> n \in B
      <3>1. n \in 1 .. Len(v) /\ L + n \in DOMAIN t /\ t[L + n] = v[n]
        BY <1>0
      <3>2. QED
        BY <3>1
    <2>2. QED
      BY <2>1
  <1> HIDE DEF S, A, B
  <1>4. Joins(Keep(t, S), Keep(u, S), Keep(v, R))
    BY <1>0, KeepAppend
  <1> HIDE DEF R
  <1>5. Keep(u, S) = Keep(u, A) /\ Keep(v, R) = Keep(v, B)
    BY <1>0, <1>2, <1>3, SameKept
  <1>6. QED
    BY <1>1, <1>4, <1>5

LEMMA NoWords == WordsOf(<< >>) = << >>
  <1>1. << >> \in Seq(Lexeme) /\ Len(<< >>) = 0
    OBVIOUS
  <1> DEFINE S == {n \in DOMAIN << >> : n \in DOMAIN << >> /\ << >>[n] \in Words}
  <1>2. WordsOf(<< >>) = Keep(<< >>, S)
    BY Zenon DEF WordsOf, WordsAt
  <1> HIDE DEF S
  <1>3. Keep(<< >>, S) = Keeps(<< >>, 0, S)[0] /\ Keeps(<< >>, 0, S)[0] = << >>
    BY <1>1, KeepSteps
  <1>4. QED
    BY <1>2, <1>3

(* Leaving out what is no word leaves the words.                           *)
LEMMA WordsStay ==
    ASSUME NEW t \in Text, NEW S \in SUBSET (DOMAIN t),
           \A n \in DOMAIN t : t[n] \in Words => n \in S
    PROVE  WordsOf(Keep(t, S)) = WordsOf(t)
  <1> DEFINE A == {n \in DOMAIN t : n \in S /\ t[n] \in Words}
             B == {n \in DOMAIN t : n \in DOMAIN t /\ t[n] \in Words}
  <1>1. WordsOf(Keep(t, S)) = WordsAt(t, S)
    BY WordsKept
  <1>2. WordsAt(t, S) = Keep(t, A) /\ WordsOf(t) = Keep(t, B)
    BY Zenon DEF WordsOf, WordsAt
  <1>3. \A n \in DOMAIN t : n \in A <=> n \in B
    OBVIOUS
  <1>4. t \in Seq(Lexeme)
    BY DEF Text
  <1> HIDE DEF A, B
  <1>5. Keep(t, A) = Keep(t, B)
    BY <1>3, <1>4, SameKept
  <1>6. QED
    BY <1>1, <1>2, <1>5

LEMMA MergedWords ==
    ASSUME NEW t \in Text
    PROVE  WordsOf(DuplicateWhiteSpaceRemover(t)) = WordsOf(t)
  <1> DEFINE S == {n \in DOMAIN t : ~(t[n] = " " /\ n > 1 /\ t[n - 1] = " ")}
  <1>1. DuplicateWhiteSpaceRemover(t) = Keep(t, S)
    BY DEF DuplicateWhiteSpaceRemover
  <1>2. S \in SUBSET (DOMAIN t) /\ \A n \in DOMAIN t : t[n] \in Words => n \in S
    BY DEF Words
  <1> HIDE DEF S
  <1>3. QED
    BY <1>1, <1>2, WordsStay

(* Where a trimmed text has its lexemes: at least where they are no spaces. *)
LEMMA TrimmedAt ==
    ASSUME NEW t \in Text
    PROVE  \E S \in SUBSET (DOMAIN t) :
              /\ OuterSpaceTrimmer(t) = Keep(t, S)
              /\ \A n \in DOMAIN t : t[n] \notin {" ", "nb"} => n \in S
  <1> DEFINE shown == {k \in DOMAIN t : t[k] \notin {" ", "nb"}}
             S == {n \in DOMAIN t : \E i, k \in shown : i <= n /\ n <= k}
  <1>1. OuterSpaceTrimmer(t) = Keep(t, S)
    BY DEF OuterSpaceTrimmer
  <1>2. ASSUME NEW n \in DOMAIN t, t[n] \notin {" ", "nb"} PROVE n \in S
    <2>1. n \in Nat
      BY DEF Text
    <2>2. n <= n
      BY <2>1
    <2>3. n \in shown
      BY <1>2
    <2> HIDE DEF shown
    <2>4. \E i, k \in shown : i <= n /\ n <= k
      BY <2>2, <2>3, Zenon
    <2>5. QED
      BY <2>4
  <1>3. S \in SUBSET (DOMAIN t)
    OBVIOUS
  <1> HIDE DEF S
  <1>4. QED
    BY <1>1, <1>2, <1>3

LEMMA HeadlineWords ==
    ASSUME NEW t \in Text
    PROVE  WordsOf(TransformText("headline", t)) = WordsOf(TagsRemover(EntityTransformer(t)))
  <1> DEFINE u == TagsRemover(EntityTransformer(t))
             w == OuterSpaceTrimmer(u)
  <1>1. TransformText("headline", t) = DuplicateWhiteSpaceRemover(w)
    BY HeadlineSteps
  <1>2. u \in Text
    BY EntitiesGone, TagsGone
  <1> HIDE DEF u
  <1>3. w \in Text
    BY <1>2, SpacesTrimmed
  <1>4. PICK S \in SUBSET (DOMAIN u) :
           w = Keep(u, S) /\ \A n \in DOMAIN u : u[n] \notin {" ", "nb"} => n \in S
    BY <1>2, TrimmedAt
  <1> HIDE DEF w
  <1>5. \A n \in DOMAIN u : u[n] \in Words => n \in S
    BY <1>4 DEF Words
  <1>6. WordsOf(w) = WordsOf(u)
    BY <1>2, <1>4, <1>5, WordsStay
  <1>7. WordsOf(DuplicateWhiteSpaceRemover(w)) = WordsOf(w)
    BY <1>3, MergedWords
  <1>8. QED
    BY <1>1, <1>6, <1>7 DEF u

(* Captions take the same words from a text whatever else has been left    *)
(* out of it before.                                                       *)
LEMMA CaptionWords ==
    ASSUME NEW t \in Text, NEW S \in SUBSET (DOMAIN t),
           \A n \in DOMAIN t : t[n] \in {"[caption", "]"} => n \in S
    PROVE  WordsOf(SquaredCaptionReplacer(Keep(t, S)))
              = WordsAt(t, S \cap LeftOf(t, "[caption", "]"))
  <1> DEFINE u == Keep(t, S)
             N == Len(t)
             M == Len(u)
             A == LeftOf(u, "[caption", "]")
             B == LeftOf(t, "[caption", "]")
             R == {j \in DOMAIN u : j \in A /\ u[j] \in Words}
             Z == {n \in DOMAIN t : n \in S \cap B /\ t[n] \in Words}
  <1>1. t \in Seq(Lexeme) /\ N \in Nat /\ DOMAIN t = 1 .. N
    BY DEF Text
  <1>2. PICK f : Walks(f, t, S)
    BY <1>1, KeptWalk
  <1>3. u \in Seq(Lexeme) /\ u \in Text
    BY <1>1, Kept DEF Text
  <1>4. Through(f, M, S) /\ \A j \in 1 .. M : u[j] = t[f[j]]
    BY <1>2 DEF Walks
  <1>5. SquaredCaptionReplacer(u) = Keep(u, A)
    <2>1. SquaredCaptionReplacer(u) = Cut(u, SpansOf(u, "[caption", "]"))
      BY Zenon DEF SquaredCaptionReplacer, SpansOf
    <2> HIDE DEF u
    <2>2. QED
      BY <1>3, <2>1, SpansLeave
  <1>6. A \in SUBSET (DOMAIN u)
    BY DEF LeftOf
  <1>7. WordsOf(Keep(u, A)) = Keep(u, R)
    <2>1. WordsOf(Keep(u, A)) = WordsAt(u, A)
      <3> HIDE DEF u, A
      <3>1. QED
        BY <1>3, <1>6, WordsKept
    <2>2. QED
      BY <2>1, Zenon DEF WordsAt
  <1>8. Keep(u, R) = Keep(t, {f[j] : j \in R})
    <2>1. R \in SUBSET (DOMAIN u)
      OBVIOUS
    <2> HIDE DEF R
    <2>2. QED
      BY <1>1, <1>2, <2>1, KeepKeep
  <1>9. \A j \in DOMAIN u : j \in R <=> j \in A /\ u[j] \in Words
    OBVIOUS
  <1>10. \A n \in Z : n \in S /\ n \in B /\ t[n] \in Words /\ n \in DOMAIN t
    OBVIOUS
  <1>11. \A n \in DOMAIN t : n \in S /\ n \in B /\ t[n] \in Words => n \in Z
    OBVIOUS
  <1>12. R \subseteq DOMAIN u
    OBVIOUS
  <1> HIDE DEF u, R, Z
  <1>13. M \in Nat /\ DOMAIN u = 1 .. M
    BY <1>3
  <1>14. /\ \A j \in 1 .. M : f[j] \in S /\ f[j] \in 1 .. N
         /\ \A j, k \in 1 .. M : j < k => f[j] < f[k]
         /\ \A n \in S : \E j \in 1 .. M : f[j] = n
    BY <1>1, <1>4 DEF Through
  <1>15. \A j, k \in 1 .. M : f[j] < f[k] => j < k
    <2>1. ASSUME NEW j \in 1 .. M, NEW k \in 1 .. M, f[j] < f[k], ~(j < k) PROVE FALSE
      <3>1. CASE j = k
        BY <1>1, <1>14, <2>1, <3>1
      <3>2. CASE k < j
        BY <1>1, <1>14, <2>1, <3>2
      <3>3. QED
        BY <1>13, <2>1, <3>1, <3>2
    <2>2. QED
      BY <2>1
  <1>16. ASSUME NEW j \in 1 .. M PROVE j \in A <=> f[j] \in B
    <2>1. f[j] \in 1 .. N /\ u[j] = t[f[j]]
      BY <1>4, <1>14
    <2>2. ASSUME j \in A PROVE f[j] \in B
      <3>1. ASSUME NEW n \in 1 .. f[j], t[n] = "[caption"
            PROVE  (\E k \in n .. f[j] - 1 : t[k] = "]") \/ (\A k \in n .. N : t[k] # "]")
        <4>1. n \in DOMAIN t /\ n \in S
          BY <1>1, <2>1, <3>1
        <4>2. PICK i \in 1 .. M : f[i] = n
          BY <1>14, <4>1
        <4>3. i \in 1 .. j
          <5>1. ~(j < i)
            BY <1>1, <1>14, <2>1, <3>1, <4>2
          <5>2. QED
            BY <1>13, <5>1
        <4>4. u[i] = "[caption"
          BY <1>4, <3>1, <4>2
        <4>5. CASE \E k \in i .. j - 1 : u[k] = "]"
          <5>1. PICK k \in i .. j - 1 : u[k] = "]"
            BY <4>5
          <5>2. k \in 1 .. M /\ k < j /\ (i < k \/ i = k)
            BY <1>13, <4>3, <5>1
          <5>3. t[f[k]] = "]" /\ f[k] < f[j] /\ n <= f[k]
            BY <1>1, <1>4, <1>14, <4>2, <5>1, <5>2
          <5>4. f[k] \in n .. f[j] - 1
            BY <1>1, <1>14, <2>1, <4>1, <5>2, <5>3
          <5>5. QED
            BY <5>3, <5>4
        <4>6. CASE \A k \in i .. M : u[k] # "]"
          <5>1. ASSUME NEW k \in n .. N, t[k] = "]" PROVE FALSE
            <6>1. k \in DOMAIN t /\ k \in S
              BY <1>1, <4>1, <5>1
            <6>2. PICK l \in 1 .. M : f[l] = k
              BY <1>14, <6>1
            <6>3. ~(l < i)
              BY <1>1, <1>14, <4>1, <4>2, <5>1, <6>2
            <6>4. u[l] = "]" /\ l \in i .. M
              BY <1>4, <1>13, <5>1, <6>2, <6>3
            <6>5. QED
              BY <4>6, <6>4
          <5>2. QED
            BY <5>1
        <4>7. QED
          BY <2>2, <4>3, <4>4, <4>5, <4>6 DEF LeftOf
      <3>2. QED
        BY <1>1, <2>1, <3>1 DEF LeftOf
    <2>3. ASSUME f[j] \in B PROVE j \in A
      <3>1. ASSUME NEW i \in 1 .. j, u[i] = "[caption"
            PROVE  (\E k \in i .. j - 1 : u[k] = "]") \/ (\A k \in i .. M : u[k] # "]")
        <4>1. i \in 1 .. M /\ (i < j \/ i = j)
          BY <1>13, <3>1
        <4>2. f[i] \in 1 .. f[j] /\ t[f[i]] = "[caption"
          BY <1>1, <1>4, <1>14, <2>1, <3>1, <4>1
        <4>3. CASE \E k \in f[i] .. f[j] - 1 : t[k] = "]"
          <5>1. PICK k \in f[i] .. f[j] - 1 : t[k] = "]"
            BY <4>3
          <5>2. k \in DOMAIN t /\ k \in S /\ k \in Nat
            BY <1>1, <2>1, <4>2, <5>1
          <5>3. PICK l \in 1 .. M : f[l] = k
            BY <1>14, <5>2
          <5>4. l < j /\ ~(l < i)
            BY <1>1, <1>14, <1>15, <2>1, <4>1, <4>2, <5>1, <5>2, <5>3
          <5>5. u[l] = "]" /\ l \in i .. j - 1
            BY <1>4, <1>13, <5>1, <5>3, <5>4
          <5>6. QED
            BY <5>5
        <4>4. CASE \A k \in f[i] .. N : t[k] # "]"
          <5>1. ASSUME NEW k \in i .. M, u[k] = "]" PROVE FALSE
            <6>1. k \in 1 .. M /\ (i < k \/ i = k)
              BY <1>13, <3>1, <5>1
            <6>2. f[k] \in f[i] .. N /\ t[f[k]] = "]"
              BY <1>1, <1>4, <1>14, <4>1, <5>1, <6>1
            <6>3. QED
              BY <4>4, <6>2
          <5>2. QED
            BY <5>1
        <4>5. QED
          BY <2>3, <4>2, <4>3, <4>4 DEF LeftOf
      <3>2. QED
        BY <1>13, <3>1 DEF LeftOf
    <2>4. QED
      BY <2>2, <2>3
  <1> HIDE DEF A, B
  <1>17. {f[j] : j \in R} = Z
    <2>1. ASSUME NEW j \in R PROVE f[j] \in Z
      <3>1. j \in 1 .. M /\ j \in A /\ u[j] \in Words
        BY <1>9, <1>12, <1>13
      <3>2. f[j] \in DOMAIN t /\ f[j] \in S /\ f[j] \in B /\ t[f[j]] \in Words
        BY <1>1, <1>4, <1>14, <1>16, <3>1
      <3>3. QED
        BY <1>11, <3>2
    <2>2. ASSUME NEW n \in Z PROVE n \in {f[j] : j \in R}
      <3>1. PICK j \in 1 .. M : f[j] = n
        BY <1>10, <1>14
      <3>2. j \in R
        BY <1>4, <1>9, <1>10, <1>13, <1>16, <3>1
      <3>3. QED
        BY <3>1, <3>2
    <2>3. QED
      BY <2>1, <2>2
  <1>18. WordsOf(SquaredCaptionReplacer(u)) = Keep(t, Z)
    BY <1>5, <1>7, <1>8, <1>17
  <1>19. QED
    BY <1>18 DEF u, Z, B, WordsAt

LEMMA CaptionsLeave ==
    ASSUME NEW t \in Text
    PROVE  /\ SquaredCaptionReplacer(t) = Keep(t, LeftOf(t, "[caption", "]"))
           /\ WordsOf(SquaredCaptionReplacer(t)) = WordsAt(t, LeftOf(t, "[caption", "]"))
  <1>1. SquaredCaptionReplacer(t) = Cut(t, SpansOf(t, "[caption", "]"))
    BY Zenon DEF SquaredCaptionReplacer, SpansOf
  <1>2. SquaredCaptionReplacer(t) = Keep(t, LeftOf(t, "[caption", "]"))
    BY <1>1, SpansLeave
  <1>3. LeftOf(t, "[caption", "]") \in SUBSET (DOMAIN t)
    BY DEF LeftOf
  <1>4. QED
    BY <1>2, <1>3, WordsKept

(* Leaving out spaces and embeds before them makes no difference.          *)
LEMMA CaptionsAfter ==
    ASSUME NEW t \in Text, NEW S \in SUBSET (DOMAIN t),
           \A n \in DOMAIN t : t[n] \notin {" ", "nb", "embed1"} => n \in S
    PROVE  WordsOf(SquaredCaptionReplacer(Keep(t, S))) = WordsOf(SquaredCaptionReplacer(t))
  <1> DEFINE B == LeftOf(t, "[caption", "]")
             X == {n \in DOMAIN t : n \in S \cap B /\ t[n] \in Words}
             Y == {n \in DOMAIN t : n \in B /\ t[n] \in Words}
  <1>1. WordsOf(SquaredCaptionReplacer(Keep(t, S))) = WordsAt(t, S \cap B)
    <2>1. \A n \in DOMAIN t : t[n] \in {"[caption", "]"} => n \in S
      OBVIOUS
    <2>2. QED
      BY <2>1, CaptionWords
  <1>2. WordsOf(SquaredCaptionReplacer(t)) = WordsAt(t, B)
    BY CaptionsLeave
  <1>3. WordsAt(t, S \cap B) = Keep(t, X) /\ WordsAt(t, B) = Keep(t, Y)
    BY Zenon DEF WordsAt
  <1> HIDE DEF B
  <1>4. \A n \in DOMAIN t : n \in X <=> n \in Y
    BY DEF Words
  <1>5. t \in Seq(Lexeme)
    BY DEF Text
  <1> HIDE DEF X, Y
  <1>6. Keep(t, X) = Keep(t, Y)
    BY <1>4, <1>5, SameKept
  <1>7. QED
    BY <1>1, <1>2, <1>3, <1>6

(* A body before it is trimmed.                                            *)
Bare(t) ==
    TagsRemover(ScriptTagRemover(EntityTransformer(PullTagTransformer(
        InteractiveGraphicsMarkupTagRemover(t)))))

LEMMA BareIsText ==
    ASSUME NEW t \in Text
    PROVE  /\ Bare(t) \in Text
           /\ InteractiveGraphicsMarkupTagRemover(t) \in Text
           /\ PullTagTransformer(InteractiveGraphicsMarkupTagRemover(t)) \in Text
  <1> DEFINE t1 == InteractiveGraphicsMarkupTagRemover(t)
             t2 == PullTagTransformer(t1)
             t3 == EntityTransformer(t2)
             t4 == ScriptTagRemover(t3)
  <1>1. t1 \in Text
    BY InteractiveIsPart
  <1> HIDE DEF t1
  <1>2. t2 \in Text
    BY <1>1, PullIsPart
  <1> HIDE DEF t2
  <1>3. t3 \in Text
    BY <1>2, EntitiesGone
  <1> HIDE DEF t3
  <1>4. t4 \in Text
    BY <1>3, ScriptIsPart
  <1> HIDE DEF t4
  <1>5. TagsRemover(t4) \in Text
    BY <1>4, TagsGone
  <1>6. QED
    BY <1>1, <1>2, <1>5 DEF Bare, t1, t2, t3, t4

LEMMA BodyWords ==
    ASSUME NEW t \in Text
    PROVE  WordsOf(TransformText("body", t)) = WordsOf(SquaredCaptionReplacer(Bare(t)))
  <1> DEFINE u == Bare(t)
             w == OuterSpaceTrimmer(u)
             x == Embed1Replacer(w)
             y == SquaredCaptionReplacer(x)
             S == {n \in DOMAIN w : w[n] # "embed1"}
  <1>1. TransformText("body", t) = DuplicateWhiteSpaceRemover(y)
    BY BodySteps DEF Bare
  <1>2. u \in Text
    BY BareIsText
  <1> HIDE DEF u
  <1>3. w \in Text
    BY <1>2, SpacesTrimmed
  <1>4. PICK R \in SUBSET (DOMAIN u) :
           w = Keep(u, R) /\ \A n \in DOMAIN u : u[n] \notin {" ", "nb"} => n \in R
    BY <1>2, TrimmedAt
  <1>5. WordsOf(SquaredCaptionReplacer(w)) = WordsOf(SquaredCaptionReplacer(u))
    BY <1>2, <1>4, CaptionsAfter
  <1> HIDE DEF w
  <1>6. x = Keep(w, S) /\ x \in Text
    BY <1>3, EmbedsGone DEF Embed1Replacer
  <1>7. S \in SUBSET (DOMAIN w) /\ \A n \in DOMAIN w : w[n] \notin {" ", "nb", "embed1"} => n \in S
    OBVIOUS
  <1> HIDE DEF x, S
  <1>8. WordsOf(y) = WordsOf(SquaredCaptionReplacer(w))
    BY <1>3, <1>6, <1>7, CaptionsAfter
  <1>9. y \in Text
    BY <1>6, CaptionsGone
  <1> HIDE DEF y
  <1>10. WordsOf(DuplicateWhiteSpaceRemover(y)) = WordsOf(y)
    BY <1>9, MergedWords
  <1>11. QED
    BY <1>1, <1>5, <1>8, <1>10 DEF u

LEMMA JoinsAt ==
    ASSUME NEW E, NEW x \in Seq(E), NEW y \in Seq(E), NEW z \in Seq(E),
           Len(z) = Len(x) + Len(y),
           \A n \in 1 .. Len(x) : z[n] = x[n],
           \A n \in 1 .. Len(y) : z[Len(x) + n] = y[n]
    PROVE  Joins(z, x, y)
  <1> DEFINE w == x \o y
  <1>1. /\ w \in Seq(E) /\ Len(w) = Len(x) + Len(y)
        /\ \A n \in 1 .. Len(x) : w[n] = x[n]
        /\ \A n \in 1 .. Len(y) : w[Len(x) + n] = y[n]
    OBVIOUS
  <1> HIDE DEF w
  <1>2. ASSUME NEW n \in 1 .. Len(z) PROVE z[n] = w[n]
    <2>1. CASE n <= Len(x)
      BY <1>1, <2>1
    <2>2. CASE n > Len(x)
      <3>1. n - Len(x) \in 1 .. Len(y) /\ Len(x) + (n - Len(x)) = n
        BY <2>2
      <3>2. QED
        BY <1>1, <3>1
    <2>3. QED
      BY <2>1, <2>2
  <1>3. z = w
    BY <1>1, <1>2
  <1>4. QED
    BY <1>3 DEF Joins, w

LEMMA EntitiesApart ==
    ASSUME NEW u \in Text, NEW v \in Text, NEW t, Joins(t, u, v)
    PROVE  Joins(EntityTransformer(t), EntityTransformer(u), EntityTransformer(v))
  <1> DEFINE x == EntityTransformer(u)
             y == EntityTransformer(v)
             z == EntityTransformer(t)
  <1>0. /\ Len(u) \in Nat /\ Len(v) \in Nat /\ Len(t) = Len(u) + Len(v)
        /\ t \in Text
        /\ \A n \in 1 .. Len(u) : t[n] = u[n]
        /\ \A n \in 1 .. Len(v) : t[Len(u) + n] = v[n]
    BY DEF Joins, Text
  <1>1. x \in Text /\ y \in Text /\ z \in Text
    BY <1>0, EntitiesGone
  <1>2. /\ Len(x) = Len(u) /\ \A n \in 1 .. Len(u) : x[n] = Unescaped(u[n])
        /\ Len(y) = Len(v) /\ \A n \in 1 .. Len(v) : y[n] = Unescaped(v[n])
        /\ Len(z) = Len(t) /\ \A n \in 1 .. Len(t) : z[n] = Unescaped(t[n])
    BY <1>0 DEF EntityTransformer, Text
  <1> HIDE DEF x, y, z
  <1>3. x \in Seq(Lexeme) /\ y \in Seq(Lexeme) /\ z \in Seq(Lexeme)
    BY <1>1 DEF Text
  <1>4. \A n \in 1 .. Len(x) : z[n] = x[n]
    BY <1>0, <1>2
  <1>5. \A n \in 1 .. Len(y) : z[Len(x) + n] = y[n]
    <2>1. ASSUME NEW n \in 1 .. Len(y) PROVE z[Len(x) + n] = y[n]
      <3>1. n \in 1 .. Len(v) /\ Len(u) + n \in 1 .. Len(t)
        BY <1>0, <1>2
      <3>2. QED
        BY <1>0, <1>2, <3>1
    <2>2. QED
      BY <2>1
  <1>6. Joins(z, x, y)
    BY <1>0, <1>2, <1>3, <1>4, <1>5, JoinsAt
  <1>7. QED
    BY <1>6 DEF x, y, z

-----------------------------------------------------------------------------
(* A cut behind a text that it leaves as it is, or takes as a whole.        *)

LEMMA AllOrNone ==
    ASSUME NEW t \in Text, NEW S
    PROVE  /\ (\A n \in DOMAIN t : n \in S) => Keep(t, S) = t
           /\ (\A n \in DOMAIN t : n \notin S) => Keep(t, S) = << >>
  <1>0. t \in Seq(Lexeme) /\ Len(t) \in Nat /\ DOMAIN t = 1 .. Len(t)
    BY DEF Text
  <1>1. ASSUME \A n \in DOMAIN t : n \in S PROVE Keep(t, S) = t
    <2> DEFINE u == Keep(t, DOMAIN t)
               D == DOMAIN t
               f == [j \in 1 .. Len(t) |-> j]
    <2>1. Keep(t, S) = u
      BY <1>0, <1>1, SameKept
    <2>2. u \in Seq(Lexeme) /\ Reads(u, t, D)
      BY <1>0, Kept
    <2>3. Through(f, Len(t), D) /\ \A j \in 1 .. Len(t) : t[j] = t[f[j]]
      BY <1>0 DEF Through
    <2>4. Reads(t, t, D)
      <3> HIDE DEF f
      <3>1. QED
        BY <2>3 DEF Reads
    <2> HIDE DEF u
    <2>5. u = t
      BY <1>0, <2>2, <2>4, ReadsOnce
    <2>6. QED
      BY <2>1, <2>5
  <1>2. ASSUME \A n \in DOMAIN t : n \notin S PROVE Keep(t, S) = << >>
    <2> DEFINE u == Keep(t, {})
    <2>1. Keep(t, S) = u
      BY <1>0, <1>2, SameKept
    <2>2. u \in Seq(Lexeme) /\ Reads(u, t, {})
      BY <1>0, Kept
    <2> HIDE DEF u
    <2>3. ASSUME 1 \in DOMAIN u PROVE FALSE
      <3>1. 1 \in 1 .. Len(u)
        BY <2>2, <2>3
      <3>2. QED
        BY <2>2, <3>1 DEF Reads, Through
    <2>4. u = << >>
      BY <2>2, <2>3
    <2>5. QED
      BY <2>1, <2>4
  <1>3. QED
    BY <1>1, <1>2

(* A has what B has, L positions further on.                               *)
Shifted(A, B, L) == \A k \in Nat : k \in A <=> k - L \in B

LEMMA ShiftedMin ==
    ASSUME NEW A \in SUBSET Nat, NEW B \in SUBSET Nat, NEW L \in Nat, Shifted(A, B, L)
    PROVE  /\ A = {} <=> B = {}
           /\ A # {} => Min(A) = L + Min(B)
  <1>1. ASSUME NEW k \in B PROVE L + k \in A
    <2>1. L + k \in Nat /\ (L + k) - L = k
      OBVIOUS
    <2>2. QED
      BY <2>1 DEF Shifted
  <1>2. ASSUME NEW k \in A PROVE k - L \in B
    BY DEF Shifted
  <1>3. A = {} <=> B = {}
    BY <1>1, <1>2
  <1>4. ASSUME A # {} PROVE Min(A) = L + Min(B)
    <2>1. Min(A) \in A /\ \A k \in A : Min(A) <= k
      BY <1>4, MinIsLeast
    <2>2. Min(B) \in B /\ \A k \in B : Min(B) <= k
      BY <1>3, <1>4, MinIsLeast
    <2>3. L + Min(B) \in A /\ Min(A) - L \in B
      BY <1>1, <1>2, <2>1, <2>2
    <2>4. Min(A) \in Nat /\ Min(B) \in Nat
      BY <2>1, <2>2
    <2>5. Min(A) <= L + Min(B) /\ Min(B) <= Min(A) - L
      BY <2>1, <2>2, <2>3
    <2>6. QED
      BY <2>4, <2>5
  <1>5. QED
    BY <1>3, <1>4

(* No match ends in front of where it starts.                              *)
Ahead(ends, t) == \A n \in DOMAIN t : ends[n] \in SUBSET (n .. Len(t))

(* Behind u, matches of one text are those of another.                     *)
SameBehind(u, ends, v, tails) ==
    \A n \in DOMAIN v : Shifted(ends[Len(u) + n], tails[n], Len(u))

(* A cut goes on behind u as if there were no u, if it takes nothing of it, *)
(* or all of it at once.                                                   *)
CutBehind(t, ends, u, v, tails) ==
    /\ (\A n \in DOMAIN u : ends[n] = {}) => Joins(Cut(t, ends), u, Cut(v, tails))
    /\ (u # << >> /\ ends[1] # {} /\ Min(ends[1]) = Len(u)) => Cut(t, ends) = Cut(v, tails)

(* What a cut leaves of a text in two parts, of which the first keeps its   *)
(* matches to itself.                                                      *)
LEMMA MatchesApart ==
    ASSUME NEW u \in Text, NEW v \in Text, NEW t, Joins(t, u, v), NEW ends, NEW tails,
           Ahead(ends, t), Ahead(tails, v), SameBehind(u, ends, v, tails)
    PROVE  CutBehind(t, ends, u, v, tails)
  <1> DEFINE L == Len(u)
             a == Cuts(Len(t), ends)
             b == Cuts(Len(v), tails)
             S == Spared(t, ends)
             R == {n \in DOMAIN v : L + n \in S}
             Good == {n \in 0 .. Len(v) : \/ b[n] = 0 /\ a[L + n] = a[L]
                                          \/ b[n] # 0 /\ a[L + n] = L + b[n]}
  <1>0. /\ t \in Text /\ t \in Seq(Lexeme) /\ u \in Seq(Lexeme) /\ v \in Seq(Lexeme)
        /\ L \in Nat /\ Len(v) \in Nat /\ Len(t) = L + Len(v)
        /\ DOMAIN u = 1 .. L /\ DOMAIN v = 1 .. Len(v) /\ DOMAIN t = 1 .. Len(t)
    BY DEF Joins, Text
  <1>a. /\ \A n \in DOMAIN t : ends[n] \in SUBSET (n .. Len(t))
        /\ \A n \in DOMAIN v : tails[n] \in SUBSET (n .. Len(v))
        /\ \A n \in DOMAIN v : Shifted(ends[L + n], tails[n], L)
    BY DEF Ahead, SameBehind
  <1>1. /\ Cut(t, ends) = Keep(t, S)
        /\ a[0] = 0
        /\ \A n \in 0 .. Len(t) : a[n] \in 0 .. Len(t)
        /\ \A n \in 1 .. Len(t) : a[n] = CutStep(ends, n, a[n - 1])
    BY <1>0, <1>a, CutSteps
  <1>2. /\ Cut(v, tails) = Keep(v, Spared(v, tails))
        /\ b[0] = 0
        /\ \A n \in 0 .. Len(v) : b[n] \in 0 .. Len(v)
        /\ \A n \in 1 .. Len(v) : b[n] = CutStep(tails, n, b[n - 1])
        /\ \A n \in 1 .. Len(v) : tails[n] # {} => Min(tails[n]) \in tails[n]
    BY <1>a, CutSteps
  <1>3. /\ \A n \in DOMAIN t : n \in S <=> a[n] < n
        /\ \A n \in DOMAIN v : n \in Spared(v, tails) <=> b[n] < n
    BY DEF Spared
  <1>4. Joins(Keep(t, S), Keep(u, S), Keep(v, R))
    <2> HIDE DEF S
    <2>1. QED
      BY <1>0, KeepAppend
  <1> HIDE DEF a, b, S
  <1>5. ASSUME a[L] <= L PROVE Keep(v, R) = Cut(v, tails)
    <2>0. L \in 0 .. Len(t) /\ a[L] \in Nat
      BY <1>0, <1>1
    <2>1. 0 \in Good
      <3>1. 0 \in 0 .. Len(v) /\ L + 0 = L
        BY <1>0
      <3>2. QED
        BY <1>2, <3>1
    <2>2. ASSUME NEW n \in 1 .. Len(v), n - 1 \in Good PROVE n \in Good
      <3>1. /\ n \in 0 .. Len(v) /\ n - 1 \in 0 .. Len(v) /\ n \in DOMAIN v
            /\ L + n \in 1 .. Len(t) /\ (L + n) - 1 = L + (n - 1)
        BY <1>0
      <3>2. b[n] = CutStep(tails, n, b[n - 1]) /\ a[L + n] = CutStep(ends, L + n, a[L + (n - 1)])
        BY <1>1, <1>2, <3>1
      <3>3. b[n - 1] \in Nat
        BY <1>2, <3>1
      <3>4. ends[L + n] \in SUBSET Nat /\ tails[n] \in SUBSET Nat
        BY <1>0, <1>a, <3>1
      <3>5. /\ ends[L + n] = {} <=> tails[n] = {}
            /\ ends[L + n] # {} => Min(ends[L + n]) = L + Min(tails[n])
        <4>1. Shifted(ends[L + n], tails[n], L)
          BY <1>a, <3>1
        <4>2. QED
          BY <1>0, <3>4, <4>1, ShiftedMin
      <3>6. tails[n] # {} => Min(tails[n]) \in Nat /\ Min(tails[n]) # 0
        <4>1. ASSUME tails[n] # {} PROVE Min(tails[n]) \in n .. Len(v)
          BY <1>2, <1>a, <3>1, <4>1
        <4>2. QED
          BY <4>1
      <3>7. \/ b[n - 1] = 0 /\ a[L + (n - 1)] = a[L]
            \/ b[n - 1] # 0 /\ a[L + (n - 1)] = L + b[n - 1]
        BY <2>2
      <3> HIDE DEF Good
      <3>8. L + n <= a[L + (n - 1)] <=> n <= b[n - 1]
        BY <1>0, <1>5, <2>0, <3>3, <3>7
      <3>9. CASE n <= b[n - 1] \/ tails[n] = {}
        <4>1. b[n] = b[n - 1] /\ a[L + n] = a[L + (n - 1)]
          BY <3>2, <3>5, <3>8, <3>9, Zenon DEF CutStep
        <4>2. QED
          BY <3>1, <3>7, <4>1 DEF Good
      <3>10. CASE ~(n <= b[n - 1] \/ tails[n] = {})
        <4>1. b[n] = Min(tails[n]) /\ a[L + n] = Min(ends[L + n])
          BY <3>2, <3>5, <3>8, <3>10, Zenon DEF CutStep
        <4>2. QED
          BY <3>1, <3>5, <3>6, <3>10, <4>1 DEF Good
      <3>11. QED
        BY <3>9, <3>10
    <2>3. \A n \in 0 .. Len(v) : n \in Good
      <3> HIDE DEF Good
      <3>1. QED
        BY <1>0, <2>1, <2>2, UpTo
    <2>4. ASSUME NEW n \in DOMAIN v PROVE n \in R <=> n \in Spared(v, tails)
      <3>1. n \in 1 .. Len(v) /\ n \in 0 .. Len(v) /\ L + n \in DOMAIN t
        BY <1>0
      <3>2. \/ b[n] = 0 /\ a[L + n] = a[L]
            \/ b[n] # 0 /\ a[L + n] = L + b[n]
        BY <2>3, <3>1
      <3>3. b[n] \in Nat
        BY <1>2, <3>1
      <3>4. a[L + n] < L + n <=> b[n] < n
        BY <1>0, <1>5, <2>0, <3>1, <3>2, <3>3
      <3>5. QED
        BY <1>3, <3>1, <3>4
    <2> HIDE DEF R
    <2>5. QED
      BY <1>0, <1>2, <2>4, SameKept
  <1> HIDE DEF R
  <1>6. ASSUME \A n \in DOMAIN u : ends[n] = {} PROVE Joins(Cut(t, ends), u, Cut(v, tails))
    <2> DEFINE Zero == {n \in 0 .. L : a[n] = 0}
    <2>1. 0 \in Zero
      BY <1>0, <1>1
    <2>2. ASSUME NEW n \in 1 .. L, n - 1 \in Zero PROVE n \in Zero
      <3>1. n \in 1 .. Len(t) /\ n \in 0 .. L /\ ends[n] = {} /\ a[n - 1] = 0
        BY <1>0, <1>6, <2>2
      <3>2. a[n] = 0
        BY <1>1, <3>1 DEF CutStep
      <3>3. QED
        BY <3>1, <3>2
    <2>3. \A n \in 0 .. L : n \in Zero
      <3> HIDE DEF Zero, L
      <3>1. QED
        BY <1>0, <2>1, <2>2, UpTo
    <2>4. a[L] <= L
      <3>1. L \in 0 .. L
        BY <1>0
      <3>2. QED
        BY <1>0, <2>3, <3>1
    <2>5. \A n \in DOMAIN u : n \in S
      <3>1. ASSUME NEW n \in DOMAIN u PROVE n \in S
        <4>1. n \in 0 .. L /\ n \in DOMAIN t /\ n > 0
          BY <1>0
        <4>2. QED
          BY <1>3, <2>3, <4>1
      <3>2. QED
        BY <3>1
    <2>6. Keep(u, S) = u
      BY <2>5, AllOrNone
    <2>7. QED
      BY <1>1, <1>4, <1>5, <2>4, <2>6
  <1>7. ASSUME u # << >>, ends[1] # {}, Min(ends[1]) = L PROVE Cut(t, ends) = Cut(v, tails)
    <2> DEFINE Full == {n \in 0 .. L : n = 0 \/ a[n] = L}
    <2>0. L >= 1
      BY <1>0, <1>7
    <2>1. 0 \in Full
      BY <1>0
    <2>2. ASSUME NEW n \in 1 .. L, n - 1 \in Full PROVE n \in Full
      <3>1. n \in 1 .. Len(t) /\ n \in 0 .. L
        BY <1>0
      <3>2. a[n] = CutStep(ends, n, a[n - 1])
        BY <1>1, <3>1
      <3>3. CASE n = 1
        <4>1. a[n - 1] = 0
          BY <1>1, <3>3
        <4>2. a[n] = L
          BY <1>7, <3>2, <3>3, <4>1 DEF CutStep
        <4>3. QED
          BY <3>1, <4>2
      <3>4. CASE n # 1
        <4>1. a[n - 1] = L
          BY <2>2, <3>4
        <4>2. a[n] = L
          BY <3>1, <3>2, <4>1 DEF CutStep
        <4>3. QED
          BY <3>1, <4>2
      <3>5. QED
        BY <3>3, <3>4
    <2>3. \A n \in 0 .. L : n \in Full
      <3> HIDE DEF Full, L
      <3>1. QED
        BY <1>0, <2>1, <2>2, UpTo
    <2>4. a[L] <= L
      <3>1. L \in 0 .. L
        BY <1>0
      <3>2. QED
        BY <1>0, <2>0, <2>3, <3>1
    <2>5. \A n \in DOMAIN u : n \notin S
      <3>1. ASSUME NEW n \in DOMAIN u PROVE n \notin S
        <4>1. n \in 0 .. L /\ n \in DOMAIN t /\ n > 0 /\ n <= L
          BY <1>0
        <4>2. a[n] = L
          BY <2>3, <4>1
        <4>3. QED
          BY <1>0, <1>3, <4>1, <4>2
      <3>2. QED
        BY <3>1
    <2>6. Keep(u, S) = << >>
      BY <2>5, AllOrNone
    <2>7. Cut(v, tails) \in Seq(Lexeme)
      BY <1>a, CutIsPart DEF Text
    <2>8. Joins(Cut(t, ends), << >>, Cut(v, tails))
      BY <1>1, <1>4, <1>5, <2>4, <2>6
    <2>9. QED
      BY <2>7, <2>8 DEF Joins
  <1>8. QED
    BY <1>6, <1>7, Zenon DEF CutBehind

-----------------------------------------------------------------------------
(* Graphics, pull quotes and scripts behind such a text.                   *)

LEMMA IsThree ==
    ASSUME NEW t \in Text, NEW i \in Nat \ {0}, NEW a, NEW b, NEW c
    PROVE  Is(t, i, <<a, b, c>>)
              <=> i + 2 <= Len(t) /\ t[i] = a /\ t[i + 1] = b /\ t[i + 2] = c
  <1>0. t \in Seq(Lexeme) /\ Len(t) \in Nat /\ Len(<<a, b, c>>) = 3
    BY DEF Text
  <1>1. Is(t, i, <<a, b, c>>) <=> i + 2 <= Len(t) /\ SubSeq(t, i, i + 2) = <<a, b, c>>
    <2>1. i + 3 - 1 = i + 2
      OBVIOUS
    <2>2. QED
      BY <1>0, <2>1 DEF Is
  <1>2. ASSUME i + 2 <= Len(t)
        PROVE  SubSeq(t, i, i + 2) = <<a, b, c>> <=> t[i] = a /\ t[i + 1] = b /\ t[i + 2] = c
    <2> DEFINE s == SubSeq(t, i, i + 2)
    <2>1. s \in Seq(Lexeme) /\ Len(s) = 3
      BY <1>0, <1>2
    <2>2. s[1] = t[i] /\ s[2] = t[i + 1] /\ s[3] = t[i + 2]
      BY <1>0, <1>2
    <2> HIDE DEF s
    <2>3. s = <<s[1], s[2], s[3]>>
      BY <2>1
    <2>4. QED
      BY <2>2, <2>3 DEF s
  <1>3. QED
    BY <1>1, <1>2

LEMMA IsTwo ==
    ASSUME NEW t \in Text, NEW i \in Nat \ {0}, NEW a, NEW b
    PROVE  Is(t, i, <<a, b>>) <=> i + 1 <= Len(t) /\ t[i] = a /\ t[i + 1] = b
  <1>0. t \in Seq(Lexeme) /\ Len(t) \in Nat /\ Len(<<a, b>>) = 2
    BY DEF Text
  <1>1. Is(t, i, <<a, b>>) <=> i + 1 <= Len(t) /\ SubSeq(t, i, i + 1) = <<a, b>>
    <2>1. i + 2 - 1 = i + 1
      OBVIOUS
    <2>2. QED
      BY <1>0, <2>1 DEF Is
  <1>2. ASSUME i + 1 <= Len(t)
        PROVE  SubSeq(t, i, i + 1) = <<a, b>> <=> t[i] = a /\ t[i + 1] = b
    <2> DEFINE s == SubSeq(t, i, i + 1)
    <2>1. s \in Seq(Lexeme) /\ Len(s) = 2
      BY <1>0, <1>2
    <2>2. s[1] = t[i] /\ s[2] = t[i + 1]
      BY <1>0, <1>2
    <2> HIDE DEF s
    <2>3. s = <<s[1], s[2]>>
      BY <2>1
    <2>4. QED
      BY <2>2, <2>3 DEF s
  <1>3. QED
    BY <1>1, <1>2

(* What the positions of two texts in a row are.                           *)
LEMMA JoinedAt ==
    ASSUME NEW u \in Text, NEW v \in Text, NEW t, Joins(t, u, v)
    PROVE  /\ t \in Text
           /\ Len(u) \in Nat /\ Len(v) \in Nat /\ Len(t) = Len(u) + Len(v)
           /\ \A n \in 1 .. Len(u) : t[n] = u[n]
           /\ \A n \in 1 .. Len(v) : t[Len(u) + n] = v[n]
           /\ DOMAIN u = 1 .. Len(u) /\ DOMAIN v = 1 .. Len(v) /\ DOMAIN t = 1 .. Len(t)
  BY DEF Joins, Text

LEMMA IsShifted ==
    ASSUME NEW u \in Text, NEW v \in Text, NEW t, Joins(t, u, v), NEW n \in Nat \ {0},
           NEW a, NEW b, NEW c
    PROVE  /\ Is(t, Len(u) + n, <<a, b, c>>) <=> Is(v, n, <<a, b, c>>)
           /\ Is(t, Len(u) + n, <<a, b>>) <=> Is(v, n, <<a, b>>)
  <1> DEFINE L == Len(u)
  <1>0. /\ t \in Text
        /\ L \in Nat /\ Len(v) \in Nat /\ Len(t) = L + Len(v)
        /\ \A k \in 1 .. Len(v) : t[L + k] = v[k]
    BY JoinedAt
  <1>1. L + n \in Nat \ {0} /\ (L + n) + 1 = L + (n + 1) /\ (L + n) + 2 = L + (n + 2)
    BY <1>0
  <1> HIDE DEF L
  <1>2. /\ Is(t, L + n, <<a, b, c>>) <=>
             (L + n) + 2 <= Len(t) /\ t[L + n] = a /\ t[(L + n) + 1] = b /\ t[(L + n) + 2] = c
        /\ Is(t, L + n, <<a, b>>) <=>
             (L + n) + 1 <= Len(t) /\ t[L + n] = a /\ t[(L + n) + 1] = b
    BY <1>0, <1>1, IsThree, IsTwo
  <1>3. /\ Is(v, n, <<a, b, c>>) <=>
             n + 2 <= Len(v) /\ v[n] = a /\ v[n + 1] = b /\ v[n + 2] = c
        /\ Is(v, n, <<a, b>>) <=> n + 1 <= Len(v) /\ v[n] = a /\ v[n + 1] = b
    BY IsThree, IsTwo
  <1>4. Is(t, L + n, <<a, b, c>>) <=> Is(v, n, <<a, b, c>>)
    <2>1. (L + n) + 2 <= Len(t) <=> n + 2 <= Len(v)
      BY <1>0
    <2>2. ASSUME n + 2 <= Len(v)
          PROVE  t[L + n] = v[n] /\ t[L + (n + 1)] = v[n + 1] /\ t[L + (n + 2)] = v[n + 2]
      <3>1. n \in 1 .. Len(v) /\ n + 1 \in 1 .. Len(v) /\ n + 2 \in 1 .. Len(v)
        BY <1>0, <2>2
      <3>2. QED
        BY <1>0, <3>1
    <2>3. QED
      BY <1>1, <1>2, <1>3, <2>1, <2>2
  <1>5. Is(t, L + n, <<a, b>>) <=> Is(v, n, <<a, b>>)
    <2>1. (L + n) + 1 <= Len(t) <=> n + 1 <= Len(v)
      BY <1>0
    <2>2. ASSUME n + 1 <= Len(v) PROVE t[L + n] = v[n] /\ t[L + (n + 1)] = v[n + 1]
      <3>1. n \in 1 .. Len(v) /\ n + 1 \in 1 .. Len(v)
        BY <1>0, <2>2
      <3>2. QED
        BY <1>0, <3>1
    <2>3. QED
      BY <1>1, <1>2, <1>3, <2>1, <2>2
  <1>6. QED
    BY <1>4, <1>5 DEF L

(* What is found in the first text is found there whatever follows; and an  *)
(* opening tag that is not in it cannot begin at its end.                  *)
LEMMA IsThere ==
    ASSUME NEW u \in Text, NEW v \in Text, NEW t, Joins(t, u, v), NEW n \in Nat \ {0},
           NEW a, NEW b, NEW c
    PROVE  /\ n + 2 <= Len(u) => (Is(t, n, <<a, b, c>>) <=> Is(u, n, <<a, b, c>>))
           /\ n + 1 <= Len(u) => (Is(t, n, <<a, b>>) <=> Is(u, n, <<a, b>>))
           /\ (n <= Len(u) /\ Last(u) # a /\ ~Is(u, n, <<a, b>>))
              => ~Is(t, n, <<a, b, c>>) /\ ~Is(t, n, <<a, b>>)
  <1>0. /\ t \in Text
        /\ Len(u) \in Nat /\ Len(v) \in Nat /\ Len(t) = Len(u) + Len(v)
        /\ \A k \in 1 .. Len(u) : t[k] = u[k]
        /\ DOMAIN u = 1 .. Len(u)
    BY JoinedAt
  <1>1. /\ Is(t, n, <<a, b, c>>) <=>
             n + 2 <= Len(t) /\ t[n] = a /\ t[n + 1] = b /\ t[n + 2] = c
        /\ Is(t, n, <<a, b>>) <=> n + 1 <= Len(t) /\ t[n] = a /\ t[n + 1] = b
    BY <1>0, IsThree, IsTwo
  <1>2. /\ Is(u, n, <<a, b, c>>) <=>
             n + 2 <= Len(u) /\ u[n] = a /\ u[n + 1] = b /\ u[n + 2] = c
        /\ Is(u, n, <<a, b>>) <=> n + 1 <= Len(u) /\ u[n] = a /\ u[n + 1] = b
    BY IsThree, IsTwo
  <1>3. ASSUME n + 1 <= Len(u) PROVE t[n] = u[n] /\ t[n + 1] = u[n + 1]
    <2>1. n \in 1 .. Len(u) /\ n + 1 \in 1 .. Len(u)
      BY <1>0, <1>3
    <2>2. QED
      BY <1>0, <2>1
  <1>4. ASSUME n + 2 <= Len(u) PROVE t[n + 2] = u[n + 2]
    <2>1. n + 2 \in 1 .. Len(u)
      BY <1>0, <1>4
    <2>2. QED
      BY <1>0, <2>1
  <1>5. ASSUME n <= Len(u), Last(u) # a, ~Is(u, n, <<a, b>>)
        PROVE  ~(t[n] = a /\ t[n + 1] = b)
    <2>1. CASE n = Len(u)
      <3>1. t[n] = u[Len(u)]
        <4>1. n \in 1 .. Len(u)
          BY <1>0, <2>1
        <4>2. QED
          BY <1>0, <2>1, <4>1
      <3>2. QED
        BY <1>5, <3>1 DEF Last
    <2>2. CASE n + 1 <= Len(u)
      <3>1. ~(u[n] = a /\ u[n + 1] = b)
        BY <1>2, <1>5, <2>2
      <3>2. QED
        BY <1>3, <2>2, <3>1
    <2>3. n = Len(u) \/ n + 1 <= Len(u)
      <3>1. n <= Len(u) /\ Len(u) \in Nat /\ n \in Nat
        BY <1>0, <1>5
      <3>2. QED
        BY <3>1
    <2>4. QED
      BY <2>1, <2>2, <2>3, Zenon
  <1>6. n + 2 <= Len(u) => n + 1 <= Len(u) /\ n + 2 <= Len(t) /\ n + 1 <= Len(t)
    BY <1>0
  <1>7. n + 1 <= Len(u) => n + 1 <= Len(t)
    BY <1>0
  <1>8. QED
    BY <1>1, <1>2, <1>3, <1>4, <1>5, <1>6, <1>7

LEMMA ClosesShifted ==
    ASSUME NEW u \in Text, NEW v \in Text, NEW t, Joins(t, u, v), NEW name,
           NEW opens \in SUBSET Nat, NEW outs \in SUBSET Nat, Shifted(opens, outs, Len(u))
    PROVE  Shifted(Closes(t, opens, name), Closes(v, outs, name), Len(u))
  <1> DEFINE L == Len(u)
             A == Closes(t, opens, name)
             B == Closes(v, outs, name)
  <1>0. t \in Text /\ L \in Nat /\ Len(v) \in Nat /\ Len(t) = L + Len(v)
    BY JoinedAt
  <1>1. ASSUME NEW k \in Nat, k \in A PROVE k - L \in B
    <2>1. PICK o \in opens : k - 2 > o /\ Is(t, k - 2, <<"<", name, ">">>)
      BY <1>1 DEF Closes
    <2>2. k \in 1 .. Len(t)
      BY <1>1 DEF Closes
    <2>3. o \in Nat /\ o - L \in outs
      BY DEF Shifted
    <2>4. o - L \in Nat
      BY <2>3
    <2>5. /\ (k - L) - 2 \in Nat \ {0} /\ L + ((k - L) - 2) = k - 2
          /\ (k - L) - 2 > o - L /\ k - L \in 1 .. Len(v)
      BY <1>0, <2>1, <2>2, <2>3, <2>4
    <2>6. Is(v, (k - L) - 2, <<"<", name, ">">>)
      <3> DEFINE n == (k - L) - 2
      <3>1. n \in Nat \ {0} /\ Is(t, L + n, <<"<", name, ">">>)
        BY <2>1, <2>5
      <3> HIDE DEF n
      <3>2. Is(v, n, <<"<", name, ">">>)
        BY <3>1, IsShifted
      <3>3. QED
        BY <3>2 DEF n
    <2>7. QED
      BY <2>3, <2>5, <2>6 DEF Closes
  <1>2. ASSUME NEW k \in Nat, k - L \in B PROVE k \in A
    <2>1. PICK o \in outs : (k - L) - 2 > o /\ Is(v, (k - L) - 2, <<"<", name, ">">>)
      BY <1>2 DEF Closes
    <2>2. k - L \in 1 .. Len(v)
      BY <1>2 DEF Closes
    <2>3. o \in Nat /\ L + o \in Nat /\ (L + o) - L = o
      BY <1>0
    <2>4. L + o \in opens
      BY <2>3 DEF Shifted
    <2>5. /\ (k - L) - 2 \in Nat \ {0} /\ L + ((k - L) - 2) = k - 2
          /\ k - 2 > L + o /\ k \in 1 .. Len(t)
      BY <1>0, <2>1, <2>2, <2>3
    <2>6. Is(t, k - 2, <<"<", name, ">">>)
      <3> DEFINE n == (k - L) - 2
      <3>1. n \in Nat \ {0} /\ L + n = k - 2 /\ Is(v, n, <<"<", name, ">">>)
        BY <2>1, <2>5
      <3> HIDE DEF n
      <3>2. Is(t, L + n, <<"<", name, ">">>)
        BY <3>1, IsShifted
      <3>3. QED
        BY <3>1, <3>2
    <2>7. QED
      BY <2>4, <2>5, <2>6 DEF Closes
  <1>3. QED
    BY <1>1, <1>2 DEF Shifted

(* The first closing tag is where it was, whatever follows.                *)
LEMMA ClosesThere ==
    ASSUME NEW u \in Text, NEW v \in Text, NEW t, Joins(t, u, v), NEW name,
           NEW opens \in SUBSET Nat, Closes(u, opens, name) = {Len(u)}
    PROVE  Closes(t, opens, name) # {} /\ Min(Closes(t, opens, name)) = Len(u)
  <1> DEFINE A == Closes(t, opens, name)
             B == Closes(u, opens, name)
  <1>0. t \in Text /\ Len(u) \in Nat /\ Len(v) \in Nat /\ Len(t) = Len(u) + Len(v)
    BY JoinedAt
  <1>1. ASSUME NEW k \in 1 .. Len(u) PROVE k \in A <=> k \in B
    <2>1. ASSUME NEW o \in opens, k - 2 > o
          PROVE  Is(t, k - 2, <<"<", name, ">">>) <=> Is(u, k - 2, <<"<", name, ">">>)
      <3> DEFINE n == k - 2
      <3>1. n \in Nat \ {0} /\ n + 2 <= Len(u)
        BY <1>0, <2>1
      <3> HIDE DEF n
      <3>2. Is(t, n, <<"<", name, ">">>) <=> Is(u, n, <<"<", name, ">">>)
        BY <3>1, IsThere
      <3>3. QED
        BY <3>2 DEF n
    <2>2. k \in 1 .. Len(t)
      BY <1>0
    <2>3. QED
      BY <2>1, <2>2 DEF Closes
  <1>2. Len(u) \in B
    OBVIOUS
  <1>3. Len(u) \in 1 .. Len(u)
    BY <1>2 DEF Closes
  <1>4. Len(u) \in A
    BY <1>1, <1>2, <1>3
  <1>5. A \in SUBSET Nat
    BY <1>0 DEF Closes
  <1>6. ASSUME NEW k \in A PROVE Len(u) <= k
    <2>1. CASE k \in 1 .. Len(u)
      BY <1>0, <1>1, <2>1
    <2>2. CASE k \notin 1 .. Len(u)
      <3>1. k \in 1 .. Len(t)
        BY DEF Closes
      <3>2. QED
        BY <1>0, <2>2, <3>1
    <2>3. QED
      BY <2>1, <2>2
  <1> HIDE DEF A
  <1>7. A # {} /\ Min(A) \in A /\ \A k \in A : Min(A) <= k
    BY <1>4, <1>5, MinIsLeast
  <1>8. Min(A) \in Nat /\ Min(A) <= Len(u) /\ Len(u) <= Min(A)
    BY <1>4, <1>5, <1>6, <1>7
  <1>9. QED
    BY <1>0, <1>7, <1>8 DEF A

(* Matches are elements: from an opening tag to the closing ones behind it. *)
Elements(t, ends, opens, name) ==
    \A n \in DOMAIN t : /\ ends[n] = Closes(t, opens[n], name)
                        /\ opens[n] \in SUBSET Nat /\ \A o \in opens[n] : o >= n

(* Behind u, elements go as if there were no u, if none begins in it, or if *)
(* it is one as a whole.                                                   *)
ElementBehind(t, ends, opens, name, u, v, tails) ==
    /\ (\A n \in DOMAIN u : opens[n] = {}) => Joins(Cut(t, ends), u, Cut(v, tails))
    /\ Closes(u, opens[1], name) = {Len(u)} => Cut(t, ends) = Cut(v, tails)

LEMMA ElementsApart ==
    ASSUME NEW u \in Text, NEW v \in Text, NEW t, Joins(t, u, v), NEW name,
           NEW opens, NEW outs, NEW ends, NEW tails,
           Elements(t, ends, opens, name), Elements(v, tails, outs, name),
           SameBehind(u, opens, v, outs)
    PROVE  ElementBehind(t, ends, opens, name, u, v, tails)
  <1> DEFINE L == Len(u)
  <1>0. /\ t \in Text /\ L \in Nat /\ Len(v) \in Nat /\ Len(t) = L + Len(v)
        /\ DOMAIN u = 1 .. L /\ DOMAIN v = 1 .. Len(v) /\ DOMAIN t = 1 .. Len(t)
    BY JoinedAt
  <1>1. /\ \A n \in DOMAIN t : ends[n] = Closes(t, opens[n], name)
        /\ \A n \in DOMAIN t : opens[n] \in SUBSET Nat /\ \A o \in opens[n] : o >= n
    BY DEF Elements
  <1>2. /\ \A n \in DOMAIN v : tails[n] = Closes(v, outs[n], name)
        /\ \A n \in DOMAIN v : outs[n] \in SUBSET Nat /\ \A o \in outs[n] : o >= n
    BY DEF Elements
  <1>3. ASSUME NEW n \in DOMAIN t PROVE ends[n] \in SUBSET (n .. Len(t))
    <2>1. opens[n] \in SUBSET Nat /\ \A o \in opens[n] : o >= n
      BY <1>1
    <2>2. Closes(t, opens[n], name) \in SUBSET (n .. Len(t))
      BY <1>0, <2>1, ClosesBehind
    <2>3. QED
      BY <1>1, <2>2
  <1>4. ASSUME NEW n \in DOMAIN v PROVE tails[n] \in SUBSET (n .. Len(v))
    <2>1. outs[n] \in SUBSET Nat /\ \A o \in outs[n] : o >= n
      BY <1>2
    <2>2. Closes(v, outs[n], name) \in SUBSET (n .. Len(v))
      BY <2>1, ClosesBehind
    <2>3. QED
      BY <1>2, <2>2
  <1>5. ASSUME NEW n \in DOMAIN v PROVE Shifted(ends[Len(u) + n], tails[n], Len(u))
    <2>1. L + n \in DOMAIN t
      BY <1>0
    <2>2. opens[L + n] \in SUBSET Nat /\ outs[n] \in SUBSET Nat
      BY <1>1, <1>2, <2>1
    <2>3. Shifted(opens[L + n], outs[n], L)
      BY DEF SameBehind
    <2>4. Shifted(Closes(t, opens[L + n], name), Closes(v, outs[n], name), L)
      BY <2>2, <2>3, ClosesShifted
    <2>5. QED
      BY <1>1, <1>2, <2>1, <2>4
  <1>6. CutBehind(t, ends, u, v, tails)
    <2>1. Ahead(ends, t)
      BY <1>3 DEF Ahead
    <2>2. Ahead(tails, v)
      BY <1>4 DEF Ahead
    <2>3. SameBehind(u, ends, v, tails)
      BY <1>5 DEF SameBehind
    <2>4. QED
      BY <2>1, <2>2, <2>3, MatchesApart
  <1>7. ASSUME \A n \in DOMAIN u : opens[n] = {} PROVE \A n \in DOMAIN u : ends[n] = {}
    <2>1. ASSUME NEW n \in DOMAIN u PROVE ends[n] = {}
      <3>1. n \in DOMAIN t /\ opens[n] = {}
        BY <1>0, <1>7
      <3>2. QED
        BY <1>1, <3>1 DEF Closes
    <2>2. QED
      BY <2>1
  <1>8. ASSUME Closes(u, opens[1], name) = {Len(u)}
        PROVE  u # << >> /\ ends[1] # {} /\ Min(ends[1]) = Len(u)
    <2>1. L \in Closes(u, opens[1], name)
      BY <1>8
    <2>2. L \in 1 .. L
      BY <2>1 DEF Closes
    <2>3. 1 \in DOMAIN t /\ 1 \in DOMAIN u
      BY <1>0, <2>2
    <2>4. opens[1] \in SUBSET Nat
      BY <1>1, <2>3
    <2>5. Closes(t, opens[1], name) # {} /\ Min(Closes(t, opens[1], name)) = Len(u)
      BY <1>8, <2>4, ClosesThere
    <2>6. u # << >>
      BY <2>3
    <2>7. QED
      BY <1>1, <2>3, <2>5, <2>6
  <1>9. QED
    BY <1>6, <1>7, <1>8, Zenon DEF CutBehind, ElementBehind

(* A text does not end within an opening tag.                              *)
Ends(u) == u # << >> => Last(u) # "<"

LEMMA InteractiveBehind ==
    ASSUME NEW u \in Text, NEW v \in Text, NEW t, Joins(t, u, v)
    PROVE  /\ Ends(u) /\ ~Opened(u, "interactive")
              => Joins(InteractiveGraphicsMarkupTagRemover(t), u,
                       InteractiveGraphicsMarkupTagRemover(v))
           /\ Closes(u, InteractiveOpens(u, 1), "/div") = {Len(u)}
              => InteractiveGraphicsMarkupTagRemover(t) = InteractiveGraphicsMarkupTagRemover(v)
  <1> DEFINE L == Len(u)
             opens == [i \in DOMAIN t |-> InteractiveOpens(t, i)]
             outs == [i \in DOMAIN v |-> InteractiveOpens(v, i)]
             ends == [i \in DOMAIN t |-> Closes(t, InteractiveOpens(t, i), "/div")]
             tails == [i \in DOMAIN v |-> Closes(v, InteractiveOpens(v, i), "/div")]
  <1>0. /\ t \in Text /\ L \in Nat /\ Len(v) \in Nat /\ Len(t) = L + Len(v)
        /\ DOMAIN u = 1 .. L /\ DOMAIN v = 1 .. Len(v) /\ DOMAIN t = 1 .. Len(t)
    BY JoinedAt
  <1>1. InteractiveGraphicsMarkupTagRemover(t) = Cut(t, ends)
        /\ InteractiveGraphicsMarkupTagRemover(v) = Cut(v, tails)
    BY Zenon DEF InteractiveGraphicsMarkupTagRemover
  <1>2. ASSUME NEW x \in Text, NEW i \in 1 .. Len(x)
        PROVE  InteractiveOpens(x, i) \in SUBSET Nat /\ \A o \in InteractiveOpens(x, i) : o >= i
    BY DEF InteractiveOpens
  <1>3. Elements(t, ends, opens, "/div")
    BY <1>0, <1>2 DEF Elements
  <1>4. Elements(v, tails, outs, "/div")
    BY <1>0, <1>2 DEF Elements
  <1>5. ASSUME NEW n \in DOMAIN v PROVE Shifted(opens[L + n], outs[n], L)
    <2>1. n \in Nat \ {0} /\ L + n \in DOMAIN t
      BY <1>0
    <2>2. opens[L + n] = InteractiveOpens(t, L + n) /\ outs[n] = InteractiveOpens(v, n)
      BY <2>1
    <2>3. Is(t, L + n, <<"<", "interactive", ">">>) <=> Is(v, n, <<"<", "interactive", ">">>)
      BY <2>1, IsShifted
    <2>4. QED
      BY <1>0, <2>1, <2>2, <2>3 DEF InteractiveOpens, Shifted
  <1>6. SameBehind(u, opens, v, outs)
    BY <1>5 DEF SameBehind
  <1>7. \A n \in DOMAIN t : opens[n] = InteractiveOpens(t, n)
    OBVIOUS
  <1> HIDE DEF opens, outs, ends, tails
  <1>8. ElementBehind(t, ends, opens, "/div", u, v, tails)
    BY <1>3, <1>4, <1>6, ElementsApart
  <1>9. ASSUME Ends(u), ~Opened(u, "interactive") PROVE \A n \in DOMAIN u : opens[n] = {}
    <2>1. ASSUME NEW n \in DOMAIN u PROVE opens[n] = {}
      <3>1. n \in Nat \ {0} /\ n <= Len(u) /\ n \in DOMAIN t /\ u # << >>
        BY <1>0
      <3>2. Last(u) # "<" /\ ~Is(u, n, <<"<", "interactive">>)
        BY <1>9, <3>1 DEF Ends, Opened
      <3>3. ~Is(t, n, <<"<", "interactive", ">">>)
        BY <1>9, <3>1, <3>2, IsThere
      <3>4. QED
        BY <1>7, <3>1, <3>3 DEF InteractiveOpens
    <2>2. QED
      BY <2>1
  <1>10. ASSUME Closes(u, InteractiveOpens(u, 1), "/div") = {L}
         PROVE  Closes(u, opens[1], "/div") = {Len(u)}
    <2>1. L \in Closes(u, InteractiveOpens(u, 1), "/div")
      BY <1>10
    <2>2. PICK o \in InteractiveOpens(u, 1) : L \in 1 .. L
      BY <2>1 DEF Closes
    <2>3. Is(u, 1, <<"<", "interactive", ">">>)
      BY <2>2 DEF InteractiveOpens
    <2>4. 1 + 2 <= Len(u)
      BY <2>3, IsThree
    <2>5. Is(t, 1, <<"<", "interactive", ">">>)
      <3>1. \A n \in Nat \ {0} : n + 2 <= Len(u) =>
               (Is(t, n, <<"<", "interactive", ">">>) <=> Is(u, n, <<"<", "interactive", ">">>))
        BY IsThere
      <3>2. QED
        BY <2>3, <2>4, <3>1
    <2>6. opens[1] = InteractiveOpens(t, 1)
      BY <1>0, <1>7, <2>4
    <2>7. InteractiveOpens(t, 1) = InteractiveOpens(u, 1)
      BY <2>3, <2>5 DEF InteractiveOpens
    <2>8. QED
      BY <1>10, <2>6, <2>7
  <1>11. QED
    BY <1>1, <1>8, <1>9, <1>10, Zenon DEF ElementBehind

LEMMA PullBehind ==
    ASSUME NEW u \in Text, NEW v \in Text, NEW t, Joins(t, u, v)
    PROVE  /\ Ends(u) /\ ~Opened(u, "pull-quote")
              => Joins(PullTagTransformer(t), u, PullTagTransformer(v))
           /\ Closes(u, PullQuoteOpens(u, 1), "/pull-quote") = {Len(u)}
              => PullTagTransformer(t) = PullTagTransformer(v)
  <1> DEFINE L == Len(u)
             opens == [i \in DOMAIN t |-> PullQuoteOpens(t, i)]
             outs == [i \in DOMAIN v |-> PullQuoteOpens(v, i)]
             ends == [i \in DOMAIN t |-> Closes(t, PullQuoteOpens(t, i), "/pull-quote")]
             tails == [i \in DOMAIN v |-> Closes(v, PullQuoteOpens(v, i), "/pull-quote")]
  <1>0. /\ t \in Text /\ L \in Nat /\ Len(v) \in Nat /\ Len(t) = L + Len(v)
        /\ DOMAIN u = 1 .. L /\ DOMAIN v = 1 .. Len(v) /\ DOMAIN t = 1 .. Len(t)
    BY JoinedAt
  <1>1. PullTagTransformer(t) = Cut(t, ends) /\ PullTagTransformer(v) = Cut(v, tails)
    BY Zenon DEF PullTagTransformer
  <1>2. ASSUME NEW x, NEW i
        PROVE  /\ PullQuoteOpens(x, i) \subseteq {i + 2}
               /\ i + 2 \in PullQuoteOpens(x, i) <=>
                     \/ Is(x, i, <<"<", "pull-quote", " ">>)
                     \/ Is(x, i, <<"<", "pull-quote", ">">>)
    BY Zenon DEF PullQuoteOpens
  <1>3. ASSUME NEW x \in Text, NEW i \in 1 .. Len(x)
        PROVE  PullQuoteOpens(x, i) \in SUBSET Nat /\ \A o \in PullQuoteOpens(x, i) : o >= i
    <2>1. PullQuoteOpens(x, i) \subseteq {i + 2}
      BY <1>2
    <2>2. QED
      BY <2>1
  <1>4. Elements(t, ends, opens, "/pull-quote") /\ Elements(v, tails, outs, "/pull-quote")
    BY <1>0, <1>3 DEF Elements
  <1>5. ASSUME NEW n \in DOMAIN v PROVE Shifted(opens[L + n], outs[n], L)
    <2>1. n \in Nat \ {0} /\ L + n \in DOMAIN t
      BY <1>0
    <2>2. opens[L + n] = PullQuoteOpens(t, L + n) /\ outs[n] = PullQuoteOpens(v, n)
      BY <2>1
    <2>3. /\ Is(t, L + n, <<"<", "pull-quote", " ">>) <=> Is(v, n, <<"<", "pull-quote", " ">>)
          /\ Is(t, L + n, <<"<", "pull-quote", ">">>) <=> Is(v, n, <<"<", "pull-quote", ">">>)
      BY <2>1, IsShifted
    <2>4. (L + n) + 2 \in PullQuoteOpens(t, L + n) <=> n + 2 \in PullQuoteOpens(v, n)
      BY <1>2, <2>3
    <2>5. PullQuoteOpens(t, L + n) \subseteq {(L + n) + 2} /\ PullQuoteOpens(v, n) \subseteq {n + 2}
      BY <1>2
    <2>6. QED
      BY <1>0, <2>1, <2>2, <2>4, <2>5 DEF Shifted
  <1>6. SameBehind(u, opens, v, outs)
    BY <1>5 DEF SameBehind
  <1>7. \A n \in DOMAIN t : opens[n] = PullQuoteOpens(t, n)
    OBVIOUS
  <1> HIDE DEF opens, outs, ends, tails
  <1>8. ElementBehind(t, ends, opens, "/pull-quote", u, v, tails)
    BY <1>4, <1>6, ElementsApart
  <1>9. ASSUME Ends(u), ~Opened(u, "pull-quote") PROVE \A n \in DOMAIN u : opens[n] = {}
    <2>1. ASSUME NEW n \in DOMAIN u PROVE opens[n] = {}
      <3>1. n \in Nat \ {0} /\ n <= Len(u) /\ n \in DOMAIN t /\ u # << >>
        BY <1>0
      <3>2. Last(u) # "<" /\ ~Is(u, n, <<"<", "pull-quote">>)
        BY <1>9, <3>1 DEF Ends, Opened
      <3>3. /\ ~Is(t, n, <<"<", "pull-quote", " ">>)
            /\ ~Is(t, n, <<"<", "pull-quote", ">">>)
        BY <1>9, <3>1, <3>2, IsThere
      <3>4. n + 2 \notin PullQuoteOpens(t, n) /\ PullQuoteOpens(t, n) \subseteq {n + 2}
        BY <1>2, <3>3
      <3>5. QED
        BY <1>7, <3>1, <3>4
    <2>2. QED
      BY <2>1
  <1>10. ASSUME Closes(u, PullQuoteOpens(u, 1), "/pull-quote") = {L}
         PROVE  Closes(u, opens[1], "/pull-quote") = {Len(u)}
    <2>1. L \in Closes(u, PullQuoteOpens(u, 1), "/pull-quote")
      BY <1>10
    <2>2. PICK o \in PullQuoteOpens(u, 1) : L \in 1 .. L
      BY <2>1 DEF Closes
    <2>3. PullQuoteOpens(u, 1) = {1 + 2}
      BY <1>2, <2>2
    <2>4. PICK c : /\ Is(u, 1, <<"<", "pull-quote", c>>)
                   /\ Is(t, 1, <<"<", "pull-quote", c>>) => 1 + 2 \in PullQuoteOpens(t, 1)
      BY <1>2, <2>3
    <2>5. 1 + 2 <= Len(u)
      <3>1. \A n \in Nat \ {0} : Is(u, n, <<"<", "pull-quote", c>>) => n + 2 <= Len(u)
        BY IsThree
      <3>2. QED
        BY <2>4, <3>1
    <2>6. Is(t, 1, <<"<", "pull-quote", c>>)
      <3>1. \A n \in Nat \ {0} : n + 2 <= Len(u) =>
               (Is(t, n, <<"<", "pull-quote", c>>) <=> Is(u, n, <<"<", "pull-quote", c>>))
        BY IsThere
      <3>2. QED
        BY <2>4, <2>5, <3>1
    <2>7. PullQuoteOpens(t, 1) = {1 + 2}
      BY <1>2, <2>4, <2>6
    <2>8. opens[1] = PullQuoteOpens(t, 1)
      BY <1>0, <1>7, <2>5
    <2>9. QED
      BY <1>10, <2>3, <2>7, <2>8
  <1>11. QED
    BY <1>1, <1>8, <1>9, <1>10, Zenon DEF ElementBehind

LEMMA ScriptBehind ==
    ASSUME NEW u \in Text, NEW v \in Text, NEW t, Joins(t, u, v)
    PROVE  /\ Ends(u) /\ ~Opened(u, "script")
              => Joins(ScriptTagRemover(t), u, ScriptTagRemover(v))
           /\ Closes(u, ScriptOpens(u, 1), "/script") = {Len(u)}
              => ScriptTagRemover(t) = ScriptTagRemover(v)
  <1> DEFINE L == Len(u)
             opens == [i \in DOMAIN t |-> ScriptOpens(t, i)]
             outs == [i \in DOMAIN v |-> ScriptOpens(v, i)]
             ends == [i \in DOMAIN t |-> Closes(t, ScriptOpens(t, i), "/script")]
             tails == [i \in DOMAIN v |-> Closes(v, ScriptOpens(v, i), "/script")]
             First(x, i, o) == x[o] = ">" /\ \A k \in i + 2 .. o - 1 : x[k] # ">"
  <1>0. /\ t \in Text /\ L \in Nat /\ Len(v) \in Nat /\ Len(t) = L + Len(v)
        /\ \A k \in 1 .. L : t[k] = u[k]
        /\ \A k \in 1 .. Len(v) : t[L + k] = v[k]
        /\ DOMAIN u = 1 .. L /\ DOMAIN v = 1 .. Len(v) /\ DOMAIN t = 1 .. Len(t)
    BY JoinedAt
  <1>1. ScriptTagRemover(t) = Cut(t, ends) /\ ScriptTagRemover(v) = Cut(v, tails)
    BY Zenon DEF ScriptTagRemover
  <1>2. ASSUME NEW x, NEW i, NEW o
        PROVE  o \in ScriptOpens(x, i) <=>
                  /\ Is(x, i, <<"<", "script">>)
                  /\ o \in i + 2 .. Len(x) /\ First(x, i, o)
    BY DEF ScriptOpens
  <1>3. ASSUME NEW x \in Text, NEW i \in 1 .. Len(x)
        PROVE  ScriptOpens(x, i) \in SUBSET Nat /\ \A o \in ScriptOpens(x, i) : o >= i
    <2>1. Len(x) \in Nat
      BY DEF Text
    <2>2. \A o \in ScriptOpens(x, i) : o \in i + 2 .. Len(x)
      BY <1>2
    <2>3. QED
      BY <2>1, <2>2
  <1>4. Elements(t, ends, opens, "/script") /\ Elements(v, tails, outs, "/script")
    BY <1>0, <1>3 DEF Elements
  <1>5. ASSUME NEW n \in DOMAIN v PROVE Shifted(opens[L + n], outs[n], L)
    <2>1. n \in Nat \ {0} /\ L + n \in DOMAIN t
      BY <1>0
    <2>2. opens[L + n] = ScriptOpens(t, L + n) /\ outs[n] = ScriptOpens(v, n)
      BY <2>1
    <2>3. Is(t, L + n, <<"<", "script">>) <=> Is(v, n, <<"<", "script">>)
      BY <2>1, IsShifted
    <2>4. ASSUME NEW k \in Nat PROVE k \in opens[L + n] <=> k - L \in outs[n]
      <3>1. k \in (L + n) + 2 .. Len(t) <=> k - L \in n + 2 .. Len(v)
        BY <1>0, <2>1
      <3>2. ASSUME k - L \in n + 2 .. Len(v)
            PROVE  First(t, L + n, k) <=> First(v, n, k - L)
        <4>1. k - L \in 1 .. Len(v) /\ L + (k - L) = k
          BY <1>0, <2>1, <3>2
        <4>2. t[k] = v[k - L]
          BY <1>0, <4>1
        <4>3. ASSUME NEW j \in (L + n) + 2 .. k - 1
              PROVE  j - L \in n + 2 .. (k - L) - 1 /\ t[j] = v[j - L]
          <5>1. j - L \in n + 2 .. (k - L) - 1 /\ j - L \in 1 .. Len(v) /\ L + (j - L) = j
            BY <1>0, <2>1, <3>2
          <5>2. QED
            BY <1>0, <5>1
        <4>4. ASSUME NEW j \in n + 2 .. (k - L) - 1
              PROVE  L + j \in (L + n) + 2 .. k - 1 /\ t[L + j] = v[j]
          <5>1. L + j \in (L + n) + 2 .. k - 1 /\ j \in 1 .. Len(v)
            BY <1>0, <2>1, <3>2
          <5>2. QED
            BY <1>0, <5>1
        <4>5. QED
          BY <4>2, <4>3, <4>4
      <3> HIDE DEF First
      <3>3. QED
        BY <1>2, <2>2, <2>3, <3>1, <3>2
    <2>5. QED
      BY <2>4 DEF Shifted
  <1>6. SameBehind(u, opens, v, outs)
    BY <1>5 DEF SameBehind
  <1>7. \A n \in DOMAIN t : opens[n] = ScriptOpens(t, n)
    OBVIOUS
  <1> HIDE DEF opens, outs, ends, tails
  <1>8. ElementBehind(t, ends, opens, "/script", u, v, tails)
    BY <1>4, <1>6, ElementsApart
  <1>9. ASSUME Ends(u), ~Opened(u, "script") PROVE \A n \in DOMAIN u : opens[n] = {}
    <2>1. ASSUME NEW n \in DOMAIN u PROVE opens[n] = {}
      <3>1. n \in Nat \ {0} /\ n <= Len(u) /\ n \in DOMAIN t /\ u # << >>
        BY <1>0
      <3>2. Last(u) # "<" /\ ~Is(u, n, <<"<", "script">>)
        BY <1>9, <3>1 DEF Ends, Opened
      <3>3. ~Is(t, n, <<"<", "script">>)
        BY <1>9, <3>1, <3>2, IsThere
      <3>4. QED
        BY <1>2, <1>7, <3>1, <3>3
    <2>2. QED
      BY <2>1
  <1>10. ASSUME Closes(u, ScriptOpens(u, 1), "/script") = {L}
         PROVE  Closes(u, opens[1], "/script") = {Len(u)}
    <2>1. L \in Closes(u, ScriptOpens(u, 1), "/script")
      BY <1>10
    <2>2. PICK o \in ScriptOpens(u, 1) : L \in 1 .. L
      BY <2>1 DEF Closes
    <2>3. Is(u, 1, <<"<", "script">>) /\ o \in 1 + 2 .. L /\ First(u, 1, o)
      BY <1>2, <2>2
    <2>4. Is(t, 1, <<"<", "script">>)
      <3>1. \A n \in Nat \ {0} : n + 1 <= Len(u) =>
               (Is(t, n, <<"<", "script">>) <=> Is(u, n, <<"<", "script">>))
        BY IsThere
      <3>2. 1 + 1 <= Len(u)
        BY <1>0, <2>3
      <3>3. QED
        BY <2>3, <3>1, <3>2
    <2>5. ASSUME NEW p PROVE p \in ScriptOpens(t, 1) <=> p \in ScriptOpens(u, 1)
      <3>1. CASE p \in 1 + 2 .. L
        <4>1. p \in 1 + 2 .. Len(t) /\ t[p] = u[p]
              /\ \A k \in 1 + 2 .. p - 1 : t[k] = u[k]
          BY <1>0, <3>1
        <4>2. First(t, 1, p) <=> First(u, 1, p)
          BY <4>1
        <4> HIDE DEF First
        <4>3. QED
          BY <1>2, <2>3, <2>4, <3>1, <4>1, <4>2
      <3>2. CASE p \notin 1 + 2 .. L
        <4>1. p \notin ScriptOpens(u, 1)
          BY <1>2, <3>2
        <4>2. ASSUME p \in ScriptOpens(t, 1) PROVE FALSE
          <5>1. p \in 1 + 2 .. Len(t) /\ First(t, 1, p)
            BY <1>2, <4>2
          <5>2. o \in 1 + 2 .. p - 1 /\ t[o] = ">"
            BY <1>0, <2>3, <3>2, <5>1
          <5>3. QED
            BY <5>1, <5>2
        <4>3. QED
          BY <4>1, <4>2
      <3>3. QED
        BY <3>1, <3>2
    <2>6. ScriptOpens(t, 1) = ScriptOpens(u, 1)
      BY <2>5
    <2>7. opens[1] = ScriptOpens(t, 1)
      BY <1>0, <1>7, <2>3
    <2>8. QED
      BY <1>10, <2>6, <2>7
  <1>11. QED
    BY <1>1, <1>8, <1>9, <1>10, Zenon DEF ElementBehind

-----------------------------------------------------------------------------
(* The words that a block adds to a field, whatever text is behind it.      *)

LEMMA ClosedLeft ==
    ASSUME NEW t \in Text, NEW open, NEW close, Closed(t, open, close), NEW n \in DOMAIN t
    PROVE  n \in LeftOf(t, open, close) <=> n \in Outside(t, open, close)
  <1>1. n \in 1 .. Len(t) /\ Len(t) \in Nat /\ DOMAIN t = 1 .. Len(t)
    BY DEF Text
  <1>2. ASSUME NEW i \in 1 .. n, t[i] = open PROVE ~\A k \in i .. Len(t) : t[k] # close
    <2>1. i \in DOMAIN t
      BY <1>1
    <2>2. QED
      BY <1>2, <2>1 DEF Closed
  <1>3. QED
    BY <1>2 DEF LeftOf, Outside

(* What is left of a text with its captions whole has them whole.          *)
LEMMA KeptClosed ==
    ASSUME NEW t \in Text, NEW S \in SUBSET (DOMAIN t), NEW open, NEW close,
           Closed(t, open, close), \A n \in DOMAIN t : t[n] = close => n \in S
    PROVE  Closed(Keep(t, S), open, close)
  <1> DEFINE u == Keep(t, S)
             M == Len(u)
  <1>1. t \in Seq(Lexeme) /\ Len(t) \in Nat /\ DOMAIN t = 1 .. Len(t)
    BY DEF Text
  <1>2. PICK f : Walks(f, t, S)
    BY <1>1, KeptWalk
  <1>3. u \in Seq(Lexeme)
    BY <1>1, Kept
  <1>4. Through(f, M, S) /\ \A j \in 1 .. M : u[j] = t[f[j]]
    BY <1>2 DEF Walks
  <1> HIDE DEF u
  <1>5. M \in Nat /\ DOMAIN u = 1 .. M
    BY <1>3
  <1>6. /\ \A j \in 1 .. M : f[j] \in S /\ f[j] \in 1 .. Len(t)
        /\ \A j, k \in 1 .. M : j < k => f[j] < f[k]
        /\ \A n \in S : \E j \in 1 .. M : f[j] = n
    BY <1>1, <1>4 DEF Through
  <1>7. ASSUME NEW i \in 1 .. M, u[i] = open PROVE \E k \in i .. M : u[k] = close
    <2>1. f[i] \in DOMAIN t /\ t[f[i]] = open
      BY <1>1, <1>4, <1>6, <1>7
    <2>2. PICK k \in f[i] .. Len(t) : t[k] = close
      BY <2>1 DEF Closed
    <2>3. k \in DOMAIN t /\ k \in S
      BY <1>1, <2>1, <2>2
    <2>4. PICK l \in 1 .. M : f[l] = k
      BY <1>6, <2>3
    <2>5. ~(l < i)
      BY <1>1, <1>6, <2>1, <2>2, <2>4
    <2>6. u[l] = close /\ l \in i .. M
      BY <1>4, <1>5, <2>2, <2>4, <2>5
    <2>7. QED
      BY <2>6
  <1>8. QED
    BY <1>5, <1>7 DEF Closed, u

LEMMA TagsBehind ==
    ASSUME NEW u \in Text, NEW v \in Text, NEW t, Joins(t, u, v), Closed(u, "<", ">")
    PROVE  Joins(TagsRemover(t), Keep(u, Outside(u, "<", ">")), TagsRemover(v))
  <1>1. /\ TagsRemover(t) = Cut(t, SpansOf(t, "<", ">"))
        /\ TagsRemover(v) = Cut(v, SpansOf(v, "<", ">"))
    BY Zenon DEF TagsRemover, SpansOf
  <1>2. QED
    BY <1>1, SpansApart

LEMMA CaptionsBehind ==
    ASSUME NEW u \in Text, NEW v \in Text, NEW t, Joins(t, u, v), Closed(u, "[caption", "]")
    PROVE  Joins(SquaredCaptionReplacer(t), SquaredCaptionReplacer(u), SquaredCaptionReplacer(v))
  <1>1. /\ SquaredCaptionReplacer(t) = Cut(t, SpansOf(t, "[caption", "]"))
        /\ SquaredCaptionReplacer(v) = Cut(v, SpansOf(v, "[caption", "]"))
    BY Zenon DEF SquaredCaptionReplacer, SpansOf
  <1>2. Joins(SquaredCaptionReplacer(t), Keep(u, Outside(u, "[caption", "]")),
              SquaredCaptionReplacer(v))
    BY <1>1, SpansApart
  <1>3. Keep(u, LeftOf(u, "[caption", "]")) = Keep(u, Outside(u, "[caption", "]"))
    <2>1. u \in Seq(Lexeme)
      BY DEF Text
    <2>2. \A n \in DOMAIN u : n \in LeftOf(u, "[caption", "]") <=> n \in Outside(u, "[caption", "]")
      BY ClosedLeft
    <2>3. QED
      BY <2>1, <2>2, SameKept
  <1>4. QED
    BY <1>2, <1>3, CaptionsLeave

(* An escaped or a plain "less than" is not the last of a block.            *)
LEMMA BlockEnds ==
    ASSUME NEW u \in Text, Closed(EntityTransformer(u), "<", ">")
    PROVE  Ends(u) /\ Ends(EntityTransformer(u))
  <1> DEFINE t == EntityTransformer(u)
  <1>1. Len(u) \in Nat /\ DOMAIN u = 1 .. Len(u)
    BY DEF Text
  <1>2. /\ DOMAIN t = 1 .. Len(u) /\ Len(t) = Len(u)
        /\ \A n \in 1 .. Len(u) : t[n] = Unescaped(u[n])
    <2>1. t \in Text
      BY EntitiesGone
    <2>2. QED
      BY <1>1, <2>1 DEF EntityTransformer, Text
  <1> HIDE DEF t
  <1>3. ASSUME Len(u) # 0 PROVE t[Len(u)] # "<"
    <2>1. SUFFICES ASSUME t[Len(u)] = "<" PROVE FALSE
      OBVIOUS
    <2>2. Len(u) \in DOMAIN t
      BY <1>1, <1>2, <1>3
    <2>3. PICK k \in Len(u) .. Len(t) : t[k] = ">"
      BY <2>1, <2>2 DEF Closed, t
    <2>4. k = Len(u)
      BY <1>1, <1>2, <2>3
    <2>5. QED
      BY <2>1, <2>3, <2>4
  <1>4. Ends(t)
    <2>1. t # << >> => Len(u) # 0
      <3>1. t \in Text
        BY EntitiesGone DEF t
      <3>2. QED
        BY <1>2, <3>1 DEF Text
    <2>2. QED
      BY <1>2, <1>3, <2>1 DEF Ends, Last
  <1>5. Ends(u)
    <2>1. SUFFICES ASSUME u # << >>, u[Len(u)] = "<" PROVE FALSE
      BY DEF Ends, Last
    <2>2. Len(u) \in 1 .. Len(u)
      BY <2>1 DEF Text
    <2>3. t[Len(u)] = Unescaped("<")
      BY <1>2, <2>1, <2>2
    <2>4. Unescaped("<") = "<"
      BY DEF Unescaped
    <2>5. QED
      BY <1>3, <2>2, <2>3, <2>4
  <1>6. QED
    BY <1>4, <1>5 DEF t

LEMMA BlockTypes ==
    ASSUME NEW b \in Blocks
    PROVE  b.lexemes \in Text /\ \A f \in Fields : b.shown[f] \in Seq(Words)
  BY BlocksAssumption DEF Text

(* The words of a field that is made from a text.                          *)
FieldWords(f, t) == WordsOf(TransformText(f, t))

(* In front of whatever text, u adds the words w to a field, and leaves     *)
(* those of the text as they are.                                          *)
Adds(f, u, w) ==
    \A v \in Text : Joins(FieldWords(f, u \o v), w, FieldWords(f, v))

(* A headline shows what is outside the tags of the block.                 *)
LEMMA HeadlineAdds ==
    ASSUME NEW b \in Blocks, InHeadline(b)
    PROVE  Adds("headline", b.lexemes, b.shown["headline"])
  <1> DEFINE u == b.lexemes
             x == EntityTransformer(u)
             S == Outside(x, "<", ">")
             k == Keep(x, S)
  <1>1. u \in Text
    BY BlockTypes
  <1>2. Closed(x, "<", ">") /\ b.shown["headline"] = WordsAt(x, S)
    BY Zenon DEF InHeadline
  <1> HIDE DEF u
  <1>3. x \in Text /\ x \in Seq(Lexeme)
    BY <1>1, EntitiesGone DEF Text
  <1> HIDE DEF x
  <1>4. S \in SUBSET (DOMAIN x)
    BY DEF Outside
  <1>5. k \in Text
    <2> HIDE DEF S
    <2>1. QED
      BY <1>3, <1>4, Kept DEF Text
  <1>6. WordsOf(k) = b.shown["headline"]
    <2> HIDE DEF S
    <2>1. QED
      BY <1>2, <1>3, <1>4, WordsKept
  <1>7. ASSUME NEW v \in Text, NEW t, Joins(t, u, v)
        PROVE  Joins(FieldWords("headline", t), b.shown["headline"], FieldWords("headline", v))
    <2> DEFINE y == EntityTransformer(v)
               z == EntityTransformer(t)
    <2>1. t \in Text
      BY <1>1, <1>7, JoinedAt
    <2>2. Joins(z, x, y) /\ y \in Text
      BY <1>1, <1>7, EntitiesApart, EntitiesGone DEF x
    <2> HIDE DEF y, z
    <2>3. Joins(TagsRemover(z), k, TagsRemover(y)) /\ TagsRemover(y) \in Text
      BY <1>2, <1>3, <2>2, TagsBehind, TagsGone
    <2> HIDE DEF k
    <2>4. Joins(WordsOf(TagsRemover(z)), WordsOf(k), WordsOf(TagsRemover(y)))
      BY <1>5, <2>3, WordsJoin
    <2>5. /\ FieldWords("headline", t) = WordsOf(TagsRemover(z))
          /\ FieldWords("headline", v) = WordsOf(TagsRemover(y))
      BY <2>1, HeadlineWords DEF FieldWords, y, z
    <2>6. QED
      BY <1>6, <2>4, <2>5
  <1>8. QED
    BY <1>7, Zenon DEF Adds, Joins, u

(* Of running text a body shows what is outside tags and captions.         *)
LEMMA ProseAdds ==
    ASSUME NEW b \in Blocks, Prose(b), InHeadline(b)
    PROVE  Adds("body", b.lexemes, b.shown["body"])
  <1> DEFINE u == b.lexemes
             x == EntityTransformer(u)
             S == Outside(x, "<", ">")
             C == Outside(x, "[caption", "]")
             k == Keep(x, S)
  <1>1. u \in Text
    BY BlockTypes
  <1>2. /\ Closed(x, "<", ">") /\ Closed(x, "[caption", "]")
        /\ ~Opened(u, "interactive") /\ ~Opened(u, "pull-quote") /\ ~Opened(x, "script")
        /\ \A n \in DOMAIN x : x[n] \in {"[caption", "]"} => n \in S
        /\ b.shown["body"] = WordsAt(x, S \cap C)
    BY Zenon DEF InHeadline, Prose
  <1> HIDE DEF u
  <1>3. x \in Text /\ x \in Seq(Lexeme)
    BY <1>1, EntitiesGone DEF Text
  <1>4. Ends(u) /\ Ends(x)
    BY <1>1, <1>2, BlockEnds
  <1> HIDE DEF x
  <1>5. S \in SUBSET (DOMAIN x)
    BY DEF Outside
  <1> HIDE DEF S
  <1>6. k \in Text
    BY <1>3, <1>5, Kept DEF Text
  <1>7. Closed(k, "[caption", "]")
    BY <1>2, <1>3, <1>5, KeptClosed
  <1>8. WordsOf(SquaredCaptionReplacer(k)) = b.shown["body"]
    <2> DEFINE L == LeftOf(x, "[caption", "]")
               X == {n \in DOMAIN x : n \in S \cap L /\ x[n] \in Words}
               Y == {n \in DOMAIN x : n \in S \cap C /\ x[n] \in Words}
    <2>1. WordsOf(SquaredCaptionReplacer(k)) = WordsAt(x, S \cap L)
      BY <1>2, <1>3, <1>5, CaptionWords
    <2>2. WordsAt(x, S \cap L) = Keep(x, X) /\ WordsAt(x, S \cap C) = Keep(x, Y)
      BY Zenon DEF WordsAt
    <2>3. \A n \in DOMAIN x : n \in L <=> n \in C
      BY <1>2, <1>3, ClosedLeft
    <2> HIDE DEF L, C
    <2>4. \A n \in DOMAIN x : n \in X <=> n \in Y
      BY <2>3
    <2> HIDE DEF X, Y
    <2>5. Keep(x, X) = Keep(x, Y)
      BY <1>3, <2>4, SameKept
    <2>6. QED
      BY <1>2, <2>1, <2>2, <2>5
  <1> HIDE DEF k
  <1>9. ASSUME NEW v \in Text, NEW t, Joins(t, u, v)
        PROVE  Joins(FieldWords("body", t), b.shown["body"], FieldWords("body", v))
    <2> DEFINE t1 == InteractiveGraphicsMarkupTagRemover(t)
               v1 == InteractiveGraphicsMarkupTagRemover(v)
               t2 == PullTagTransformer(t1)
               v2 == PullTagTransformer(v1)
               t3 == EntityTransformer(t2)
               v3 == EntityTransformer(v2)
               t4 == ScriptTagRemover(t3)
               v4 == ScriptTagRemover(v3)
               t5 == TagsRemover(t4)
               v5 == TagsRemover(v4)
    <2>0. t \in Text
      BY <1>1, <1>9, JoinedAt
    <2>1. Joins(t1, u, v1) /\ v1 \in Text
      BY <1>1, <1>2, <1>4, <1>9, InteractiveBehind, InteractiveIsPart
    <2>a. /\ FieldWords("body", t) = WordsOf(SquaredCaptionReplacer(t5))
          /\ FieldWords("body", v) = WordsOf(SquaredCaptionReplacer(v5))
      BY <2>0, BodyWords DEF FieldWords, Bare
    <2> HIDE DEF t1, v1
    <2>2. Joins(t2, u, v2) /\ v2 \in Text
      BY <1>1, <1>2, <1>4, <2>1, PullBehind, PullIsPart
    <2> HIDE DEF t2, v2
    <2>3. Joins(t3, x, v3) /\ v3 \in Text
      BY <1>1, <2>2, EntitiesApart, EntitiesGone DEF x
    <2> HIDE DEF t3, v3
    <2>4. Joins(t4, x, v4) /\ v4 \in Text
      BY <1>3, <1>2, <1>4, <2>3, ScriptBehind, ScriptIsPart
    <2> HIDE DEF t4, v4
    <2>5. Joins(t5, k, v5) /\ v5 \in Text
      BY <1>2, <1>3, <2>4, TagsBehind, TagsGone DEF k, S
    <2> HIDE DEF t5, v5
    <2>6. Joins(SquaredCaptionReplacer(t5), SquaredCaptionReplacer(k), SquaredCaptionReplacer(v5))
          /\ SquaredCaptionReplacer(k) \in Text /\ SquaredCaptionReplacer(v5) \in Text
      BY <1>6, <1>7, <2>5, CaptionsBehind, CaptionsGone
    <2>7. Joins(WordsOf(SquaredCaptionReplacer(t5)), WordsOf(SquaredCaptionReplacer(k)),
                WordsOf(SquaredCaptionReplacer(v5)))
      BY <2>6, WordsJoin
    <2>8. QED
      BY <1>8, <2>a, <2>7
  <1>10. QED
    BY <1>9, Zenon DEF Adds, Joins, u

(* Of a graphic, a pull quote or a script a body shows nothing.             *)
LEMMA EnclosedAdds ==
    ASSUME NEW b \in Blocks, Enclosed(b), InHeadline(b)
    PROVE  Adds("body", b.lexemes, b.shown["body"])
  <1> DEFINE u == b.lexemes
             x == EntityTransformer(u)
  <1>1. u \in Text
    BY BlockTypes
  <1>2. /\ Closed(x, "<", ">")
        /\ \/ Closes(u, InteractiveOpens(u, 1), "/div") = {Len(u)}
           \/ /\ ~Opened(u, "interactive")
              /\ Closes(u, PullQuoteOpens(u, 1), "/pull-quote") = {Len(u)}
           \/ /\ ~Opened(u, "interactive") /\ ~Opened(u, "pull-quote")
              /\ Closes(x, ScriptOpens(x, 1), "/script") = {Len(u)}
        /\ b.shown["body"] = << >>
    BY Zenon DEF InHeadline, Enclosed
  <1> HIDE DEF u
  <1>3. x \in Text /\ Ends(u) /\ Ends(x) /\ Len(x) = Len(u)
    <2>1. Ends(u) /\ Ends(x)
      BY <1>1, <1>2, BlockEnds
    <2>2. x \in Text
      BY <1>1, EntitiesGone
    <2>3. Len(x) = Len(u)
      BY <1>1, <2>2 DEF EntityTransformer, Text
    <2>4. QED
      BY <2>1, <2>2, <2>3
  <1> HIDE DEF x
  <1>4. ASSUME NEW v \in Text, NEW t, Joins(t, u, v)
        PROVE  Joins(FieldWords("body", t), b.shown["body"], FieldWords("body", v))
    <2> DEFINE t1 == InteractiveGraphicsMarkupTagRemover(t)
               v1 == InteractiveGraphicsMarkupTagRemover(v)
               t2 == PullTagTransformer(t1)
               v2 == PullTagTransformer(v1)
               t3 == EntityTransformer(t2)
               v3 == EntityTransformer(v2)
    <2>0. t \in Text
      BY <1>1, <1>4, JoinedAt
    <2>1. Bare(t) = Bare(v)
      <3>1. CASE Closes(u, InteractiveOpens(u, 1), "/div") = {Len(u)}
        <4>1. t1 = v1
          BY <1>1, <1>4, <3>1, InteractiveBehind
        <4>2. QED
          BY <4>1, Zenon DEF Bare
      <3>2. CASE ~Opened(u, "interactive")
        <4>1. Joins(t1, u, v1) /\ v1 \in Text
          BY <1>1, <1>3, <1>4, <3>2, InteractiveBehind, InteractiveIsPart
        <4> HIDE DEF t1, v1
        <4>2. CASE Closes(u, PullQuoteOpens(u, 1), "/pull-quote") = {Len(u)}
          <5>1. t2 = v2
            BY <1>1, <4>1, <4>2, PullBehind
          <5>2. QED
            BY <5>1, Zenon DEF Bare, t1, v1
        <4>3. CASE /\ ~Opened(u, "pull-quote")
                   /\ Closes(x, ScriptOpens(x, 1), "/script") = {Len(u)}
          <5>1. Joins(t2, u, v2) /\ v2 \in Text
            BY <1>1, <1>3, <4>1, <4>3, PullBehind, PullIsPart
          <5> HIDE DEF t2, v2
          <5>2. Joins(t3, x, v3) /\ v3 \in Text
            BY <1>1, <5>1, EntitiesApart, EntitiesGone DEF x
          <5> HIDE DEF t3, v3
          <5>3. Closes(x, ScriptOpens(x, 1), "/script") = {Len(x)}
            BY <1>3, <4>3
          <5>4. ScriptTagRemover(t3) = ScriptTagRemover(v3)
            BY <1>3, <5>2, <5>3, ScriptBehind
          <5>5. QED
            BY <5>4, Zenon DEF Bare, t1, v1, t2, v2, t3, v3
        <4>4. CASE Closes(u, InteractiveOpens(u, 1), "/div") = {Len(u)}
          BY <3>1, <4>4
        <4>5. QED
          BY <1>2, <4>2, <4>3, <4>4
      <3>3. QED
        BY <1>2, <3>1, <3>2
    <2>2. /\ FieldWords("body", t) = WordsOf(SquaredCaptionReplacer(Bare(t)))
          /\ FieldWords("body", v) = WordsOf(SquaredCaptionReplacer(Bare(v)))
      BY <2>0, BodyWords DEF FieldWords
    <2> DEFINE y == SquaredCaptionReplacer(Bare(v))
               Z == {n \in DOMAIN y : n \in DOMAIN y /\ y[n] \in Words}
    <2>3. y \in Text
      BY BareIsText, CaptionsGone
    <2>4. FieldWords("body", t) = WordsOf(y) /\ FieldWords("body", v) = WordsOf(y)
      BY <2>1, <2>2
    <2> HIDE DEF y
    <2>5. WordsOf(y) = Keep(y, Z)
      BY Zenon DEF WordsOf, WordsAt
    <2>6. WordsOf(y) \in Seq(Lexeme)
      <3>1. Z \in SUBSET (DOMAIN y) /\ y \in Seq(Lexeme)
        BY <2>3 DEF Text
      <3> HIDE DEF Z
      <3>2. QED
        BY <2>5, <3>1, Kept
    <2>7. WordsOf(y) = << >> \o WordsOf(y)
      BY <2>6
    <2>8. Joins(WordsOf(y), << >>, WordsOf(y))
      BY <2>7 DEF Joins
    <2>9. QED
      BY <1>2, <2>4, <2>8
  <1>5. QED
    BY <1>4, Zenon DEF Adds, Joins, u

-----------------------------------------------------------------------------
(* Lists of blocks. *)

LEMMA AddedBlock ==
    ASSUME NEW bs \in Seq(Blocks), NEW b \in Blocks, NEW f \in Fields
    PROVE  /\ Joins(Lexemes(Append(bs, b)), Lexemes(bs), b.lexemes)
           /\ Joins(WordsShown(f, Append(bs, b)), WordsShown(f, bs), b.shown[f])
  <1> DEFINE more == Append(bs, b)
             p == [k \in DOMAIN bs |-> bs[k].lexemes]
             q == [k \in DOMAIN bs |-> bs[k].shown[f]]
             N == Len(bs)
  <1>1. /\ N \in Nat /\ DOMAIN bs = 1 .. N /\ DOMAIN more = 1 .. N + 1
        /\ \A n \in 1 .. N : more[n] = bs[n]
        /\ more[N + 1] = b
    OBVIOUS
  <1>2. b.lexemes \in Seq(Lexeme) /\ b.shown[f] \in Seq(Words)
    BY BlockTypes DEF Text
  <1>3. ASSUME NEW n \in 1 .. N
        PROVE  bs[n].lexemes \in Seq(Lexeme) /\ bs[n].shown[f] \in Seq(Words)
    <2>1. bs[n] \in Blocks
      BY <1>1
    <2>2. QED
      BY <2>1, BlockTypes DEF Text
  <1>4. p \in Seq(Seq(Lexeme)) /\ q \in Seq(Seq(Words))
    BY <1>1, <1>3
  <1>5. [k \in DOMAIN more |-> more[k].lexemes] = Append(p, b.lexemes)
    BY <1>1, <1>2, <1>4
  <1>6. [k \in DOMAIN more |-> more[k].shown[f]] = Append(q, b.shown[f])
    BY <1>1, <1>2, <1>4
  <1> HIDE DEF p, q, more
  <1>7. /\ Joins(FlattenSeq(Append(p, b.lexemes)), FlattenSeq(p), b.lexemes)
        /\ Joins(FlattenSeq(Append(q, b.shown[f])), FlattenSeq(q), b.shown[f])
    BY <1>2, <1>4, FlattenAppend
  <1>8. /\ Lexemes(more) = FlattenSeq(Append(p, b.lexemes)) /\ Lexemes(bs) = FlattenSeq(p)
        /\ WordsShown(f, more) = FlattenSeq(Append(q, b.shown[f]))
        /\ WordsShown(f, bs) = FlattenSeq(q)
    BY <1>5, <1>6, Zenon DEF Lexemes, WordsShown, p, q
  <1>9. QED
    BY <1>7, <1>8 DEF more

LEMMA NoBlocks ==
    Lexemes(<< >>) = << >> /\ \A f : WordsShown(f, << >>) = << >>
  <1> DEFINE e == << >>
  <1>1. /\ [k \in DOMAIN e |-> e[k].lexemes] = << >>
        /\ \A f : [k \in DOMAIN e |-> e[k].shown[f]] = << >>
    OBVIOUS
  <1>2. QED
    BY <1>1, FlattenNone DEF Lexemes, WordsShown

LEMMA ShownTypes ==
    ASSUME NEW bs \in Seq(Blocks), NEW f \in Fields
    PROVE  WordsShown(f, bs) \in Seq(Words)
  <1> DEFINE q == [k \in DOMAIN bs |-> bs[k].shown[f]]
  <1>1. q \in Seq(Seq(Words))
    <2>1. \A k \in DOMAIN bs : bs[k].shown[f] \in Seq(Words)
      BY BlockTypes
    <2>2. QED
      BY <2>1
  <1> HIDE DEF q
  <1>2. FlattenSeq(q) \in Seq(Words)
    BY <1>1, FlattenTypes
  <1>3. QED
    BY <1>2 DEF WordsShown, q

(* The first n blocks of a list.                                           *)
FirstBlocks(bs, n) == SubSeq(bs, 1, n)

LEMMA FirstBlocksGrow ==
    ASSUME NEW bs \in Seq(Blocks)
    PROVE  /\ FirstBlocks(bs, 0) = << >>
           /\ FirstBlocks(bs, Len(bs)) = bs
           /\ \A n \in 0 .. Len(bs) : FirstBlocks(bs, n) \in Seq(Blocks)
           /\ \A n \in 1 .. Len(bs) : FirstBlocks(bs, n) = Append(FirstBlocks(bs, n - 1), bs[n])
  <1>1. FirstBlocks(bs, 0) = << >>
    BY DEF FirstBlocks
  <1>2. FirstBlocks(bs, Len(bs)) = bs
    BY DEF FirstBlocks
  <1>3. ASSUME NEW n \in 0 .. Len(bs)
        PROVE  /\ FirstBlocks(bs, n) \in Seq(Blocks) /\ Len(FirstBlocks(bs, n)) = n
               /\ \A k \in 1 .. n : FirstBlocks(bs, n)[k] = bs[k]
    BY DEF FirstBlocks
  <1>4. ASSUME NEW n \in 1 .. Len(bs)
        PROVE  FirstBlocks(bs, n) = Append(FirstBlocks(bs, n - 1), bs[n])
    <2> DEFINE x == FirstBlocks(bs, n)
               y == FirstBlocks(bs, n - 1)
    <2>1. n \in 0 .. Len(bs) /\ n - 1 \in 0 .. Len(bs) /\ bs[n] \in Blocks
      OBVIOUS
    <2>2. /\ x \in Seq(Blocks) /\ Len(x) = n /\ \A k \in 1 .. n : x[k] = bs[k]
          /\ y \in Seq(Blocks) /\ Len(y) = n - 1 /\ \A k \in 1 .. n - 1 : y[k] = bs[k]
      BY <1>3, <2>1
    <2> HIDE DEF x, y
    <2>3. x = Append(y, bs[n])
      BY <2>1, <2>2
    <2>4. QED
      BY <2>3 DEF x, y
  <1>5. QED
    BY <1>1, <1>2, <1>3, <1>4

-----------------------------------------------------------------------------
(* What blocks in a row add to a field. *)

LEMMA JoinedInto ==
    ASSUME NEW E, NEW x \in Seq(E), NEW y \in Seq(E), NEW z \in Seq(E),
           NEW s, NEW t, Joins(s, y, z), Joins(t, x, s)
    PROVE  Joins(t, x \o y, z)
  <1>1. (x \o y) \o z = x \o (y \o z)
    OBVIOUS
  <1>2. QED
    BY <1>1, Zenon DEF Joins

LEMMA FieldOfText ==
    ASSUME NEW f \in Fields, NEW t \in Text
    PROVE  /\ TransformText(f, t) \in Text /\ Clean(f, TransformText(f, t), t)
           /\ FieldWords(f, t) \in Seq(Lexeme)
  <1> DEFINE u == TransformText(f, t)
             S == {n \in DOMAIN u : n \in DOMAIN u /\ u[n] \in Words}
  <1>1. Clean(f, u, t)
    BY HeadlineClean, BodyClean DEF Fields
  <1>2. u \in Text
    BY <1>1 DEF Clean
  <1> HIDE DEF u
  <1>3. WordsOf(u) = Keep(u, S)
    BY Zenon DEF WordsOf, WordsAt
  <1>4. S \in SUBSET (DOMAIN u) /\ u \in Seq(Lexeme)
    BY <1>2 DEF Text
  <1> HIDE DEF S
  <1>5. WordsOf(u) \in Seq(Lexeme)
    BY <1>3, <1>4, Kept
  <1>6. QED
    BY <1>1, <1>2, <1>5 DEF FieldWords, u

(* Nothing comes of no text.                                               *)
LEMMA NoFieldWords ==
    ASSUME NEW f \in Fields
    PROVE  FieldWords(f, << >>) = << >>
  <1> DEFINE u == TransformText(f, << >>)
  <1>1. << >> \in Text
    BY DEF Text
  <1>2. u \in Text /\ Clean(f, u, << >>) /\ WordsOf(u) \in Seq(Lexeme)
    BY <1>1, FieldOfText DEF FieldWords
  <1> HIDE DEF u
  <1>3. ToSet(WordsOf(u)) = ToSet(u) \cap Words
    BY <1>2, WordsAreKept
  <1>4. ToSet(u) \subseteq Made
    <2>1. ToSet(u) \subseteq ToSet(<< >>) \cup Made
      BY <1>2 DEF Clean
    <2>2. ToSet(<< >>) = {}
      BY DEF ToSet
    <2>3. QED
      BY <2>1, <2>2
  <1>5. Made \cap Words = {}
    BY DEF Made, Entities, Words
  <1>6. ToSet(WordsOf(u)) = {}
    BY <1>3, <1>4, <1>5
  <1>7. WordsOf(u) = << >>
    <2> DEFINE w == WordsOf(u)
    <2>1. w \in Seq(Lexeme) /\ ToSet(w) = {}
      BY <1>2, <1>6
    <2> HIDE DEF w
    <2>2. SUFFICES ASSUME w # << >> PROVE FALSE
      BY DEF w
    <2>3. 1 \in DOMAIN w
      BY <2>1, <2>2
    <2>4. w[1] \in ToSet(w)
      BY <2>3 DEF ToSet
    <2>5. QED
      BY <2>1, <2>4
  <1>8. QED
    BY <1>7 DEF FieldWords, u

LEMMA NothingAdds ==
    ASSUME NEW f \in Fields
    PROVE  Adds(f, << >>, << >>)
  <1>1. ASSUME NEW v \in Text
        PROVE  Joins(FieldWords(f, << >> \o v), << >>, FieldWords(f, v))
    <2>1. << >> \o v = v
      BY DEF Text
    <2>2. FieldWords(f, v) \in Seq(Lexeme)
      BY FieldOfText
    <2>3. << >> \o FieldWords(f, v) = FieldWords(f, v)
      BY <2>2
    <2>4. QED
      BY <2>1, <2>3, Zenon DEF Joins
  <1>2. QED
    BY <1>1, Zenon DEF Adds

LEMMA AddsBoth ==
    ASSUME NEW f \in Fields, NEW u \in Text, NEW v \in Text, NEW t, Joins(t, u, v),
           NEW x \in Seq(Words), NEW y \in Seq(Words), NEW w, Joins(w, x, y),
           Adds(f, u, x), Adds(f, v, y)
    PROVE  Adds(f, t, w)
  <1>0. x \in Seq(Lexeme) /\ y \in Seq(Lexeme)
    <2>1. Words \subseteq Lexeme
      BY Zenon DEF Lexeme
    <2>2. QED
      BY <2>1
  <1>1. ASSUME NEW r \in Text
        PROVE  Joins(FieldWords(f, t \o r), w, FieldWords(f, r))
    <2> DEFINE s == v \o r
               z == FieldWords(f, r)
               a == FieldWords(f, s)
    <2>1. s \in Text
      BY DEF Text
    <2>2. t \o r = u \o s
      <3>1. (u \o v) \o r = u \o (v \o r)
        BY DEF Text
      <3>2. QED
        BY <3>1, Zenon DEF Joins
    <2>3. Joins(a, y, z)
      BY Zenon DEF Adds
    <2> HIDE DEF s
    <2>4. Joins(FieldWords(f, u \o s), x, a)
      BY <2>1, Zenon DEF Adds
    <2>5. z \in Seq(Lexeme)
      BY FieldOfText
    <2> HIDE DEF z, a
    <2>6. Joins(FieldWords(f, u \o s), x \o y, z)
      BY <1>0, <2>3, <2>4, <2>5, JoinedInto
    <2>7. QED
      BY <2>2, <2>6, Zenon DEF Joins, z
  <1>2. QED
    BY <1>1, Zenon DEF Adds

LEMMA BlockAdds ==
    ASSUME NEW f \in Fields, NEW b \in Blocks, b.lexemes # LessThan
    PROVE  Adds(f, b.lexemes, b.shown[f])
  <1>1. InHeadline(b) /\ (Prose(b) \/ Enclosed(b))
    BY ShownAssumption
  <1>2. Adds("headline", b.lexemes, b.shown["headline"])
    BY <1>1, HeadlineAdds
  <1>3. Adds("body", b.lexemes, b.shown["body"])
    BY <1>1, ProseAdds, EnclosedAdds
  <1>4. f = "headline" \/ f = "body"
    BY DEF Fields
  <1>5. QED
    BY <1>2, <1>3, <1>4

(* A list of blocks adds what each of them is to show.                     *)
LEMMA ListAdds ==
    ASSUME NEW f \in Fields, NEW bs \in Seq(Blocks),
           \A n \in DOMAIN bs : bs[n].lexemes # LessThan
    PROVE  Adds(f, Lexemes(bs), WordsShown(f, bs))
  <1> DEFINE N == Len(bs)
             Good == {n \in 0 .. N :
                        Adds(f, Lexemes(FirstBlocks(bs, n)), WordsShown(f, FirstBlocks(bs, n)))}
  <1>0. N \in Nat /\ DOMAIN bs = 1 .. N
    OBVIOUS
  <1>1. 0 \in Good
    <2>1. 0 \in 0 .. N
      BY <1>0
    <2>2. Adds(f, Lexemes(FirstBlocks(bs, 0)), WordsShown(f, FirstBlocks(bs, 0)))
      BY FirstBlocksGrow, NoBlocks, NothingAdds
    <2>3. QED
      BY <2>1, <2>2
  <1>2. ASSUME NEW n \in 1 .. N, n - 1 \in Good PROVE n \in Good
    <2> DEFINE b == bs[n]
               fr == FirstBlocks(bs, n - 1)
    <2>1. n \in 0 .. N /\ n - 1 \in 0 .. N /\ b \in Blocks /\ b.lexemes # LessThan
      BY <1>0
    <2>2. FirstBlocks(bs, n) = Append(fr, b) /\ fr \in Seq(Blocks)
      BY <2>1, FirstBlocksGrow
    <2>3. Adds(f, Lexemes(fr), WordsShown(f, fr))
      BY <1>2
    <2> HIDE DEF b, fr
    <2>4. Adds(f, b.lexemes, b.shown[f])
      BY <2>1, BlockAdds
    <2>5. /\ Joins(Lexemes(Append(fr, b)), Lexemes(fr), b.lexemes)
          /\ Joins(WordsShown(f, Append(fr, b)), WordsShown(f, fr), b.shown[f])
      BY <2>1, <2>2, AddedBlock
    <2>6. /\ Lexemes(fr) \in Text /\ b.lexemes \in Text
          /\ WordsShown(f, fr) \in Seq(Words) /\ b.shown[f] \in Seq(Words)
      BY <2>1, <2>2, LexemesOfBlocks, BlockTypes, ShownTypes
    <2>7. Adds(f, Lexemes(Append(fr, b)), WordsShown(f, Append(fr, b)))
      BY <2>3, <2>4, <2>5, <2>6, AddsBoth
    <2>8. QED
      BY <2>1, <2>2, <2>7
  <1>3. \A n \in 0 .. N : n \in Good
    <2> HIDE DEF Good, N
    <2>1. QED
      BY <1>0, <1>1, <1>2, UpTo
  <1>4. N \in Good
    <2>1. N \in 0 .. N
      BY <1>0
    <2>2. QED
      BY <1>3, <2>1
  <1>5. QED
    BY <1>4, FirstBlocksGrow

(* The text of the first blocks is in front of that of the others.         *)
LEMMA FrontOfText ==
    ASSUME NEW bs \in Seq(Blocks), NEW m \in 0 .. Len(bs)
    PROVE  \E rest \in Text : Joins(Lexemes(bs), Lexemes(FirstBlocks(bs, m)), rest)
  <1> DEFINE K == Len(bs) - m
             a == Lexemes(FirstBlocks(bs, m))
             Good == {n \in 0 .. K :
                        \E rest \in Text : Joins(Lexemes(FirstBlocks(bs, m + n)), a, rest)}
  <1>0. K \in Nat /\ K \in 0 .. K /\ m + K = Len(bs) /\ m \in Nat
    OBVIOUS
  <1>a. a \in Text
    BY FirstBlocksGrow, LexemesOfBlocks
  <1>1. 0 \in Good
    <2>1. m + 0 = m /\ 0 \in 0 .. K
      BY <1>0
    <2> HIDE DEF a
    <2>2. a \o << >> = a /\ << >> \in Text
      BY <1>a DEF Text
    <2>3. Joins(a, a, << >>)
      BY <2>2, Zenon DEF Joins
    <2>4. \E rest \in Text : Joins(Lexemes(FirstBlocks(bs, m + 0)), a, rest)
      BY <2>1, <2>2, <2>3 DEF a
    <2>5. QED
      BY <2>1, <2>4
  <1>2. ASSUME NEW n \in 1 .. K, n - 1 \in Good PROVE n \in Good
    <2> DEFINE j == m + n
               b == bs[j]
               fr == FirstBlocks(bs, j - 1)
    <2>1. n \in 0 .. K /\ j \in 1 .. Len(bs) /\ j - 1 \in 0 .. Len(bs) /\ m + (n - 1) = j - 1
      BY <1>0
    <2>2. b \in Blocks /\ fr \in Seq(Blocks) /\ FirstBlocks(bs, j) = Append(fr, b)
      <3> HIDE DEF j
      <3>1. QED
        BY <2>1, FirstBlocksGrow
    <2>3. PICK rest \in Text : Joins(Lexemes(fr), a, rest)
      BY <1>2, <2>1
    <2> HIDE DEF a, b, fr
    <2>4. Joins(Lexemes(Append(fr, b)), Lexemes(fr), b.lexemes) /\ b.lexemes \in Text
      <3>1. "body" \in Fields
        BY DEF Fields
      <3>2. QED
        BY <2>2, <3>1, AddedBlock, BlockTypes
    <2>5. rest \o b.lexemes \in Text
      BY <2>4 DEF Text
    <2>6. Joins(Lexemes(Append(fr, b)), a, rest \o b.lexemes)
      <3> DEFINE l == b.lexemes
      <3>1. a \in Seq(Lexeme) /\ rest \in Seq(Lexeme) /\ l \in Seq(Lexeme)
        BY <1>a, <2>4 DEF Text
      <3> HIDE DEF l
      <3>2. (a \o rest) \o l = a \o (rest \o l)
        BY <3>1
      <3>3. QED
        BY <2>3, <2>4, <3>2, Zenon DEF Joins, l
    <2>7. \E r \in Text : Joins(Lexemes(FirstBlocks(bs, m + n)), a, r)
      BY <2>2, <2>5, <2>6
    <2>8. QED
      BY <2>1, <2>7
  <1>3. \A n \in 0 .. K : n \in Good
    <2> HIDE DEF Good, K
    <2>1. QED
      BY <1>0, <1>1, <1>2, UpTo
  <1>4. K \in Good
    BY <1>0, <1>3
  <1>5. \E rest \in Text : Joins(Lexemes(FirstBlocks(bs, m + K)), a, rest)
    BY <1>4
  <1>6. QED
    BY <1>0, <1>5, FirstBlocksGrow

(* The first lone "less than" has none before it.                          *)
LEMMA FirstIsFirst ==
    ASSUME NEW bs \in Seq(Blocks)
    PROVE  LET m == FirstLessThan(bs)
           IN  /\ m \in 0 .. Len(bs)
               /\ m = 0 => \A n \in DOMAIN bs : bs[n].lexemes # LessThan
               /\ m # 0 => \A n \in 1 .. m - 1 : bs[n].lexemes # LessThan
  <1> DEFINE I == {i \in 1 .. Len(bs) : bs[i].lexemes = LessThan}
             m == FirstLessThan(bs)
  <1>1. m = IF I # {} THEN Min(I) ELSE 0
    BY DEF FirstLessThan, SelectInSeq
  <1>2. /\ I \in SUBSET (1 .. Len(bs)) /\ I \in SUBSET Nat
        /\ DOMAIN bs = 1 .. Len(bs) /\ Len(bs) \in Nat
    OBVIOUS
  <1> HIDE DEF m
  <1>3. CASE I = {}
    BY <1>1, <1>2, <1>3 DEF m
  <1>4. CASE I # {}
    <2> DEFINE J == I
    <2>1. m \in J /\ \A n \in J : m <= n
      <3> HIDE DEF I
      <3>1. QED
        BY <1>1, <1>2, <1>4, MinIsLeast
    <2>2. \A n \in 1 .. m - 1 : n \notin I
      BY <2>1
    <2>3. m \in 1 .. Len(bs)
      BY <2>1
    <2>4. QED
      BY <1>2, <2>2, <2>3 DEF m
  <1>5. QED
    BY <1>3, <1>4

LEMMA PrefixOfJoin ==
    ASSUME NEW E, NEW x \in Seq(E), NEW y \in Seq(E), NEW t, Joins(t, x, y)
    PROVE  IsPrefix(x, t)
  <1>1. /\ t \in Seq(E) /\ Len(x) \in Nat /\ Len(x) <= Len(t)
        /\ \A n \in 1 .. Len(x) : t[n] = x[n]
    BY DEF Joins
  <1>2. SubSeq(x, 1, Len(x)) = SubSeq(t, 1, Len(x))
    BY <1>1
  <1>3. QED
    BY <1>1, <1>2, Zenon DEF IsPrefix

LEMMA NothingBehind ==
    ASSUME NEW E, NEW x \in Seq(E), NEW t, Joins(t, x, << >>)
    PROVE  t = x
  <1>1. x \o << >> = x
    OBVIOUS
  <1>2. QED
    BY <1>1, Zenon DEF Joins

(* The words of a field: those of its blocks, up to a lone "less than".     *)
LEMMA WordsOfBlocks ==
    ASSUME NEW f \in Fields, NEW bs \in Seq(Blocks)
    PROVE  IF FirstLessThan(bs) = 0
           THEN FieldWords(f, Lexemes(bs)) = WordsShown(f, bs)
           ELSE IsPrefix(WordsShown(f, SubSeq(bs, 1, FirstLessThan(bs) - 1)),
                         FieldWords(f, Lexemes(bs)))
  <1> DEFINE m == FirstLessThan(bs)
             t == Lexemes(bs)
  <1>1. /\ m \in 0 .. Len(bs) /\ Len(bs) \in Nat
        /\ m = 0 => \A n \in DOMAIN bs : bs[n].lexemes # LessThan
        /\ m # 0 => \A n \in 1 .. m - 1 : bs[n].lexemes # LessThan
    BY FirstIsFirst
  <1>w. Words \subseteq Lexeme
    BY Zenon DEF Lexeme
  <1>2. t \in Text
    BY LexemesOfBlocks
  <1>3. ASSUME m = 0 PROVE FieldWords(f, t) = WordsShown(f, bs)
    <2>1. Adds(f, t, WordsShown(f, bs))
      BY <1>1, <1>3, ListAdds
    <2> DEFINE w == WordsShown(f, bs)
    <2>2. w \in Seq(Lexeme)
      BY <1>w, ShownTypes
    <2> HIDE DEF t, w
    <2>3. << >> \in Text /\ t \o << >> = t
      BY <1>2 DEF Text
    <2>4. Joins(FieldWords(f, t), w, << >>)
      <3>1. Joins(FieldWords(f, t \o << >>), w, FieldWords(f, << >>))
        BY <2>1, <2>3, Zenon DEF Adds, w
      <3>2. QED
        BY <2>3, <3>1, NoFieldWords
    <2>5. FieldWords(f, t) = w
      BY <2>2, <2>4, NothingBehind
    <2>6. QED
      BY <2>5 DEF t, w
  <1>4. ASSUME m # 0 PROVE IsPrefix(WordsShown(f, SubSeq(bs, 1, m - 1)), FieldWords(f, t))
    <2> DEFINE k == m - 1
               fr == FirstBlocks(bs, k)
               w == WordsShown(f, fr)
    <2>1. k \in 0 .. Len(bs)
      BY <1>1, <1>4
    <2> HIDE DEF k
    <2>2. fr \in Seq(Blocks) /\ Lexemes(fr) \in Text
      BY <2>1, FirstBlocksGrow, LexemesOfBlocks
    <2>3. \A n \in DOMAIN fr : fr[n].lexemes # LessThan
      <3>1. DOMAIN fr = 1 .. k /\ \A n \in 1 .. k : fr[n] = bs[n]
        BY <2>1 DEF FirstBlocks
      <3>2. \A n \in 1 .. k : bs[n].lexemes # LessThan
        BY <1>1, <1>4 DEF k
      <3> HIDE DEF fr
      <3>3. QED
        BY <3>1, <3>2
    <2>4. PICK rest \in Text : Joins(t, Lexemes(fr), rest)
      BY <2>1, FrontOfText
    <2> HIDE DEF t, fr
    <2>5. Adds(f, Lexemes(fr), w)
      BY <2>2, <2>3, ListAdds
    <2>6. Joins(FieldWords(f, t), w, FieldWords(f, rest))
      <3>1. Joins(FieldWords(f, Lexemes(fr) \o rest), w, FieldWords(f, rest))
        BY <2>5, Zenon DEF Adds
      <3>2. t = Lexemes(fr) \o rest
        BY <2>4, Zenon DEF Joins
      <3>3. QED
        BY <3>1, <3>2
    <2>7. w \in Seq(Lexeme) /\ FieldWords(f, rest) \in Seq(Lexeme)
      BY <1>w, <2>2, ShownTypes, FieldOfText
    <2> HIDE DEF w
    <2>8. IsPrefix(w, FieldWords(f, t))
      BY <2>6, <2>7, PrefixOfJoin
    <2>9. QED
      BY <2>8 DEF w, fr, k, t, FirstBlocks
  <1>5. QED
    BY <1>3, <1>4

-----------------------------------------------------------------------------
(* Theorems about the words of the fields. *)

LEMMA TransformedIsMade ==
    ASSUME Inv, NEW f \in Transformed
    PROVE  f \in Fields /\ WordsOf(model[f]) = FieldWords(f, Lexemes(Source(f)))
  <1>1. stage = "mapped" /\ f \in {"headline"} \cup (IF HasBody(event) THEN {"body"} ELSE {})
    BY DEF Transformed, Mapped, HasBody
  <1>2. MadeFrom(event, model)
    BY <1>1 DEF Inv, ContentInv, StageInv
  <1>3. Source("headline") = event.title /\ Source("body") = BestOf(event)
    BY DEF Source, BestOf
  <1>4. CASE f = "headline"
    <2>1. model["headline"] = TransformText("headline", Lexemes(Source("headline")))
      BY <1>2, <1>3 DEF MadeFrom
    <2>2. QED
      BY <1>4, <2>1 DEF FieldWords, Fields
  <1>5. CASE f = "body"
    <2>1. model["body"] = TransformText("body", Lexemes(Source("body")))
      BY <1>1, <1>2, <1>3, <1>5 DEF MadeFrom
    <2>2. QED
      BY <1>5, <2>1 DEF FieldWords, Fields
  <1>6. QED
    BY <1>1, <1>4, <1>5

(* Of whatever blocks in whatever order, a field shows the words of each    *)
(* and no others: neither the first match of a pattern nor the order of the *)
(* transformers lets one block take from another (mapper.go:218-250,        *)
(* transformer.go:32-67), as long as no lone "less than" is unescaped.      *)
THEOREM BlocksAreIndependent == Spec => []BlocksIndependent
  <1>1. Inv => BlocksIndependent
    <2>1. SUFFICES ASSUME Inv, NEW f \in Transformed
                   PROVE  IF FirstLessThan(Source(f)) = 0
                          THEN WordsOf(model[f]) = WordsShown(f, Source(f))
                          ELSE IsPrefix(WordsShown(f, SubSeq(Source(f), 1,
                                                             FirstLessThan(Source(f)) - 1)),
                                        WordsOf(model[f]))
      BY Zenon DEF BlocksIndependent
    <2>2. f \in Fields /\ WordsOf(model[f]) = FieldWords(f, Lexemes(Source(f)))
      BY <2>1, TransformedIsMade
    <2>3. Source(f) \in Seq(Blocks)
      BY <2>1, TransformedIsClean
    <2>4. QED
      BY <2>2, <2>3, WordsOfBlocks
  <1>2. QED
    BY <1>1, ContentInvariance, PTL

(* The model is without a body only if the best text there is, of body,     *)
(* bodyXML and description, shows nothing or has a lone "less than" in it   *)
(* (message_handler.go:118-121, mapper.go:236-250).                        *)
THEOREM BestTextIsIndexed == Spec => []BestTextIndexed
  <1>1. Inv => BestTextIndexed
    <2>1. SUFFICES ASSUME Inv
                   PROVE  WordsFromBestText /\
                          (stage = "mapped" /\ model.body = << >> =>
                             \/ WordsShown("body", Source("body")) = << >>
                             \/ FirstLessThan(Source("body")) # 0)
      BY DEF BestTextIndexed, Mapped
    <2>2. WordsFromBestText
      BY <2>1, WordsAreBest
    <2>3. ASSUME stage = "mapped", model.body = << >>, FirstLessThan(Source("body")) = 0
          PROVE  WordsShown("body", Source("body")) = << >>
      <3>1. event \in Contents /\ MadeFrom(event, model)
        BY <2>1, <2>3 DEF Inv, ContentInv, StageInv
      <3>2. CASE HasBody(event)
        <4>1. "body" \in Transformed
          BY <2>3, <3>2 DEF Transformed, Mapped, HasBody
        <4>2. WordsOf(model["body"]) = FieldWords("body", Lexemes(Source("body")))
              /\ "body" \in Fields /\ Source("body") \in Seq(Blocks)
          BY <2>1, <4>1, TransformedIsMade, TransformedIsClean
        <4>3. FieldWords("body", Lexemes(Source("body"))) = WordsShown("body", Source("body"))
          BY <2>3, <4>2, WordsOfBlocks
        <4>4. QED
          BY <2>3, <4>2, <4>3, NoWords
      <3>3. CASE ~HasBody(event)
        <4>1. Source("body") = event.description
          BY <3>3 DEF Source, HasBody
        <4>2. Lexemes(Source("body")) = << >>
          BY <2>3, <3>1, <3>3, <4>1 DEF MadeFrom
        <4>3. Source("body") \in Seq(Blocks) /\ "body" \in Fields
          BY <3>1, <4>1, ContentFieldTypes DEF Fields
        <4>4. FieldWords("body", Lexemes(Source("body"))) = WordsShown("body", Source("body"))
          BY <2>3, <4>3, WordsOfBlocks
        <4>5. QED
          BY <4>2, <4>3, <4>4, NoFieldWords
      <3>4. QED
        BY <3>2, <3>3
    <2>4. QED
      BY <2>2, <2>3
  <1>2. QED
    BY <1>1, ContentInvariance, PTL

=============================================================================
