---------------------------- MODULE Concordance ----------------------------
(***************************************************************************)
(* concept.TransformToConceptModel: the answer of the Concordances API,    *)
(* row by row, becomes a map from concept ids to their TME ids.  A UPP row *)
(* of a concept makes its identifier an alias of the concept: the alias    *)
(* gets a copy of the concept's entry as it is at that row.                *)
(*                                                                         *)
(* The copy is that of a Go slice: the TME ids stay in one array that the  *)
(* two entries share, each with a length of its own.  append writes into   *)
(* the array as long as there is room behind that length, and moves to a   *)
(* new array of twice the size when there is none.                         *)
(*                                                                         *)
(* The module has no specification of its own: ToIndexModel asks for the   *)
(* map of the annotations it has (AnnotationMapper).                       *)
(***************************************************************************)
EXTENDS Naturals, Sequences, SequencesExt

CONSTANTS
    Concept,      \* things an annotation can name: concepts and their aliases
    TmeID,        \* the identifiers of the TME authority
    Missing,      \* no entry in the map
    Unset         \* an element of an array no slice has appended yet

Row ==
    [concept : Concept, authority : {"tme"}, value : TmeID]
    \cup [concept : Concept, authority : {"upp"}, value : Concept]
    \cup [concept : Concept, authority : {"other"}, value : {"other"}]

Slice == [array : Nat, len : Nat]
Nil == [array |-> 0, len |-> 0]

ASSUME MissingAssumption == Missing \notin Slice \cup Seq(TmeID)
ASSUME UnsetAssumption == Unset \notin TmeID

VARIABLES
    rows,         \* the answer of the Concordances API; never changes
    done,         \* number of rows processed
    conceptMap,   \* the slice of each concept's entry
    heap          \* the arrays that were allocated

mapVars == <<done, conceptMap, heap>>

InitMap ==
    /\ done = 0
    /\ conceptMap = [c \in Concept |-> Missing]
    /\ heap = << >>

-----------------------------------------------------------------------------
(* append on a slice. *)

HasRoom(s) == s.array # 0 /\ s.len < Len(heap[s.array])

Capacity(s) == IF s.len = 0 THEN 1 ELSE 2 * s.len

Grown(s, v) ==
    [j \in 1 .. Capacity(s) |->
        IF j <= s.len THEN heap[s.array][j] ELSE IF j = s.len + 1 THEN v ELSE Unset]

(* Mutant: every append starts from the first element of the array.        *)
WriteFirst(s, v) ==
    IF HasRoom(s) THEN [heap EXCEPT ![s.array][1] = v]
    ELSE Append(heap, Grown(s, v))

Write(s, v) ==
    IF HasRoom(s) THEN [heap EXCEPT ![s.array][s.len + 1] = v]
    ELSE Append(heap, Grown(s, v))

Longer(s) ==
    [array |-> IF HasRoom(s) THEN s.array ELSE Len(heap) + 1, len |-> s.len + 1]

-----------------------------------------------------------------------------
Row1 == rows[done + 1]

(* conceptMap[c.Concept.ID] = Model{}, unless it is there.                 *)
Enter(c) ==
    IF conceptMap[c] = Missing THEN [conceptMap EXCEPT ![c] = Nil] ELSE conceptMap

NextRow(authority) ==
    /\ done < Len(rows)
    /\ Row1.authority = authority
    /\ done' = done + 1
    /\ UNCHANGED rows

AddTmeID ==
    LET m == Enter(Row1.concept)
    IN  /\ NextRow("tme")
        /\ conceptMap' = [m EXCEPT ![Row1.concept] = Longer(@)]
        /\ heap' = Write(m[Row1.concept], Row1.value)

(* Mutant: an alias follows its concept.                                   *)
AliasAgain(m, r) == [m EXCEPT ![r.value] = m[r.concept]]

(* An entry the map already has under the alias is left alone.             *)
Alias(m, r) ==
    IF m[r.value] = Missing THEN [m EXCEPT ![r.value] = m[r.concept]] ELSE m

AddAlias ==
    /\ NextRow("upp")
    /\ conceptMap' = Alias(Enter(Row1.concept), Row1)
    /\ UNCHANGED heap

OtherAuthority ==
    /\ NextRow("other")
    /\ conceptMap' = Enter(Row1.concept)
    /\ UNCHANGED heap

TransformToConceptModel == AddTmeID \/ AddAlias \/ OtherAuthority

MapComplete == done = Len(rows)

(* What the mapper reads of an entry.                                      *)
Read(c) ==
    LET s == conceptMap[c]
    IN  IF s = Missing THEN Missing
        ELSE IF s = Nil THEN << >> ELSE SubSeq(heap[s.array], 1, s.len)

-----------------------------------------------------------------------------
(* Properties, in terms of the rows alone. *)

(* The TME ids that the first n rows give the concept c, in their order:   *)
(* TmeIDs(c)[n].                                                           *)
TmeIDs(c) ==
    LET ids[n \in 0 .. Len(rows)] ==
            IF n = 0 THEN << >>
            ELSE IF rows[n].concept = c /\ rows[n].authority = "tme"
                 THEN Append(ids[n - 1], rows[n].value)
                 ELSE ids[n - 1]
    IN  ids

IsConcept(c, n) == \E i \in 1 .. n : rows[i].concept = c

(* The row that first makes a an alias of another thing; 0 if none does.   *)
AliasRow(a, n) ==
    LET at == {i \in 1 .. n : /\ rows[i].authority = "upp"
                              /\ rows[i].value = a /\ rows[i].concept # a}
    IN  IF at = {} THEN 0 ELSE CHOOSE i \in at : \A j \in at : i <= j

MapTypeOK ==
    /\ rows \in Seq(Row)
    /\ done \in 0 .. Len(rows)
    /\ heap \in Seq(Seq(TmeID \cup {Unset}))
    /\ conceptMap \in [Concept -> Slice \cup {Missing}]
    /\ \A c \in Concept : conceptMap[c] \in Slice \ {Nil} =>
          /\ conceptMap[c].array \in DOMAIN heap
          /\ conceptMap[c].len \in DOMAIN heap[conceptMap[c].array]

(* A thing that is an alias and has rows of its own as well.               *)
Tangled(n) == \E a \in Concept : AliasRow(a, n) # 0 /\ IsConcept(a, n)

(* What the first n rows say of c: the TME ids of a concept; for an alias,  *)
(* those its concept had at the row that made it one; or nothing.           *)
Said(c, n) ==
    IF IsConcept(c, n) THEN TmeIDs(c)[n]
    ELSE IF AliasRow(c, n) # 0
         THEN TmeIDs(rows[AliasRow(c, n)].concept)[AliasRow(c, n)]
         ELSE Missing

(* Whatever the order of the rows, a concept has all its TME ids, in order: *)
(* what is appended to the array it shares with an alias is never in the    *)
(* way, unless an alias has rows of its own.  An alias keeps the ids it was *)
(* given: those in later rows never reach it, and it is complete only when  *)
(* the response lists the TME rows of a concept before its UPP rows.        *)
EntriesExact ==
    ~Tangled(done) => \A c \in Concept : Read(c) = Said(c, done)

UppRows == {j \in 1 .. done : rows[j].authority = "upp"}

Linked == {rows[j].concept : j \in UppRows} \cup {rows[j].value : j \in UppRows}

(* With a name, S has all those that UPP rows tie to it.                   *)
Closed(S) == \A j \in UppRows : rows[j].concept \in S <=> rows[j].value \in S

GivenTo(S) ==
    {rows[j].value : j \in {k \in 1 .. done : /\ rows[k].authority = "tme"
                                             /\ rows[k].concept \in S}}

(* Also when an alias has rows of its own, and its ids overwrite those of  *)
(* the concept in the array the two share: an entry holds ids that the     *)
(* response gives to the concept or to names that UPP rows tie to it,      *)
(* directly or through others; of no stranger, and none that was never set.*)
NoForeignIDs ==
    \A c \in Concept : Read(c) # Missing =>
        \A S \in SUBSET (Linked \cup {c}) :
            (c \in S /\ Closed(S)) => ToSet(Read(c)) \subseteq GivenTo(S)

=============================================================================
