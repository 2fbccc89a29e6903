-------------------------- MODULE AnnotationMapper --------------------------
(***************************************************************************)
(* The annotation fields of the documents: ToIndexModel from the lookup of *)
(* the concepts on (pkg/mapper/mapper.go).  The answer of the Concordances *)
(* API is turned into a map; each annotation adds its label and its        *)
(* identifiers to the fields of its types and of its predicate; then one   *)
(* of the "about" annotations becomes the primary theme.                   *)
(*                                                                         *)
(* A TME identifier ends in the base64 form of its taxonomy, which is all  *)
(* that is looked at; it is a record of that taxonomy and a number.        *)
(***************************************************************************)
EXTENDS Concordance

CONSTANTS
    Events,      \* the events that are considered: their annotations, and the
                 \* rows the Concordances API has for them
    None         \* a field that is not set

Sections == {"about", "majorMentions", "implicitlyAbout", "isClassifiedBy",
             "implicitlyClassifiedBy", "isPrimaryClassifiedBy"}
Ignored  == {"mentions", "hasDisplayTag"}
Authoring == {"hasAuthor", "hasContributor"}

(* The field of the index a type of concept belongs to; a person is        *)
(* treated apart.                                                          *)
FieldOf == [organisation |-> "orgnames", company |-> "companynames",
            brand |-> "brands", topic |-> "topics", location |-> "regions",
            genre |-> "genres"]
Plain == DOMAIN FieldOf
Field == {FieldOf[t] : t \in Plain} \cup {"people", "authors", "sections"}

(* The taxonomy that supplies the id of a primary theme.                   *)
ThemeTaxonomy == [organisation |-> "ON", person |-> "PN", topic |-> "Topics",
                  location |-> "GL"]

Annotation == [id : Concept, label : Nat, predicate : STRING, types : Seq(STRING)]

Identifier == [taxonomy : {"canonical"}, n : Concept] \cup TmeID

Tag == [name : Nat, id : Identifier]

ASSUME EventsAssumption ==
    \A e \in Events : e.annotations \in Seq(Annotation) /\ e.rows \in Seq(Row)
ASSUME NoneAssumption == None \notin Tag

VARIABLES
    annotations,   \* those of the event, later those worth looking up
    pc,            \* where ToIndexModel is: "lookup", "map", "done"
    i,             \* number of annotations mapped
    model,         \* names and identifiers of each field
    section,       \* primary section
    theme          \* primary theme

fieldVars == <<annotations, pc, i, model, section, theme>>
vars == <<fieldVars, rows, mapVars>>

-----------------------------------------------------------------------------
(* Mutant: duplicates are not looked for.                                  *)
AppendAlways(s, e) == Append(s, e)

AppendIfNotExists(s, e) ==
    IF \E j \in DOMAIN s : s[j] = e THEN s ELSE Append(s, e)

PrepareElasticField(s, ids) ==
    LET field[k \in 0 .. Len(ids)] ==
            IF k = 0 THEN s ELSE AppendIfNotExists(field[k - 1], ids[k])
    IN  field[Len(ids)]

Found(a)  == conceptMap[a.id] # Missing
AnnIDs(a) == <<[taxonomy |-> "canonical", n |-> a.id]>> \o Read(a.id)

(* Positions of the identifiers of a taxonomy.                             *)
At(taxonomy, ids) == {j \in DOMAIN ids : ids[j].taxonomy = taxonomy}
FirstAt(S) == CHOOSE j \in S : \A k \in S : j <= k

HasCmrID(taxonomy, ids) == At(taxonomy, ids) # {}
CmrID(taxonomy, ids)    == ids[FirstAt(At(taxonomy, ids))]

(* Mutant: no fallback.                                                    *)
CmrIDOrNone(taxonomy, ids) ==
    IF HasCmrID(taxonomy, ids) THEN CmrID(taxonomy, ids) ELSE None

CmrIDWithFallback(taxonomy, ids) ==
    IF HasCmrID(taxonomy, ids) THEN CmrID(taxonomy, ids)
    ELSE IF Len(ids) > 1 THEN ids[2] ELSE ids[1]

(* Label and identifiers of an annotation go into the field f of m.        *)
Add(m, f, label, ids) ==
    [m EXCEPT ![f] = [names |-> AppendIfNotExists(@.names, label),
                      ids   |-> PrepareElasticField(@.ids, ids)]]

(* Somebody known as an author only is not one of the people.              *)
IsPeople(ids) == HasCmrID("PN", ids) \/ ~HasCmrID("Authors", ids)

AddPerson(m, a, ids) ==
    LET author == CmrID("Authors", ids)
        m1 == IF IsPeople(ids) THEN Add(m, "people", a.label, ids) ELSE m
    IN  IF a.predicate \in Authoring /\ HasCmrID("Authors", ids)
        THEN Add(m1, "authors", a.label, <<author, ids[1]>>)
        ELSE m1

AddType(m, a, type) ==
    IF type = "person" THEN AddPerson(m, a, AnnIDs(a))
    ELSE IF type \in Plain THEN Add(m, FieldOf[type], a.label, AnnIDs(a))
    ELSE m

HandleSectionMapping(m, a) ==
    IF a.predicate \in Sections THEN Add(m, "sections", a.label, AnnIDs(a)) ELSE m

PopulateAnnotationRelatedFields(m, a) ==
    LET fields[k \in 0 .. Len(a.types)] ==
            IF k = 0 THEN HandleSectionMapping(m, a)
            ELSE AddType(fields[k - 1], a, a.types[k])
    IN  fields[Len(a.types)]

-----------------------------------------------------------------------------
Init ==
    /\ \E e \in Events : annotations = e.annotations /\ rows = e.rows
    /\ InitMap
    /\ pc = "lookup"
    /\ i = 0
    /\ model = [f \in Field |-> [names |-> << >>, ids |-> << >>]]
    /\ section = None
    /\ theme = None

IsLookedUp(a) == a.predicate \notin Ignored

(* The annotations that are looked up, in their order.                     *)
LookedUp(list) ==
    LET anns[k \in 0 .. Len(list)] ==
            IF k = 0 THEN << >>
            ELSE IF IsLookedUp(list[k]) THEN Append(anns[k - 1], list[k])
            ELSE anns[k - 1]
    IN  anns[Len(list)]

(* The document is left without annotation fields when there is nothing to *)
(* look up, and when the lookup fails.                                     *)
Lookup ==
    /\ pc = "lookup"
    /\ annotations' = LookedUp(annotations)
    /\ pc' = IF annotations' = << >> THEN "done" ELSE "map"
    /\ UNCHANGED <<i, model, section, theme, rows, mapVars>>

LookupFails ==
    /\ pc = "lookup"
    /\ LookedUp(annotations) # << >>
    /\ pc' = "done"
    /\ UNCHANGED <<annotations, i, model, section, theme, rows, mapVars>>

(* GetConcepts, once it has the response.                                  *)
ReadConcordances ==
    /\ pc = "map"
    /\ TransformToConceptModel
    /\ UNCHANGED fieldVars

(* Mutant: the first primary section is kept.                              *)
FirstPrimary(old, new) == IF old = None THEN new ELSE old

Primary(old, new) == new

MapAnnotation ==
    LET a == annotations[i + 1]
    IN  /\ pc = "map"
        /\ MapComplete
        /\ i < Len(annotations)
        /\ i' = i + 1
        /\ IF Found(a)
           THEN /\ model' = PopulateAnnotationRelatedFields(model, a)
                /\ section' =
                      IF a.predicate = "isPrimaryClassifiedBy"
                      THEN Primary(section,
                                   [name |-> a.label,
                                    id |-> CmrIDWithFallback("Sections", AnnIDs(a))])
                      ELSE section
           ELSE UNCHANGED <<model, section>>
        /\ UNCHANGED <<annotations, pc, theme, rows, mapVars>>

(* Annotations that sort.Slice may put first: it is not a stable sort.     *)
Candidates ==
    {a \in {annotations[j] : j \in DOMAIN annotations} :
        a.predicate = "about" /\ Found(a)}

(* Mutant: the label does not matter.                                      *)
AnyCandidate == Candidates

Foremost == {a \in Candidates : \A b \in Candidates : a.label <= b.label}

ThemeOf(a) ==
    LET typed == {k \in DOMAIN a.types : a.types[k] \in DOMAIN ThemeTaxonomy}
        taxonomy == ThemeTaxonomy[a.types[FirstAt(typed)]]
    IN  IF typed = {} THEN None
        ELSE [name |-> a.label, id |-> CmrIDWithFallback(taxonomy, AnnIDs(a))]

PopulatePrimaryTheme ==
    /\ pc = "map"
    /\ MapComplete
    /\ i = Len(annotations)
    /\ pc' = "done"
    /\ IF Candidates = {} THEN UNCHANGED theme
       ELSE \E a \in Foremost : theme' = ThemeOf(a)
    /\ UNCHANGED <<annotations, i, model, section, rows, mapVars>>

Next ==
    \/ Lookup \/ LookupFails \/ ReadConcordances
    \/ MapAnnotation \/ PopulatePrimaryTheme

Spec == Init /\ [][Next]_vars

-----------------------------------------------------------------------------
(* Properties.  What a field ought to hold, without the loop: the          *)
(* annotations so far that contribute to it, and what each contributes.    *)

TypeOK ==
    /\ MapTypeOK
    /\ annotations \in Seq(Annotation)
    /\ pc \in {"lookup", "map", "done"}
    /\ i \in 0 .. Len(annotations)
    /\ model \in [Field -> [names : Seq(Nat), ids : Seq(Identifier)]]
    /\ section \in Tag \cup {None}
    /\ theme \in Tag \cup {None}

Mapped == {annotations[j] : j \in 1 .. i}
Types(a) == {a.types[j] : j \in DOMAIN a.types}

SaidIDs(a) == <<[taxonomy |-> "canonical", n |-> a.id]>> \o Said(a.id, Len(rows))

Contributes(a, f) ==
    /\ Said(a.id, Len(rows)) # Missing
    /\ \/ f = "sections" /\ a.predicate \in Sections
       \/ \E t \in Plain \cap Types(a) : f = FieldOf[t]
       \/ /\ f = "people" /\ "person" \in Types(a)
          /\ \/ HasCmrID("PN", SaidIDs(a))
             \/ ~HasCmrID("Authors", SaidIDs(a))
       \/ /\ f = "authors" /\ "person" \in Types(a)
          /\ a.predicate \in Authoring
          /\ HasCmrID("Authors", SaidIDs(a))

Contributed(a, f) ==
    LET ids == SaidIDs(a)
    IN  IF f = "authors" THEN {ids[1], CmrID("Authors", ids)} ELSE ToSet(ids)

(* From the response to the document: the fields hold the labels of exactly *)
(* the annotations that contribute to them, and the identifiers the rows    *)
(* give those.  None comes from a mention, none of an author is among the   *)
(* people, none is lost to another annotation's or in a shared array; and   *)
(* however often one comes up, in however many types of however many        *)
(* annotations, a field lists it once.                                      *)
FieldsExact ==
    (pc # "lookup" /\ ~Tangled(Len(rows))) =>
        \A f \in Field :
            LET from == {a \in Mapped : Contributes(a, f)}
            IN  /\ ToSet(model[f].names) = {a.label : a \in from}
                /\ ToSet(model[f].ids) = UNION {Contributed(a, f) : a \in from}
                /\ \A a \in from : a.predicate \notin Ignored
                /\ IsInjective(model[f].names)
                /\ IsInjective(model[f].ids)

(* The primary section is one annotation's label and identifier, that of    *)
(* the last primary classification, and it is among the sections.           *)
SectionConsistent ==
    LET primary == {j \in 1 .. i : /\ annotations[j].predicate = "isPrimaryClassifiedBy"
                                   /\ Found(annotations[j])}
    IN  (pc # "lookup" /\ primary # {}) =>
            LET a == annotations[CHOOSE j \in primary : \A k \in primary : k <= j]
            IN  /\ section.name = a.label
                /\ section.id \in ToSet(AnnIDs(a))
                /\ section.id \in ToSet(model["sections"].ids)

(* The primary theme is an "about" annotation, none before it in the        *)
(* alphabet, and its identifier is one of that annotation's own and of the  *)
(* sections'; which of two with the same label it is, is not determined.    *)
ThemeConsistent ==
    theme # None =>
        \E j \in DOMAIN annotations :
            /\ annotations[j].predicate = "about"
            /\ theme.name = annotations[j].label
            /\ theme.id \in ToSet(AnnIDs(annotations[j]))
            /\ theme.id \in ToSet(model["sections"].ids)
            /\ \A k \in DOMAIN annotations :
                  (annotations[k].predicate = "about" /\ Found(annotations[k]))
                  => annotations[j].label <= annotations[k].label

=============================================================================
