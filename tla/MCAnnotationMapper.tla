------------------------- MODULE MCAnnotationMapper -------------------------
(***************************************************************************)
(* Lists of up to three out of eleven annotations, of which the            *)
(* Concordances API knows every concept, all but one, or no TME id; labels *)
(* are numbers.                                                            *)
(*                                                                         *)
(* And responses of up to four rows about two concepts, each with an alias *)
(* of its own; a concept also lists itself, as in the test data            *)
(* (test/testdata/exampleConcordanceResponse.json).  And responses of up   *)
(* to six rows in which an alias has rows of its own: the array of a       *)
(* concept has room for a fourth id that both names append to.             *)
(***************************************************************************)
EXTENDS AnnotationMapper

MCConcept == {"a", "aOld", "b", "bOld", "c1", "c2", "c3", "c4", "c5"}

Id(taxonomy, n) == [taxonomy |-> taxonomy, n |-> n]

Tme(c, taxonomy, n) ==
    [concept |-> c, authority |-> "tme", value |-> Id(taxonomy, n)]
Upp(c, d) == [concept |-> c, authority |-> "upp", value |-> d]
Other(c)  == [concept |-> c, authority |-> "other", value |-> "other"]

Ann(id, label, predicate, types) ==
    [id |-> id, label |-> label, predicate |-> predicate, types |-> types]

-----------------------------------------------------------------------------
MCAnnotations ==
    {Ann("c1", 1, "about", <<"topic">>),
     Ann("c2", 2, "about", <<"organisation", "company">>),
     Ann("c3", 1, "about", <<"other">>),
     Ann("c4", 2, "hasAuthor", <<"person">>),
     Ann("c5", 3, "hasContributor", <<"person">>),
     Ann("c5", 3, "about", <<"person">>),
     Ann("c1", 1, "mentions", <<"topic">>),
     Ann("c1", 1, "isPrimaryClassifiedBy", <<"topic">>),
     Ann("c2", 2, "isPrimaryClassifiedBy", <<"genre">>),
     Ann("c3", 1, "isClassifiedBy", <<"brand", "location">>),
     Ann("c4", 2, "hasDisplayTag", <<"person">>)}

Known ==
    <<Tme("c1", "Topics", "t1"), Tme("c1", "Sections", "t2"),
      Tme("c2", "Sections", "t2"), Tme("c2", "ON", "t3"), Other("c3"),
      Tme("c4", "Authors", "t4"), Tme("c5", "PN", "t5"), Tme("c5", "Authors", "t6")>>

Unknown == SelectSeq(Known, LAMBDA r : r.concept # "c1")

NoTmeID == [k \in DOMAIN Known |-> Other(Known[k].concept)]

(* The rows of the concepts that are asked for.                            *)
AskedFor(response, list) ==
    SelectSeq(response, LAMBDA r : \E k \in DOMAIN list :
                 list[k].id = r.concept /\ IsLookedUp(list[k]))

ManyAnnotations ==
    {[annotations |-> list, rows |-> AskedFor(response, list)] :
        list \in BoundedSeq(MCAnnotations, 3), response \in {Known, Unknown, NoTmeID}}

-----------------------------------------------------------------------------
Named ==
    <<Ann("a", 1, "about", <<"topic">>), Ann("aOld", 2, "isClassifiedBy", <<"topic">>),
      Ann("bOld", 1, "about", <<"genre">>)>>

MCRows ==
    {Tme("a", "Topics", "t1"), Tme("a", "Topics", "t2"), Upp("a", "a"),
     Upp("a", "aOld"), Upp("b", "bOld"), Tme("b", "GL", "t3"), Other("b")}

TangledRows ==
    {Tme("a", "Topics", "t1"), Upp("a", "aOld"), Tme("aOld", "Topics", "t2"),
     Tme("b", "GL", "t3")}

ManyResponses ==
    {[annotations |-> Named, rows |-> response] :
        response \in BoundedSeq(MCRows, 4) \cup BoundedSeq(TangledRows, 6)}

MCEvents == ManyAnnotations \cup ManyResponses

MCTmeID ==
    {r.value : r \in {q \in ToSet(Known) \cup MCRows \cup TangledRows : q.authority = "tme"}}

=============================================================================
