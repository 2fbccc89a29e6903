--------------------------- MODULE MCSchemaHealth ---------------------------
(* Requests that are served at the same time, or one after the other; a     *)
(* name without an index, with one that matches or does not, and an alias   *)
(* on two.                                                                  *)
EXTENDS SchemaHealth, TLC

CONSTANTS c1, c2, c3

Same    == [settings |-> "same", mappings |-> "same"]
MCLives == {{}, {Same}, {[Same EXCEPT !.settings = "other"]},
            {Same, [Same EXCEPT !.mappings = "other"]}}

Symmetry == Permutations({c1, c2, c3})
=============================================================================
