---------------------------- MODULE MCBaseAPIURL ----------------------------
(* Three handlers on one mapper.                                           *)
EXTENDS BaseAPIURL, TLC

CONSTANTS h1, h2, h3

Symmetry == Permutations({h1, h2, h3})
=============================================================================
