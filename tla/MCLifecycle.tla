----------------------------- MODULE MCLifecycle -----------------------------
(***************************************************************************)
(* Up to two health requests at a time.                                    *)
(***************************************************************************)
EXTENDS Lifecycle

=============================================================================
