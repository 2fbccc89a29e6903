-------------------------- MODULE MCMessageRouting --------------------------
(***************************************************************************)
(* Every event over three systems, with at most two identifiers.           *)
(***************************************************************************)
EXTENDS MessageDecision, TLC

MCSystem == {"methode", "wordpress", "other"}

Events ==
    [uuid : Uuid, synthetic : {FALSE}, json : {TRUE},
     publication : {"pink", "sv"},
     type : {"Article", "Audio", "Content", NoType},
     header : {"none", "audio", "article", "live-event"},
     identifiers : UNION {[1..n -> MCSystem] : n \in 0..2},
     origin : {"methode", "wordpress", "pac", "other"},
     hasContent : BOOLEAN, deleted : BOOLEAN, annotated : {FALSE}]

MCInit == message \in Events /\ decision = "pending"

MCSpec == MCInit /\ [][Decide]_decisionVars

=============================================================================
