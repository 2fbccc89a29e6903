------------------------------ MODULE MCHealth ------------------------------
(***************************************************************************)
(* Requests to each endpoint; neighbours that are all well, of which       *)
(* Elasticsearch or Kafka is silent, or the Concordances API is and Kafka  *)
(* fails one check.                                                        *)
(***************************************************************************)
EXTENDS Health, TLC

CONSTANTS g, h, d

Good == [elasticsearch |-> "green", kafka |-> "fine", concordances |-> "up"]

MCEndpoint == [r \in Request |-> CASE r = g -> "gtg" [] r = h -> "health" [] r = d -> "details"]

MCEnvironments ==
    {Good,
     [Good EXCEPT !.elasticsearch = "silent"],
     [Good EXCEPT !.kafka = "silent"],
     [Good EXCEPT !.kafka = "lagging", !.concordances = "silent"]}

=============================================================================
