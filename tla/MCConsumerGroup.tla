--------------------------- MODULE MCConsumerGroup ---------------------------
(***************************************************************************)
(* Two instances, two partitions, and events of one document.              *)
(***************************************************************************)
EXTENDS ConsumerGroup, TLC

CONSTANTS p1, p2, u1

Plain(u) ==
    [uuid |-> u, synthetic |-> FALSE, json |-> TRUE, publication |-> "pink",
     type |-> "Article", header |-> "none", identifiers |-> <<"methode">>,
     origin |-> "methode", hasContent |-> TRUE, deleted |-> FALSE,
     annotated |-> FALSE]

Article(u)   == [Plain(u) EXCEPT !.annotated = TRUE]
Deleted(u)   == [Plain(u) EXCEPT !.deleted = TRUE]
Synthetic(u) == [Plain(u) EXCEPT !.synthetic = TRUE]

Log(s, t) == (p1 :> s) @@ (p2 :> t)

(* The document is written and deleted, in one partition or in two, or     *)
(* written with or without its annotation fields after an event that is    *)
(* passed over.                                                            *)
MCTopics ==
    {Log(<<Plain(u1)>>, <<Deleted(u1)>>),
     Log(<<Plain(u1), Deleted(u1)>>, << >>),
     Log(<<Synthetic(u1), Article(u1)>>, << >>)}

=============================================================================
