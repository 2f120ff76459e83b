--------------------------- MODULE MCQuorumStore ---------------------------
(* Instances of QuorumStore for TLC.                                       *)
EXTENDS QuorumStore

\* Nodes are numbered; a node's peers are in the order of their numbers.
InOrder ==
    [n \in Node |-> SelectSeq([k \in 1..Cardinality(Node) |-> k], LAMBDA k : k # n)]
=============================================================================
