-------------------------- MODULE MCFaultTolerance --------------------------
(* Instances of FaultTolerance for TLC.                                    *)
EXTENDS FaultTolerance, TLC

CONSTANT Entry  \* the nodes the clients know; the others only get replicas

EveryOtherNode == [n \in Node |-> Node \ {n}]

EveryClientKnowsEntry == [m \in Message |-> Entry]

\* Interchangeable: message ids, entry nodes, and the nodes clients never call.
Symmetry == Permutations(Message) \union Permutations(Entry)
                \union Permutations(Node \ Entry)
=============================================================================
