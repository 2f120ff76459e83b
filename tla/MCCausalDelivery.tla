-------------------------- MODULE MCCausalDelivery --------------------------
(* Instances of CausalDelivery for TLC.  Message ids are ordered, so only  *)
(* the nodes are interchangeable.                                          *)
EXTENDS CausalDelivery, TLC

Symmetry == Permutations(Node)
=============================================================================
