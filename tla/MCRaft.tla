------------------------------- MODULE MCRaft -------------------------------
(* Instances of Raft for TLC.                                              *)
EXTENDS Raft, TLC

Symmetry == Permutations(Node) \union Permutations(Message)

\* What no later step and no property reads is left out of the states compared:
\* whom a node believes to be the leader, and what a node that no longer leads
\* knew of its peers' logs (an election resets it).
View ==
    <<[i \in Node |->
        [node[i] EXCEPT
            !.leaderId = None,
            !.nextIndex = IF node[i].state = "LEADER" THEN @ ELSE <<>>,
            !.matchIndex = IF node[i].state = "LEADER" THEN @ ELSE <<>>]],
      active, partitionedFrom, history>>

=============================================================================
