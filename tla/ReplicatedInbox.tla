-------------------------- MODULE ReplicatedInbox --------------------------
(***************************************************************************)
(* What the fault-tolerance layer promises: a message given to a node is   *)
(* kept there for ever, copies of it spread from the nodes that hold it,   *)
(* and a sender is told of success only when some node holds the message.  *)
(* Nothing here knows of crashes, queues, threads or retries.              *)
(***************************************************************************)
CONSTANTS Node, Message

VARIABLES held,       \* held[n]: the messages node n keeps
          confirmed   \* the messages whose sender was told of success

Init ==
    /\ held = [n \in Node |-> {}]
    /\ confirmed = {}

\* A client gives m to n.
Submit(n, m) ==
    /\ held' = [held EXCEPT ![n] = @ \union {m}]
    /\ UNCHANGED confirmed

\* Copies of some of p's messages reach n.
Spread(p, n) ==
    /\ \E copies \in SUBSET held[p] :
         held' = [held EXCEPT ![n] = @ \union copies]
    /\ UNCHANGED confirmed

Confirm(m) ==
    /\ \E n \in Node : m \in held[n]
    /\ confirmed' = confirmed \union {m}
    /\ UNCHANGED held

Next ==
    \/ \E n \in Node, m \in Message : Submit(n, m)
    \/ \E p, n \in Node : Spread(p, n)
    \/ \E m \in Message : Confirm(m)

Spec == Init /\ [][Next]_<<held, confirmed>>
=============================================================================
