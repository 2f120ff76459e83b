--------------------------- MODULE ReplicatedLog ---------------------------
(***************************************************************************)
(* What the consensus layer promises the replication layer: there is one   *)
(* log of committed entries, which only grows; the node that commits is    *)
(* handed them all at once, and the others follow, each in its own time and*)
(* in the order of the log.  Nothing here knows of terms, elections, votes,*)
(* uncommitted entries, crashes or partitions.                             *)
(***************************************************************************)
EXTENDS Integers, Sequences

CONSTANT Node

VARIABLES committed,    \* the log
          applied       \* applied[i]: what node i was handed of it, in order

Prefix(s, t) == Len(s) <= Len(t) /\ \A k \in 1..Len(s) : s[k] = t[k]

Init ==
    /\ committed = <<>>
    /\ applied = [i \in Node |-> <<>>]

\* i is handed more of what was committed before this step, or nothing.
Learns(i) == Prefix(applied[i], applied'[i]) /\ Prefix(applied'[i], committed)

\* Some nodes learn.
Learn ==
    /\ UNCHANGED committed
    /\ \A i \in Node : Learns(i)

\* i commits, and goes through the whole log; the news reaches nobody yet.
Commit(i) ==
    /\ Prefix(committed, committed')
    /\ Prefix(applied[i], applied'[i]) /\ applied'[i] = committed'
    /\ \A j \in Node \ {i} : Learns(j)

Next == Learn \/ \E i \in Node : Commit(i)

Spec == Init /\ [][Next]_<<committed, applied>>
=============================================================================
