-------------------------------- MODULE Raft --------------------------------
(***************************************************************************)
(* The simplified Raft of node/consensus.py.  Nodes are objects in one     *)
(* process and an RPC is a direct call of the peer's method, so a call of a *)
(* public method of RaftNode, with every RPC it makes, is one step; what   *)
(* interleaves is the calls, crashes, recoveries and partitions.  The code *)
(* has no timers: its callers decide when start_election is called.        *)
(*                                                                         *)
(* Sequences start at 1 here.  An index k of the code is k + 1, and its -1 *)
(* ("nothing yet") is 0; commitIndex is so the number of committed entries.*)
(***************************************************************************)
EXTENDS Integers, Sequences, FiniteSets

CONSTANTS
    Node,       \* the nodes; every other node is a peer
    Message,    \* the payloads clients send
    None,       \* no vote given, no leader known
    MaxTerm,    \* bound: terms
    MaxLog,     \* bound: log entries of one node
    MaxFaulty   \* bound: nodes crashed, or with a partition of their own, at a time

ASSUME NodesAssumption == IsFiniteSet(Node) /\ Node # {} /\ None \notin Node
ASSUME BoundsAssumption == {MaxTerm, MaxLog, MaxFaulty} \subseteq Nat

VARIABLES
    node,           \* node[i]: the fields of RaftNode, see InitialNode
    active,         \* active[i]: FALSE between simulate_crash and recover
    partitionedFrom,\* partitionedFrom[i]: peers i does not talk to
    \* history, read by no action
    elected,        \* <<t, i>>: i won the election of term t
    forgotten,      \* terms in which a recovered node dropped a vote it gave
    unchecked       \* sync_from_leader committed past a rejected append

history == <<elected, forgotten, unchecked>>
vars == <<node, active, partitionedFrom, history>>

Peers(i) == Node \ {i}

\* Both ends must be willing: line 246, 375 and 469 test the two sets.
Reachable(i) ==
    {j \in Peers(i) : active[j] /\ j \notin partitionedFrom[i] /\ i \notin partitionedFrom[j]}

Majority(S) == 2 * Cardinality(S) > Cardinality(Node)

\* applied: the entries handed to replication.apply_committed_entry, in order;
\* last_applied is its length.
InitialNode ==
    [currentTerm |-> 0, votedFor |-> None, log |-> <<>>, commitIndex |-> 0,
     applied |-> <<>>, state |-> "FOLLOWER", leaderId |-> None,
     nextIndex |-> [j \in Node |-> 1], matchIndex |-> [j \in Node |-> 0]]

Init ==
    /\ node = [i \in Node |-> InitialNode]
    /\ active = [i \in Node |-> TRUE]
    /\ partitionedFrom = [i \in Node |-> {}]
    /\ elected = {} /\ forgotten = {} /\ unchecked = FALSE

TermAt(log, k) == IF k \in 1..Len(log) THEN log[k].term ELSE 0

MinOf(a, b) == IF a <= b THEN a ELSE b

-----------------------------------------------------------------------------
(* request_vote, on a node with fields r.  An operator whose name begins   *)
(* with Bad is a mutation of the one after it, used by no specification.   *)

BadUpToDate(r, lastIndex, lastTerm) == TRUE

\* Not worse than r's own log: a later last term, or as long with the same.
UpToDate(r, lastIndex, lastTerm) ==
    LET myTerm == TermAt(r.log, Len(r.log))
    IN \/ lastTerm > myTerm
       \/ lastTerm = myTerm /\ lastIndex >= Len(r.log)

\* A newer term makes r a follower that has not voted and knows no leader.
SeeTerm(r, term) ==
    IF term <= r.currentTerm THEN r
    ELSE [r EXCEPT !.currentTerm = term, !.state = "FOLLOWER",
                   !.votedFor = None, !.leaderId = None]

BadGrants(r, candidate, term, lastIndex, lastTerm) ==
    /\ term >= r.currentTerm
    /\ UpToDate(r, lastIndex, lastTerm)

Grants(r, candidate, term, lastIndex, lastTerm) ==
    /\ term >= r.currentTerm
    /\ SeeTerm(r, term).votedFor \in {None, candidate}
    /\ UpToDate(r, lastIndex, lastTerm)

RequestVote(r, candidate, term, lastIndex, lastTerm) ==
    IF Grants(r, candidate, term, lastIndex, lastTerm)
    THEN [SeeTerm(r, term) EXCEPT !.votedFor = candidate]
    ELSE SeeTerm(r, term)

-----------------------------------------------------------------------------
(* append_entries, on a node with fields r.                                *)

\* commit_index moves to n, never past the log, and _apply_committed_entries
\* hands over what is not applied yet.
CommitTo(r, n) ==
    [r EXCEPT !.commitIndex = n,
              !.applied = r.applied \o SubSeq(r.log, Len(r.applied) + 1, n)]

BadFollowCommit(r, leaderCommit) == CommitTo(r, MinOf(leaderCommit, Len(r.log)))

FollowCommit(r, leaderCommit) ==
    IF leaderCommit > r.commitIndex
    THEN CommitTo(r, MinOf(leaderCommit, Len(r.log)))
    ELSE r

Matches(log, prev, prevTerm) ==
    \/ prev = 0
    \/ prev <= Len(log) /\ log[prev].term = prevTerm

BadMergeLog(log, prev, entries) ==
    log \o SubSeq(entries, Len(log) - prev + 1, Len(entries))

\* Entries already there are skipped.  The first that conflicts is removed with
\* everything after it, and the rest is appended.
MergeLog(log, prev, entries) ==
    LET conflicts == {k \in prev + 1 .. MinOf(prev + Len(entries), Len(log)) :
                         log[k].term # entries[k - prev].term}
        keep == IF conflicts = {} THEN Len(log)
                ELSE (CHOOSE k \in conflicts : \A j \in conflicts : k <= j) - 1
    IN SubSeq(log, 1, keep) \o SubSeq(entries, keep - prev + 1, Len(entries))

Accepts(r, term, prev, prevTerm) ==
    term >= r.currentTerm /\ Matches(r.log, prev, prevTerm)

\* The sender is recognized before its entries are looked at; an entry at prev
\* of another term goes, with all that follow it.
AppendEntries(r, leader, term, prev, prevTerm, entries, leaderCommit) ==
    LET f == [r EXCEPT !.currentTerm = term, !.leaderId = leader, !.state = "FOLLOWER",
                       !.votedFor = IF term > r.currentTerm THEN None ELSE @]
    IN IF term < r.currentTerm THEN r
       ELSE IF Accepts(r, term, prev, prevTerm)
       THEN FollowCommit([f EXCEPT !.log = MergeLog(r.log, prev, entries)], leaderCommit)
       ELSE [f EXCEPT !.log = SubSeq(r.log, 1, MinOf(prev - 1, Len(r.log)))]

-----------------------------------------------------------------------------
(* _send_append_entries_to_peer: leader l, with id i, to the peer j with   *)
(* fields r.  The loop tries prev = nextIndex - 1 and goes down to the     *)
(* first one the peer accepts; what it makes the peer cut off on the way is*)
(* what MergeLog would replace.  A peer of a newer term refuses every try. *)

AgreeAt(l, r, j) ==
    LET agree == {k \in 1 .. MinOf(l.nextIndex[j] - 1, Len(r.log)) :
                     r.log[k].term = TermAt(l.log, k)}
    IN IF agree = {} THEN 0 ELSE CHOOSE k \in agree : \A h \in agree : k >= h

BadSendToPeer(l, i, r, j) ==
    LET prev == l.nextIndex[j] - 1
    IN AppendEntries(r, i, l.currentTerm, prev, TermAt(l.log, prev),
                     SubSeq(l.log, prev + 1, Len(l.log)), l.commitIndex)

SendToPeer(l, i, r, j) ==
    LET prev == AgreeAt(l, r, j)
    IN AppendEntries(r, i, l.currentTerm, prev, TermAt(l.log, prev),
                     SubSeq(l.log, prev + 1, Len(l.log)), l.commitIndex)

\* What the leader knows after having sent to each peer of S with fields n[j]:
\* match_index moves only if there were entries to send, next_index all the way
\* down if the peer refused.
AfterSending(l, S, n) ==
    LET refused == {j \in S : n[j].currentTerm > l.currentTerm}
        sent == {j \in S \ refused : AgreeAt(l, n[j], j) < Len(l.log)}
    IN [l EXCEPT
         !.nextIndex = [j \in Node |-> IF j \in refused THEN 1
                                       ELSE IF j \in S THEN Len(l.log) + 1 ELSE @[j]],
         !.matchIndex = [j \in Node |-> IF j \in sent THEN Len(l.log) ELSE @[j]]]

-----------------------------------------------------------------------------
(* The loop of _send_append_entries_to_peer itself, which no action uses:  *)
(* what SendToPeer and AfterSending are the closed form of.                *)

\* One try of the leader with id i on the peer j, from the state of the loop.
OneTry(s, i, j) ==
    LET l == s.leader
        prev == l.nextIndex[j] - 1
        entries == SubSeq(l.log, prev + 1, Len(l.log))
        accepted == Accepts(s.peer, l.currentTerm, prev, TermAt(l.log, prev))
    IN IF s.done THEN s
       ELSE [done |-> accepted \/ prev = 0,
             peer |-> AppendEntries(s.peer, i, l.currentTerm, prev, TermAt(l.log, prev),
                                    entries, l.commitIndex),
             leader |-> IF accepted /\ entries # <<>>
                        THEN [l EXCEPT !.nextIndex[j] = prev + Len(entries) + 1,
                                       !.matchIndex[j] = prev + Len(entries)]
                        ELSE IF accepted \/ prev = 0 THEN l
                        ELSE [l EXCEPT !.nextIndex[j] = prev]]

\* The loop ends within as many tries as nextIndex: after[n], after n of them.
SendLoop(l, i, r, j) ==
    LET after[n \in 0 .. l.nextIndex[j]] ==
            IF n = 0 THEN [leader |-> l, peer |-> r, done |-> FALSE]
            ELSE OneTry(after[n - 1], i, j)
    IN after[l.nextIndex[j]]

-----------------------------------------------------------------------------
(* start_election                                                          *)

LastTerm(r) == TermAt(r.log, Len(r.log))

Candidate(r, i) ==
    [r EXCEPT !.currentTerm = @ + 1, !.votedFor = i, !.state = "CANDIDATE"]

BadLeader(r, i) ==
    [r EXCEPT !.state = "LEADER", !.leaderId = i,
              !.nextIndex = [j \in Node |-> Len(r.log)],
              !.matchIndex = [j \in Node |-> 0]]

\* _become_leader, without the heartbeats.
Leader(r, i) ==
    [r EXCEPT !.state = "LEADER", !.leaderId = i,
              !.nextIndex = [j \in Node |-> Len(r.log) + 1],
              !.matchIndex = [j \in Node |-> 0]]

\* A heartbeat of the new leader l with id i: no entries, prev its whole log.
Heartbeat(l, i, r) ==
    AppendEntries(r, i, l.currentTerm, Len(l.log), LastTerm(l), <<>>, l.commitIndex)

\* The votes are counted after all peers were asked.  A follower is what remains
\* of a candidate without a majority.
StartElection(i) ==
    LET c == Candidate(node[i], i)
        asked == Reachable(i)
        granted == {j \in asked : Grants(node[j], i, c.currentTerm, Len(c.log), LastTerm(c))}
        voted == [j \in Node |->
                    IF j \in asked
                    THEN RequestVote(node[j], i, c.currentTerm, Len(c.log), LastTerm(c))
                    ELSE node[j]]
        l == Leader(c, i)
    IN /\ active[i]
       /\ c.currentTerm <= MaxTerm
       /\ \/ /\ Majority(granted \union {i})
             /\ node' = [j \in Node |-> IF j = i THEN l
                                        ELSE IF j \in asked THEN Heartbeat(l, i, voted[j])
                                        ELSE voted[j]]
             /\ elected' = elected \union {<<c.currentTerm, i>>}
          \/ /\ ~Majority(granted \union {i})
             /\ node' = [voted EXCEPT ![i] = [c EXCEPT !.state = "FOLLOWER"]]
             /\ UNCHANGED elected
       /\ UNCHANGED <<active, partitionedFrom, forgotten, unchecked>>

-----------------------------------------------------------------------------
(* receive_client_message                                                  *)

BadCommittable(l, i) ==
    {k \in l.commitIndex + 1 .. Len(l.log) :
        /\ l.log[k].term = l.currentTerm
        /\ Majority({i} \union {j \in Peers(i) : l.matchIndex[j] >= k - 1})}

\* commit_entries: the last entry of the leader's own term a majority has.
Committable(l, i) ==
    {k \in l.commitIndex + 1 .. Len(l.log) :
        /\ l.log[k].term = l.currentTerm
        /\ Majority({i} \union {j \in Peers(i) : l.matchIndex[j] >= k})}

BadCommitEntries(l, i) == CommitTo(l, Len(l.log))

CommitEntries(l, i) ==
    LET ready == Committable(l, i)
    IN IF ready = {} THEN l
       ELSE CommitTo(l, CHOOSE k \in ready : \A h \in ready : k >= h)

\* Append, replicate_log to every reachable peer, commit_entries.  The client is
\* told whether the commit index reached the end of the log.
ReceiveClientMessage(i, m) ==
    LET l == [node[i] EXCEPT !.log = Append(@, [term |-> node[i].currentTerm, message |-> m])]
        to == Reachable(i)
    IN /\ active[i]
       /\ node[i].state = "LEADER"
       /\ Len(l.log) <= MaxLog
       /\ node' = [j \in Node |-> IF j = i THEN CommitEntries(AfterSending(l, to, node), i)
                                  ELSE IF j \in to THEN SendToPeer(l, i, node[j], j)
                                  ELSE node[j]]
       /\ UNCHANGED <<active, partitionedFrom, history>>

-----------------------------------------------------------------------------
(* The helpers the tests drive a cluster with.                             *)

\* sync_from_leader(i, leader j), which looks at no partition.  The second part
\* trusts the leader's commit index whether or not i took its entries.
SyncFromLeader(i, j) ==
    LET l == node[j]
        r == SendToPeer(l, j, node[i], i)
    IN /\ i # j /\ active[i] /\ active[j]
       /\ l.state = "LEADER"
       /\ node' = [node EXCEPT ![i] = FollowCommit(r, l.commitIndex),
                               ![j] = AfterSending(l, {i}, node)]
       /\ unchecked' = (unchecked \/ /\ l.currentTerm < r.currentTerm
                                     /\ l.commitIndex > r.commitIndex)
       /\ UNCHANGED <<active, partitionedFrom, elected, forgotten>>

\* The bound on faults.
MayFail(i) ==
    Cardinality({j \in Peers(i) : ~active[j] \/ partitionedFrom[j] # {}}) < MaxFaulty

SimulateCrash(i) ==
    /\ active[i]
    /\ MayFail(i)
    /\ active' = [active EXCEPT ![i] = FALSE]
    /\ UNCHANGED <<node, partitionedFrom, history>>

\* The log and the term are kept, the vote is not; of a node that is active, too.
Recovered(r) == [r EXCEPT !.state = "FOLLOWER", !.leaderId = None, !.votedFor = None]

Recover(i) ==
    /\ active' = [active EXCEPT ![i] = TRUE]
    /\ node' = [node EXCEPT ![i] = Recovered(@)]
    /\ forgotten' = IF node[i].votedFor = None THEN forgotten
                    ELSE forgotten \union {node[i].currentTerm}
    /\ UNCHANGED <<partitionedFrom, elected, unchecked>>

PartitionFrom(i, others) ==
    /\ MayFail(i)
    /\ partitionedFrom' = [partitionedFrom EXCEPT ![i] = others]
    /\ UNCHANGED <<node, active, history>>

HealPartition(i) ==
    /\ partitionedFrom' = [partitionedFrom EXCEPT ![i] = {}]
    /\ UNCHANGED <<node, active, history>>

-----------------------------------------------------------------------------
Next ==
    \/ \E i \in Node : StartElection(i) \/ SimulateCrash(i) \/ Recover(i) \/ HealPartition(i)
    \/ \E i \in Node, m \in Message : ReceiveClientMessage(i, m)
    \/ \E i, j \in Node : SyncFromLeader(i, j)
    \/ \E i \in Node : \E others \in SUBSET Peers(i) : PartitionFrom(i, others)

Spec == Init /\ [][Next]_vars

-----------------------------------------------------------------------------
(* Properties.                                                             *)

Entry == [term : 0..MaxTerm, message : Message]

NodeRecord ==
    [currentTerm : 0..MaxTerm, votedFor : Node \union {None}, log : Seq(Entry),
     commitIndex : Nat, applied : Seq(Entry),
     state : {"FOLLOWER", "CANDIDATE", "LEADER"}, leaderId : Node \union {None},
     nextIndex : [Node -> Nat \ {0}], matchIndex : [Node -> Nat]]

\* The type invariant; the bounds of the logs and of the indices are part of it.
TypeOK ==
    /\ node \in [Node -> NodeRecord]
    /\ \A i \in Node : /\ Len(node[i].log) <= MaxLog
                       /\ node[i].commitIndex <= MaxLog
    /\ active \in [Node -> BOOLEAN]
    /\ partitionedFrom \in [Node -> SUBSET Node]
    /\ elected \subseteq (1..MaxTerm) \X Node
    /\ forgotten \subseteq 0..MaxTerm
    /\ unchecked \in BOOLEAN

\* No two nodes won the same term, and no commit index was taken over unchecked.
LeadersAreUnique == \A won, other \in elected : won[1] = other[1] => won = other

Sound == LeadersAreUnique /\ ~unchecked

Prefix(s, t) == Len(s) <= Len(t) /\ \A k \in 1..Len(s) : s[k] = t[k]

\* At most one node wins the election of a term (consensus.py:109-111), in any
\* interleaving of elections, crashes and partitions, as long as no node that
\* voted in that term recovered from a crash in it.
OneLeaderPerTerm ==
    \A t \in 1..MaxTerm : t \notin forgotten =>
        \A i, j \in Node : <<t, i>> \in elected /\ <<t, j>> \in elected => i = j

\* Two logs that have an entry of one term at one index are equal up to it.
LogMatching ==
    LeadersAreUnique =>
        \A i, j \in Node : \A k \in 1..MinOf(Len(node[i].log), Len(node[j].log)) :
            node[i].log[k].term = node[j].log[k].term
                => SubSeq(node[i].log, 1, k) = SubSeq(node[j].log, 1, k)

\* What any node has applied is in the log of every leader of that or a later
\* term, active or not: no election makes a leader that lacks a committed entry.
LeaderCompleteness ==
    Sound =>
        \A i, j \in Node :
            node[j].state = "LEADER" /\ node[j].currentTerm >= node[i].currentTerm
                => Prefix(node[i].applied, node[j].log)

\* The replication modules of any two nodes were handed the same entries in the
\* same order, one possibly behind the other.
StateMachineSafety ==
    Sound =>
        \A i, j \in Node :
            \/ Prefix(node[i].applied, node[j].applied)
            \/ Prefix(node[j].applied, node[i].applied)

\* What a node applied is in the logs of a majority, at the same index, active or
\* not: commit_entries counts no peer that lacks the entry (consensus.py:624-627),
\* and no later truncation thins the majority out.
CommittedOnMajority ==
    Sound =>
        \A i \in Node : \A k \in 1..Len(node[i].applied) :
            Majority({j \in Node : k <= Len(node[j].log) /\ node[j].log[k] = node[i].applied[k]})

\* No truncation takes back what was applied, and last_applied is commit_index.
AppliedIsLogged ==
    Sound =>
        \A i \in Node :
            /\ node[i].commitIndex = Len(node[i].applied)
            /\ Prefix(node[i].applied, node[i].log)

\* The backtracking loop (consensus.py:490-525) ends within nextIndex tries, and
\* what it leaves the peer and the leader with, after all it cut off on the way,
\* is what the one append at the point of agreement leaves: for every leader and
\* peer, from wherever nextIndex may stand, with and without a new entry.
SendToPeerIsTheLoop ==
    \A i \in Node : node[i].state = "LEADER" =>
        LET longer == {Append(node[i].log, [term |-> node[i].currentTerm, message |-> m]) :
                           m \in Message}
        IN \A j \in Peers(i), log \in {node[i].log} \union longer :
             \A k \in 1 .. Len(log) + 1 :
                LET l == [node[i] EXCEPT !.log = log, !.nextIndex[j] = k]
                IN SendLoop(l, i, node[j], j)
                     = [leader |-> AfterSending(l, {j}, node),
                        peer |-> SendToPeer(l, i, node[j], j), done |-> TRUE]

\* What commit_entries counts (consensus.py:624-627) is so: a peer that a leader has
\* a match_index for has reached the leader's term and, until it sees a newer one,
\* holds the leader's entries up to that index, whatever earlier leaders sent or cut
\* before and in between, and whoever crashed.  A deposed leader's count may be stale.
MatchIndexIsHeld ==
    LeadersAreUnique =>
        \A i, j \in Node : node[i].state = "LEADER" /\ node[i].matchIndex[j] > 0 =>
            /\ node[j].currentTerm >= node[i].currentTerm
            /\ node[j].currentTerm = node[i].currentTerm =>
                 \A k \in 1..node[i].matchIndex[j] :
                     k <= Len(node[j].log) /\ node[j].log[k] = node[i].log[k]

Applied == [i \in Node |-> node[i].applied]

\* The committed log is the longest that was applied.
Committed ==
    LET longest == CHOOSE i \in Node : \A j \in Node :
                       Len(node[j].applied) <= Len(node[i].applied)
    IN node[longest].applied

Log == INSTANCE ReplicatedLog WITH applied <- Applied, committed <- Committed

\* Through elections, crashes and partitions the layer implements the one growing
\* log of ReplicatedLog: every step commits at the end of it or lets nodes follow
\* (consensus.py:653-678), and none rewrites what any node was handed, ever.
ImplementsLog == Log!Init /\ [][Sound' => Log!Next]_Applied

\* consensus.py:109-111: a node votes for at most one candidate per term, so at
\* most one leader wins per term.  Without the proviso of OneLeaderPerTerm.
ElectionSafety == LeadersAreUnique
=============================================================================
