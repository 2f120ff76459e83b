----------------------------- MODULE RaftProofs -----------------------------
(***************************************************************************)
(* Proofs about Raft: the type invariant, that the elections of a term have*)
(* one winner as long as no vote of that term is forgotten, and that the   *)
(* loop which walks nextIndex back is the one append of SendToPeer.  The   *)
(* handlers are operators on the fields of one node, so the argument is    *)
(* made once per operator: it keeps the fields well formed (NodeOK), and   *)
(* its node never goes back to an older term nor changes a vote (Ahead).   *)
(***************************************************************************)
EXTENDS Raft, FiniteSetTheorems, SequenceTheorems,
        WellFoundedInduction, TLAPS

NodeOK(r) == r \in NodeRecord /\ Len(r.log) <= MaxLog /\ r.commitIndex <= MaxLog

\* s is what became of r: in a later term, or in the same with the same vote.
Ahead(r, s) ==
    \/ s.currentTerm > r.currentTerm
    \/ s.currentTerm = r.currentTerm /\ r.votedFor \in {None, s.votedFor}

LEMMA ConstantsOK == MaxTerm \in Nat /\ MaxLog \in Nat
BY BoundsAssumption DEF BoundsAssumption

LEMMA AheadIsTransitive ==
    ASSUME NEW r \in NodeRecord, NEW s \in NodeRecord, NEW t \in NodeRecord,
           Ahead(r, s), Ahead(s, t)
    PROVE  Ahead(r, t)
BY SMTT(20) DEF Ahead, NodeRecord

-----------------------------------------------------------------------------
(* The least and the greatest of a set of indices; sequences.              *)

LEMMA LeastIndex ==
    ASSUME NEW S, S \subseteq Nat, S # {}
    PROVE  \E k \in S : \A j \in S : k <= j
<1> DEFINE R == OpToRel(<, Nat)
<1>1. IsWellFoundedOn(R, Nat)
  BY NatLessThanWellFounded
<1>2. \A x \in Nat, y \in Nat : y < x => <<y, x>> \in R
  BY DEF OpToRel
<1> HIDE DEF R
<1>3. PICK k \in S : \A j \in S : <<j, k>> \notin R
  BY <1>1, WFMin
<1>4. ASSUME NEW j \in S PROVE k <= j
  <2>1. k \in Nat /\ j \in Nat /\ ~(j < k)
    BY <1>2, <1>3
  <2>2. QED
    BY <2>1
<1>5. QED
  BY <1>4

LEMMA GreatestIndex ==
    ASSUME NEW m \in Nat, NEW S, S \subseteq 0..m, S # {}
    PROVE  \E k \in S : \A j \in S : k >= j
<1> DEFINE T == {m - k : k \in S}
<1>1. T \subseteq Nat /\ T # {}
  <2>1. ASSUME NEW k \in S PROVE m - k \in Nat
    <3>1. k \in 0..m
      OBVIOUS
    <3>2. QED
      BY <3>1
  <2>2. QED
    BY <2>1
<1>2. PICK x \in T : \A y \in T : x <= y
  <2> HIDE DEF T
  <2>1. QED
    BY <1>1, LeastIndex
<1>3. PICK k \in S : x = m - k
  BY <1>2
<1>4. \A j \in S : m - k <= m - j
  BY <1>2, <1>3
<1>5. ASSUME NEW j \in S PROVE k >= j
  <2>1. k \in 0..m /\ j \in 0..m /\ m - k <= m - j
    BY <1>4
  <2>2. QED
    BY <2>1
<1>6. QED
  BY <1>5

LEMMA SubSeqType ==
    ASSUME NEW S, NEW s \in Seq(S), NEW m \in Nat \ {0}, NEW n \in Nat, n <= Len(s)
    PROVE  /\ SubSeq(s, m, n) \in Seq(S)
           /\ Len(SubSeq(s, m, n)) = IF m <= n THEN n - m + 1 ELSE 0
BY SubSeqProperties, LenProperties

LEMMA MinOfType ==
    ASSUME NEW a \in Int, NEW b \in Int
    PROVE  MinOf(a, b) \in {a, b} /\ MinOf(a, b) <= a /\ MinOf(a, b) <= b
BY DEF MinOf

\* A merged log is as long as the old one, or ends with the entries sent.
LEMMA MergeLogType ==
    ASSUME NEW log \in Seq(Entry), NEW entries \in Seq(Entry),
           NEW prev \in Nat, prev <= Len(log)
    PROVE  /\ MergeLog(log, prev, entries) \in Seq(Entry)
           /\ \/ Len(MergeLog(log, prev, entries)) = Len(log)
              \/ Len(MergeLog(log, prev, entries)) = prev + Len(entries)
<1> DEFINE last == MinOf(prev + Len(entries), Len(log))
           conflicts == {k \in prev + 1 .. last : log[k].term # entries[k - prev].term}
           keep == IF conflicts = {} THEN Len(log)
                   ELSE (CHOOSE k \in conflicts : \A j \in conflicts : k <= j) - 1
<1>1. Len(log) \in Nat /\ Len(entries) \in Nat
  BY LenProperties
<1>2. last \in Nat /\ last <= prev + Len(entries) /\ last <= Len(log)
  BY <1>1, MinOfType
<1> HIDE DEF last
<1>3. conflicts # {} => \E k \in conflicts : \A j \in conflicts : k <= j
  <2>1. conflicts \subseteq Nat
    BY <1>2
  <2> HIDE DEF conflicts
  <2>2. QED
    BY <2>1, LeastIndex
<1>4. conflicts # {} => keep \in prev .. last - 1
  <2> DEFINE least == CHOOSE k \in conflicts : \A j \in conflicts : k <= j
  <2>1. conflicts \subseteq prev + 1 .. last
    OBVIOUS
  <2>2. SUFFICES ASSUME conflicts # {} PROVE least - 1 \in prev .. last - 1
    OBVIOUS
  <2>3. least \in conflicts
    BY <1>3, <2>2
  <2> HIDE DEF least, conflicts
  <2>4. QED
    BY <1>2, <2>1, <2>3
<1> HIDE DEF conflicts
<1>5. keep \in prev .. Len(log) /\ (keep = Len(log) \/ keep < prev + Len(entries))
  BY <1>1, <1>2, <1>4
<1>6. MergeLog(log, prev, entries)
        = SubSeq(log, 1, keep) \o SubSeq(entries, keep - prev + 1, Len(entries))
  BY DEF MergeLog, conflicts, last
<1> HIDE DEF keep
<1>7. SubSeq(log, 1, keep) \in Seq(Entry) /\ Len(SubSeq(log, 1, keep)) = keep
  BY <1>1, <1>5, SubSeqType
<1> DEFINE start == keep - prev + 1
           rest == SubSeq(entries, start, Len(entries))
<1>8. /\ rest \in Seq(Entry)
      /\ Len(rest) = IF start <= Len(entries) THEN Len(entries) - start + 1 ELSE 0
  <2>1. start \in Nat \ {0}
    BY <1>1, <1>5
  <2> HIDE DEF start
  <2>2. QED
    BY <1>1, <2>1, SubSeqType
<1> HIDE DEF rest
<1>9. /\ SubSeq(log, 1, keep) \o rest \in Seq(Entry)
      /\ Len(SubSeq(log, 1, keep) \o rest) = keep + Len(rest)
  BY <1>7, <1>8, ConcatProperties
<1>10. MergeLog(log, prev, entries) = SubSeq(log, 1, keep) \o rest
  BY <1>6 DEF rest
<1>11. keep + Len(rest) \in {Len(log), prev + Len(entries)}
  BY <1>1, <1>5, <1>8
<1>12. QED
  BY <1>9, <1>10, <1>11

-----------------------------------------------------------------------------
(* The handlers keep a node well formed and ahead of what it was.          *)

LEMMA SeeTermOK ==
    ASSUME NEW r, NodeOK(r), NEW t \in 0..MaxTerm
    PROVE  /\ NodeOK(SeeTerm(r, t)) /\ Ahead(r, SeeTerm(r, t))
           /\ t >= r.currentTerm => SeeTerm(r, t).currentTerm = t
<1> USE DEF NodeOK, NodeRecord, Ahead
<1>1. CASE t <= r.currentTerm
  BY <1>1, ConstantsOK DEF SeeTerm
<1>2. CASE t > r.currentTerm
  <2>1. SeeTerm(r, t) = [r EXCEPT !.currentTerm = t, !.state = "FOLLOWER",
                                  !.votedFor = None, !.leaderId = None]
    BY <1>2, ConstantsOK DEF SeeTerm
  <2>2. QED
    BY <1>2, <2>1, ConstantsOK
<1>3. QED
  BY <1>1, <1>2, ConstantsOK

LEMMA RequestVoteOK ==
    ASSUME NEW r, NodeOK(r), NEW i \in Node, NEW t \in 0..MaxTerm, NEW x, NEW y
    PROVE  /\ NodeOK(RequestVote(r, i, t, x, y)) /\ Ahead(r, RequestVote(r, i, t, x, y))
           /\ Grants(r, i, t, x, y) => /\ RequestVote(r, i, t, x, y).currentTerm = t
                                       /\ RequestVote(r, i, t, x, y).votedFor = i
<1> DEFINE s == SeeTerm(r, t)
<1>1. /\ NodeOK(s) /\ Ahead(r, s)
      /\ t >= r.currentTerm => s.currentTerm = t
  BY SeeTermOK
<1>2. Grants(r, i, t, x, y) => t >= r.currentTerm /\ s.votedFor \in {None, i}
  BY DEF Grants
<1>3. RequestVote(r, i, t, x, y)
        = IF Grants(r, i, t, x, y) THEN [s EXCEPT !.votedFor = i] ELSE s
  BY DEF RequestVote
<1> HIDE DEF s
<1>4. CASE ~Grants(r, i, t, x, y)
  BY <1>1, <1>3, <1>4
<1>5. CASE Grants(r, i, t, x, y)
  <2> DEFINE v == [s EXCEPT !.votedFor = i]
  <2>1. /\ NodeOK(v) /\ v.currentTerm = s.currentTerm /\ v.votedFor = i
    BY <1>1 DEF NodeOK, NodeRecord
  <2>2. s.currentTerm = t /\ s.votedFor \in {None, i} /\ i # None
    BY <1>1, <1>2, <1>5, NodesAssumption DEF NodesAssumption
  <2> HIDE DEF v
  <2>3. Ahead(r, v)
    BY <1>1, <2>1, <2>2 DEF Ahead
  <2>4. QED
    BY <1>3, <1>5, <2>1, <2>2, <2>3 DEF v
<1>6. QED
  BY <1>4, <1>5

LEMMA CommitToOK ==
    ASSUME NEW r, NodeOK(r), NEW n \in Nat, n <= Len(r.log)
    PROVE  /\ NodeOK(CommitTo(r, n)) /\ Ahead(r, CommitTo(r, n))
           /\ CommitTo(r, n).currentTerm = r.currentTerm
           /\ CommitTo(r, n).votedFor = r.votedFor
<1> DEFINE more == SubSeq(r.log, Len(r.applied) + 1, n)
<1>1. r.log \in Seq(Entry) /\ r.applied \in Seq(Entry)
  BY DEF NodeOK, NodeRecord
<1>2. more \in Seq(Entry)
  <2>1. Len(r.applied) + 1 \in Nat \ {0}
    BY <1>1, LenProperties
  <2>2. QED
    BY <1>1, <2>1, SubSeqType
<1> DEFINE all == r.applied \o more
<1>3. CommitTo(r, n) = [r EXCEPT !.commitIndex = n, !.applied = all]
  BY DEF CommitTo
<1> HIDE DEF more
<1>4. all \in Seq(Entry)
  BY <1>1, <1>2, ConcatProperties
<1>5. Len(r.log) \in Nat
  BY <1>1, LenProperties
<1> DEFINE s == CommitTo(r, n)
<1> HIDE DEF all
<1>6. /\ s.currentTerm = r.currentTerm /\ s.votedFor = r.votedFor
      /\ s.commitIndex = n /\ s.log = r.log /\ s \in NodeRecord
  BY <1>3, <1>4 DEF NodeOK, NodeRecord
<1> HIDE DEF s
<1>7. n <= MaxLog
  BY <1>5, ConstantsOK DEF NodeOK
<1>8. NodeOK(s) /\ Ahead(r, s)
  BY <1>6, <1>7 DEF NodeOK, Ahead
<1>9. QED
  BY <1>6, <1>8 DEF s

LEMMA FollowCommitOK ==
    ASSUME NEW r, NodeOK(r), NEW c \in Nat
    PROVE  /\ NodeOK(FollowCommit(r, c)) /\ Ahead(r, FollowCommit(r, c))
           /\ FollowCommit(r, c).currentTerm = r.currentTerm
           /\ FollowCommit(r, c).votedFor = r.votedFor
<1> DEFINE n == MinOf(c, Len(r.log))
<1>1. Len(r.log) \in Nat
  BY LenProperties DEF NodeOK, NodeRecord
<1>2. n \in Nat /\ n <= Len(r.log)
  BY <1>1, MinOfType
<1>3. FollowCommit(r, c) = IF c > r.commitIndex THEN CommitTo(r, n) ELSE r
  BY DEF FollowCommit
<1> HIDE DEF n
<1>4. Ahead(r, r)
  BY DEF Ahead, NodeOK, NodeRecord
<1>5. QED
  BY <1>2, <1>3, <1>4, CommitToOK

\* What append_entries is called with: prev is the index before the entries.
LEMMA AppendEntriesOK ==
    ASSUME NEW r, NodeOK(r), NEW i \in Node, NEW t \in 0..MaxTerm, NEW prev \in Nat,
           NEW prevTerm, NEW entries \in Seq(Entry), NEW c \in Nat,
           entries = <<>> \/ prev + Len(entries) <= MaxLog
    PROVE  /\ NodeOK(AppendEntries(r, i, t, prev, prevTerm, entries, c))
           /\ Ahead(r, AppendEntries(r, i, t, prev, prevTerm, entries, c))
<1> DEFINE a == AppendEntries(r, i, t, prev, prevTerm, entries, c)
           f == [r EXCEPT !.currentTerm = t, !.leaderId = i, !.state = "FOLLOWER",
                          !.votedFor = IF t > r.currentTerm THEN None ELSE @]
<1>1. r.log \in Seq(Entry) /\ Len(r.log) \in Nat /\ Len(r.log) <= MaxLog
  BY LenProperties DEF NodeOK, NodeRecord
<1>0. t \in Nat /\ r.currentTerm \in Nat
  BY ConstantsOK DEF NodeOK, NodeRecord
<1>2. CASE t < r.currentTerm
  <2>1. a = r
    BY <1>2 DEF AppendEntries
  <2>2. Ahead(r, r)
    BY DEF Ahead, NodeOK, NodeRecord
  <2>3. QED
    BY <2>1, <2>2
<1>3. ASSUME NEW log \in Seq(Entry), Len(log) <= MaxLog, t >= r.currentTerm
      PROVE  NodeOK([f EXCEPT !.log = log]) /\ Ahead(r, [f EXCEPT !.log = log])
  <2> DEFINE v == IF t > r.currentTerm THEN None ELSE r.votedFor
  <2>1. [f EXCEPT !.log = log] = [r EXCEPT !.currentTerm = t, !.leaderId = i,
                                           !.state = "FOLLOWER", !.votedFor = v, !.log = log]
    BY DEF NodeOK, NodeRecord
  <2>2. v \in Node \union {None} /\ (t = r.currentTerm => v = r.votedFor)
    BY ConstantsOK DEF NodeOK, NodeRecord
  <2> DEFINE g == [f EXCEPT !.log = log]
  <2> HIDE DEF v, f
  <2>3. /\ g.currentTerm = t /\ g.votedFor = v /\ g.log = log
        /\ g.commitIndex = r.commitIndex /\ g \in NodeRecord
    BY <1>3, <2>1, <2>2 DEF NodeOK, NodeRecord
  <2> HIDE DEF g
  <2>4. NodeOK(g)
    BY <1>3, <2>3 DEF NodeOK
  <2>5. Ahead(r, g)
    BY <1>0, <1>3, <2>2, <2>3 DEF Ahead
  <2>6. QED
    BY <2>4, <2>5 DEF g
<1>4. CASE t >= r.currentTerm /\ Accepts(r, t, prev, prevTerm)
  <2> DEFINE log == MergeLog(r.log, prev, entries)
             g == [f EXCEPT !.log = log]
  <2>1. prev <= Len(r.log)
    BY <1>1, <1>4 DEF Accepts, Matches
  <2>2. log \in Seq(Entry) /\ Len(log) <= MaxLog
    <3>1. /\ log \in Seq(Entry)
          /\ Len(log) = Len(r.log) \/ Len(log) = prev + Len(entries)
      BY <1>1, <2>1, MergeLogType
    <3>2. entries = <<>> => Len(entries) = 0
      BY EmptySeq
    <3> HIDE DEF log
    <3>3. QED
      BY <1>1, <2>1, <3>1, <3>2, ConstantsOK
  <2>3. ~(t < r.currentTerm)
    BY <1>4, ConstantsOK DEF NodeOK, NodeRecord
  <2>4. a = FollowCommit(g, c)
    BY <1>4, <2>3 DEF AppendEntries
  <2> HIDE DEF log, f, a
  <2>5. NodeOK(g) /\ Ahead(r, g)
    BY <1>3, <1>4, <2>2
  <2> HIDE DEF g
  <2>6. NodeOK(a) /\ Ahead(g, a)
    BY <2>4, <2>5, FollowCommitOK
  <2>7. QED
    BY <2>5, <2>6, AheadIsTransitive DEF NodeOK, a
<1>5. CASE t >= r.currentTerm /\ ~Accepts(r, t, prev, prevTerm)
  <2> DEFINE log == SubSeq(r.log, 1, MinOf(prev - 1, Len(r.log)))
  <2>1. prev - 1 \in Nat
    BY <1>5 DEF Accepts, Matches
  <2>2. MinOf(prev - 1, Len(r.log)) \in Nat /\ MinOf(prev - 1, Len(r.log)) <= Len(r.log)
    BY <1>1, <2>1, MinOfType
  <2>3. log \in Seq(Entry) /\ Len(log) <= MaxLog
    <3> DEFINE n == MinOf(prev - 1, Len(r.log))
    <3> HIDE DEF n
    <3>1. n \in Nat /\ n <= Len(r.log)
      BY <2>2 DEF n
    <3>2. SubSeq(r.log, 1, n) \in Seq(Entry) /\ Len(SubSeq(r.log, 1, n)) <= Len(r.log)
      BY <1>1, <3>1, SubSeqType
    <3>3. log = SubSeq(r.log, 1, n)
      BY DEF n
    <3> HIDE DEF log
    <3>4. QED
      BY <1>1, <3>2, <3>3, LenProperties, ConstantsOK
  <2>4. ~(t < r.currentTerm)
    BY <1>5, ConstantsOK DEF NodeOK, NodeRecord
  <2>5. a = [f EXCEPT !.log = log]
    BY <1>5, <2>4 DEF AppendEntries
  <2> HIDE DEF log, f, a
  <2>6. QED
    BY <1>3, <1>5, <2>3, <2>5 DEF a
<1>6. QED
  BY <1>0, <1>2, <1>4, <1>5

-----------------------------------------------------------------------------
(* The leader's side.                                                      *)

LEMMA AgreeAtType ==
    ASSUME NEW l, NodeOK(l), NEW r, NodeOK(r), NEW j \in Node
    PROVE  AgreeAt(l, r, j) \in Nat
<1> DEFINE last == MinOf(l.nextIndex[j] - 1, Len(r.log))
           agree == {k \in 1 .. last : r.log[k].term = TermAt(l.log, k)}
           top == CHOOSE k \in agree : \A h \in agree : k >= h
<1>1. Len(r.log) \in Nat /\ l.nextIndex[j] \in Nat
  BY LenProperties DEF NodeOK, NodeRecord
<1>2. last \in Int /\ last <= Len(r.log)
  BY <1>1, MinOfType
<1>3. AgreeAt(l, r, j) = IF agree = {} THEN 0 ELSE top
  BY DEF AgreeAt
<1> HIDE DEF last
<1>4. agree \subseteq 0 .. Len(r.log)
  BY <1>1, <1>2
<1> HIDE DEF agree
<1>5. agree # {} => top \in agree
  BY <1>1, <1>4, GreatestIndex
<1> HIDE DEF top
<1>6. CASE agree = {}
  BY <1>3, <1>6
<1>7. CASE agree # {}
  <2>1. top \in 0 .. Len(r.log)
    BY <1>4, <1>5, <1>7
  <2>2. QED
    BY <1>1, <1>3, <1>7, <2>1
<1>8. QED
  BY <1>6, <1>7

LEMMA SendToPeerOK ==
    ASSUME NEW l, NodeOK(l), NEW r, NodeOK(r), NEW i \in Node, NEW j \in Node
    PROVE  NodeOK(SendToPeer(l, i, r, j)) /\ Ahead(r, SendToPeer(l, i, r, j))
<1> DEFINE prev == AgreeAt(l, r, j)
           entries == SubSeq(l.log, prev + 1, Len(l.log))
<1>1. /\ prev \in Nat /\ l.log \in Seq(Entry) /\ Len(l.log) \in Nat
      /\ Len(l.log) <= MaxLog
  BY AgreeAtType, LenProperties DEF NodeOK, NodeRecord
<1>2. SendToPeer(l, i, r, j) = AppendEntries(r, i, l.currentTerm, prev, TermAt(l.log, prev),
                                             entries, l.commitIndex)
  BY DEF SendToPeer
<1> HIDE DEF prev
<1>3. /\ entries \in Seq(Entry)
      /\ Len(entries) = IF prev + 1 <= Len(l.log) THEN Len(l.log) - (prev + 1) + 1 ELSE 0
  <2> DEFINE start == prev + 1
  <2>1. start \in Nat \ {0}
    BY <1>1
  <2> HIDE DEF start
  <2>2. /\ SubSeq(l.log, start, Len(l.log)) \in Seq(Entry)
        /\ Len(SubSeq(l.log, start, Len(l.log)))
             = IF start <= Len(l.log) THEN Len(l.log) - start + 1 ELSE 0
    BY <1>1, <2>1, SubSeqType
  <2>3. QED
    BY <2>2 DEF start
<1> HIDE DEF entries
<1>4. entries = <<>> \/ prev + Len(entries) <= MaxLog
  <2>1. entries # <<>> => Len(entries) # 0
    BY <1>3, EmptySeq
  <2>2. QED
    BY <1>1, <1>3, <2>1, ConstantsOK
<1>5. l.currentTerm \in 0..MaxTerm /\ l.commitIndex \in Nat
  BY DEF NodeOK, NodeRecord
<1>6. QED
  BY <1>1, <1>2, <1>3, <1>4, <1>5, AppendEntriesOK

LEMMA HeartbeatOK ==
    ASSUME NEW l, NodeOK(l), NEW r, NodeOK(r), NEW i \in Node
    PROVE  NodeOK(Heartbeat(l, i, r)) /\ Ahead(r, Heartbeat(l, i, r))
<1>1. /\ Len(l.log) \in Nat /\ l.currentTerm \in 0..MaxTerm /\ l.commitIndex \in Nat
      /\ <<>> \in Seq(Entry)
  BY LenProperties, EmptySeq DEF NodeOK, NodeRecord
<1>2. QED
  BY <1>1, AppendEntriesOK DEF Heartbeat

\* What a candidate or a leader does to itself keeps its term and its vote.
SameVote(r, s) == s.currentTerm = r.currentTerm /\ s.votedFor = r.votedFor

LEMMA CandidateOK ==
    ASSUME NEW r, NodeOK(r), NEW i \in Node, r.currentTerm + 1 <= MaxTerm
    PROVE  /\ NodeOK(Candidate(r, i)) /\ Ahead(r, Candidate(r, i))
           /\ Candidate(r, i).currentTerm = r.currentTerm + 1
           /\ Candidate(r, i).votedFor = i
<1> DEFINE t == r.currentTerm + 1
           c == Candidate(r, i)
<1>1. t \in 0..MaxTerm /\ t > r.currentTerm
  BY ConstantsOK DEF NodeOK, NodeRecord
<1>2. c = [r EXCEPT !.currentTerm = t, !.votedFor = i, !.state = "CANDIDATE"]
  BY DEF Candidate
<1> HIDE DEF t, c
<1>3. /\ c.currentTerm = t /\ c.votedFor = i /\ c.log = r.log
      /\ c.commitIndex = r.commitIndex /\ c \in NodeRecord
  BY <1>1, <1>2 DEF NodeOK, NodeRecord
<1>4. QED
  BY <1>1, <1>3 DEF NodeOK, Ahead, c, t

LEMMA LeaderOK ==
    ASSUME NEW r, NodeOK(r), NEW i \in Node
    PROVE  NodeOK(Leader(r, i)) /\ SameVote(r, Leader(r, i))
<1> DEFINE first == [j \in Node |-> Len(r.log) + 1]
           none == [j \in Node |-> 0]
<1>1. first \in [Node -> Nat \ {0}] /\ none \in [Node -> Nat]
  BY LenProperties DEF NodeOK, NodeRecord
<1>2. Leader(r, i) = [r EXCEPT !.state = "LEADER", !.leaderId = i,
                               !.nextIndex = first, !.matchIndex = none]
  BY DEF Leader
<1> HIDE DEF first, none
<1>3. QED
  BY <1>1, <1>2 DEF NodeOK, NodeRecord, SameVote

LEMMA CommitEntriesOK ==
    ASSUME NEW l, NodeOK(l), NEW i \in Node
    PROVE  NodeOK(CommitEntries(l, i)) /\ SameVote(l, CommitEntries(l, i))
<1> DEFINE ready == Committable(l, i)
           top == CHOOSE k \in ready : \A h \in ready : k >= h
<1>1. Len(l.log) \in Nat /\ l.commitIndex \in Nat
  BY LenProperties DEF NodeOK, NodeRecord
<1>2. ready \subseteq 0 .. Len(l.log)
  BY <1>1 DEF Committable
<1>3. CommitEntries(l, i) = IF ready = {} THEN l ELSE CommitTo(l, top)
  BY DEF CommitEntries
<1> HIDE DEF ready
<1>4. ready # {} => top \in ready
  BY <1>1, <1>2, GreatestIndex
<1> HIDE DEF top
<1>5. CASE ready = {}
  BY <1>3, <1>5 DEF SameVote
<1>6. CASE ready # {}
  <2>1. top \in 0 .. Len(l.log)
    BY <1>2, <1>4, <1>6
  <2>2. top \in Nat /\ top <= Len(l.log)
    BY <1>1, <2>1
  <2>3. CommitEntries(l, i) = CommitTo(l, top)
    BY <1>3, <1>6
  <2>4. QED
    BY <2>2, <2>3, CommitToOK DEF SameVote
<1>7. QED
  BY <1>5, <1>6

LEMMA AfterSendingOK ==
    ASSUME NEW l, NodeOK(l), NEW S, NEW n
    PROVE  NodeOK(AfterSending(l, S, n)) /\ SameVote(l, AfterSending(l, S, n))
<1> DEFINE refused == {j \in S : n[j].currentTerm > l.currentTerm}
           sent == {j \in S \ refused : AgreeAt(l, n[j], j) < Len(l.log)}
           next == [j \in Node |-> IF j \in refused THEN 1
                                   ELSE IF j \in S THEN Len(l.log) + 1 ELSE l.nextIndex[j]]
           match == [j \in Node |-> IF j \in sent THEN Len(l.log) ELSE l.matchIndex[j]]
<1>1. AfterSending(l, S, n) = [l EXCEPT !.nextIndex = next, !.matchIndex = match]
  BY DEF AfterSending
<1> HIDE DEF refused, sent
<1>2. next \in [Node -> Nat \ {0}] /\ match \in [Node -> Nat]
  BY LenProperties DEF NodeOK, NodeRecord
<1> HIDE DEF next, match
<1>3. QED
  BY <1>1, <1>2 DEF NodeOK, NodeRecord, SameVote

LEMMA RecoveredOK ==
    ASSUME NEW r, NodeOK(r)
    PROVE  /\ NodeOK(Recovered(r)) /\ Recovered(r).currentTerm = r.currentTerm
           /\ Recovered(r).votedFor = None
BY DEF NodeOK, NodeRecord, Recovered

-----------------------------------------------------------------------------
(* Steps.                                                                  *)

NodesOK == node \in [Node -> NodeRecord] /\ \A k \in Node : NodeOK(node[k])

LEMMA TypeIsNodesOK ==
    TypeOK <=> /\ NodesOK
               /\ active \in [Node -> BOOLEAN]
               /\ partitionedFrom \in [Node -> SUBSET Node]
               /\ elected \subseteq (1..MaxTerm) \X Node
               /\ forgotten \subseteq 0..MaxTerm
               /\ unchecked \in BOOLEAN
BY DEF TypeOK, NodesOK, NodeOK

LEMMA AheadOfItself == ASSUME NEW r, NodeOK(r) PROVE Ahead(r, r)
BY DEF Ahead, NodeOK, NodeRecord

LEMMA SameVoteIsAhead ==
    ASSUME NEW r, NodeOK(r), NEW s, SameVote(r, s) PROVE Ahead(r, s)
BY DEF Ahead, SameVote, NodeOK, NodeRecord

\* Node k backs the winner i of term t: it voted for i, or has moved on.
Backs(r, t, i) == r.currentTerm > t \/ (r.currentTerm = t /\ r.votedFor = i)

\* An election leaves every node ahead; if it is won, a majority that had not
\* voted for another in that term backs the winner.
LEMMA ElectionStep ==
    ASSUME NodesOK, NEW i \in Node, StartElection(i)
    PROVE  /\ NodesOK' /\ \A k \in Node : Ahead(node[k], node'[k])
           /\ \/ UNCHANGED elected
              \/ /\ elected' = elected \union {<<node[i].currentTerm + 1, i>>}
                 /\ node[i].currentTerm + 1 \in 1..MaxTerm
                 /\ \E Q \in SUBSET Node : Majority(Q) /\ \A k \in Q :
                      /\ node[k].currentTerm <= node[i].currentTerm + 1
                      /\ node[k].currentTerm = node[i].currentTerm + 1
                           => node[k].votedFor \in {None, i}
                      /\ Backs(node'[k], node[i].currentTerm + 1, i)
<1> DEFINE T == node[i].currentTerm + 1
           c == Candidate(node[i], i)
           asked == Reachable(i)
           Says(k) == Grants(node[k], i, c.currentTerm, Len(c.log), LastTerm(c))
           Votes(k) == RequestVote(node[k], i, c.currentTerm, Len(c.log), LastTerm(c))
           granted == {j \in asked : Says(j)}
           voted == [j \in Node |-> IF j \in asked THEN Votes(j) ELSE node[j]]
           l == Leader(c, i)
<1>1. asked \subseteq Node \ {i}
  BY DEF Reachable, Peers
<1>2. \A k \in Node : NodeOK(node[k]) /\ node[k].currentTerm \in Nat
  BY DEF NodesOK, NodeOK, NodeRecord
<1>3. c.currentTerm <= MaxTerm
  BY DEF StartElection
<1>4. c.currentTerm = T
  BY <1>2 DEF Candidate, NodeOK, NodeRecord
<1>5. NodeOK(c) /\ Ahead(node[i], c) /\ c.votedFor = i
  BY <1>2, <1>3, <1>4, CandidateOK
<1>6. NodeOK(l) /\ Ahead(node[i], l) /\ l.currentTerm = T /\ l.votedFor = i
  <2>1. NodeOK(l) /\ SameVote(c, l)
    BY <1>5, LeaderOK
  <2> HIDE DEF l, c
  <2>2. QED
    BY <1>4, <1>5, <2>1 DEF SameVote, Ahead
<1>7. T \in 1..MaxTerm /\ T \in 0..MaxTerm
  BY <1>2, <1>3, <1>4, ConstantsOK
<1>8. ASSUME NEW k \in Node
      PROVE  /\ NodeOK(voted[k]) /\ Ahead(node[k], voted[k])
             /\ k \in granted => voted[k].currentTerm = T /\ voted[k].votedFor = i
  <2>1. /\ NodeOK(Votes(k)) /\ Ahead(node[k], Votes(k))
        /\ Says(k) => Votes(k).currentTerm = T /\ Votes(k).votedFor = i
    <3> HIDE DEF c
    <3>1. QED
      BY <1>2, <1>4, <1>7, RequestVoteOK
  <2>2. voted[k] = IF k \in asked THEN Votes(k) ELSE node[k]
    OBVIOUS
  <2>3. k \in granted => k \in asked /\ Says(k)
    OBVIOUS
  <2> HIDE DEF Votes, Says, voted, granted, asked
  <2>4. QED
    BY <1>2, <2>1, <2>2, <2>3, AheadOfItself
<1>9. ASSUME NEW k \in granted
      PROVE  node[k].currentTerm <= T /\ (node[k].currentTerm = T => node[k].votedFor \in {None, i})
  <2>1. k \in Node /\ Says(k)
    BY <1>1
  <2> HIDE DEF c
  <2>2. T >= node[k].currentTerm /\ SeeTerm(node[k], T).votedFor \in {None, i}
    BY <1>4, <2>1 DEF Grants
  <2> HIDE DEF T
  <2>3. QED
    BY <1>2, <1>7, <2>1, <2>2, ConstantsOK DEF SeeTerm
<1>10. CASE /\ Majority(granted \union {i})
            /\ node' = [j \in Node |-> IF j = i THEN l
                                       ELSE IF j \in asked THEN Heartbeat(l, i, voted[j])
                                       ELSE voted[j]]
            /\ elected' = elected \union {<<c.currentTerm, i>>}
  <2> HIDE DEF l, voted, c, T, granted, asked
  <2>1. ASSUME NEW k \in Node PROVE NodeOK(node'[k]) /\ Ahead(node[k], node'[k])
    <3>1. CASE k = i
      BY <1>6, <1>10, <3>1
    <3>2. CASE k # i /\ k \in asked
      <4>1. NodeOK(Heartbeat(l, i, voted[k])) /\ Ahead(voted[k], Heartbeat(l, i, voted[k]))
        BY <1>6, <1>8, HeartbeatOK
      <4>2. Ahead(node[k], Heartbeat(l, i, voted[k]))
        BY <1>2, <1>8, <4>1, AheadIsTransitive DEF NodeOK
      <4>3. QED
        BY <1>10, <3>2, <4>1, <4>2
    <3>3. CASE k # i /\ k \notin asked
      BY <1>8, <1>10, <3>3
    <3>4. QED
      BY <3>1, <3>2, <3>3
  <2>2. ASSUME NEW k \in granted \union {i} PROVE Backs(node'[k], T, i)
    <3>1. CASE k = i
      BY <1>6, <1>10, <3>1 DEF Backs
    <3>2. CASE k # i
      <4>1. k \in granted /\ k \in asked /\ k \in Node
        BY <1>1, <3>2 DEF granted
      <4>2. Ahead(voted[k], Heartbeat(l, i, voted[k]))
        BY <1>6, <1>8, <4>1, HeartbeatOK
      <4>3. node'[k] = Heartbeat(l, i, voted[k])
        BY <1>10, <3>2, <4>1
      <4>4. QED
        BY <1>8, <4>1, <4>2, <4>3, NodesAssumption DEF Backs, Ahead, NodesAssumption
    <3>3. QED
      BY <3>1, <3>2
  <2>3. node[i].currentTerm <= T /\ node[i].currentTerm # T
    BY <1>2 DEF T
  <2>4. node' \in [Node -> NodeRecord]
    BY <1>10, <2>1 DEF NodeOK
  <2>5. granted \union {i} \in SUBSET Node
    BY <1>1 DEF granted
  <2>6. NodesOK' /\ \A k \in Node : Ahead(node[k], node'[k])
    BY <2>1, <2>4 DEF NodesOK
  <2>7. \A k \in granted \union {i} :
          /\ node[k].currentTerm <= T
          /\ node[k].currentTerm = T => node[k].votedFor \in {None, i}
          /\ Backs(node'[k], T, i)
    BY <1>9, <2>2, <2>3
  <2>8. elected' = elected \union {<<T, i>>}
    BY <1>4, <1>10
  <2>9. Majority(granted \union {i})
    BY <1>10
  <2>10. QED
    BY <1>7, <2>5, <2>6, <2>7, <2>8, <2>9 DEF T
<1>11. CASE /\ node' = [voted EXCEPT ![i] = [c EXCEPT !.state = "FOLLOWER"]]
            /\ UNCHANGED elected
  <2> DEFINE d == [c EXCEPT !.state = "FOLLOWER"]
  <2>1. NodeOK(d) /\ SameVote(c, d)
    <3> HIDE DEF c
    <3>1. QED
      BY <1>5 DEF NodeOK, NodeRecord, SameVote
  <2>2. Ahead(node[i], d)
    <3> HIDE DEF c, d
    <3>1. QED
      BY <1>5, <2>1 DEF SameVote, Ahead
  <2>3. \A k \in Node : node'[k] = IF k = i THEN d ELSE voted[k]
    BY <1>11
  <2>4. \A k \in Node : NodeOK(node'[k]) /\ Ahead(node[k], node'[k])
    <3> HIDE DEF c, d, voted
    <3>1. QED
      BY <1>8, <2>1, <2>2, <2>3
  <2>5. node' \in [Node -> NodeRecord]
    <3>1. node' = [k \in Node |-> node'[k]]
      BY <1>11
    <3>2. QED
      BY <2>4, <3>1 DEF NodeOK
  <2>6. QED
    BY <1>11, <2>4, <2>5 DEF NodesOK
<1>12. QED
  BY <1>10, <1>11 DEF StartElection

\* A write leaves every node ahead.
LEMMA WriteStep ==
    ASSUME NodesOK, NEW i \in Node, NEW m \in Message, ReceiveClientMessage(i, m)
    PROVE  NodesOK' /\ \A k \in Node : Ahead(node[k], node'[k])
<1> DEFINE e == [term |-> node[i].currentTerm, message |-> m]
           log == Append(node[i].log, e)
           l == [node[i] EXCEPT !.log = Append(@, e)]
           sent == AfterSending(l, Reachable(i), node)
<1>1. \A k \in Node : NodeOK(node[k])
  BY DEF NodesOK
<1>2. log \in Seq(Entry)
  <2>1. e \in Entry /\ node[i].log \in Seq(Entry)
    BY <1>1 DEF NodeOK, NodeRecord, Entry
  <2> HIDE DEF e
  <2>2. QED
    BY <2>1, AppendProperties
<1>3. NodeOK(l) /\ SameVote(node[i], l)
  <2>1. Len(l.log) <= MaxLog
    BY DEF ReceiveClientMessage
  <2>2. l = [node[i] EXCEPT !.log = log]
    OBVIOUS
  <2> HIDE DEF log, e
  <2>3. l.log = log /\ l.commitIndex = node[i].commitIndex /\ l \in NodeRecord
        /\ SameVote(node[i], l)
    <3> HIDE DEF l
    <3>1. QED
      BY <1>1, <1>2, <2>2 DEF NodeOK, NodeRecord, SameVote
  <2>4. QED
    BY <1>1, <2>1, <2>3 DEF NodeOK
<1>4. NodeOK(sent) /\ SameVote(l, sent)
  <2> HIDE DEF l
  <2>1. QED
    BY <1>3, AfterSendingOK
<1>5. NodeOK(CommitEntries(sent, i)) /\ SameVote(sent, CommitEntries(sent, i))
  <2> HIDE DEF sent
  <2>1. QED
    BY <1>4, CommitEntriesOK
<1>6. Ahead(node[i], CommitEntries(sent, i))
  <2>1. SameVote(node[i], CommitEntries(sent, i))
    <3> HIDE DEF l, sent
    <3>1. QED
      BY <1>3, <1>4, <1>5 DEF SameVote
  <2>2. QED
    BY <1>1, <2>1, SameVoteIsAhead
<1>7. node' = [j \in Node |-> IF j = i THEN CommitEntries(sent, i)
                             ELSE IF j \in Reachable(i) THEN SendToPeer(l, i, node[j], j)
                             ELSE node[j]]
  BY DEF ReceiveClientMessage
<1> HIDE DEF l, sent
<1>8. ASSUME NEW k \in Node PROVE NodeOK(node'[k]) /\ Ahead(node[k], node'[k])
  <2>1. CASE k = i
    BY <1>5, <1>6, <1>7, <2>1
  <2>2. CASE k # i /\ k \in Reachable(i)
    <3>1. NodeOK(SendToPeer(l, i, node[k], k)) /\ Ahead(node[k], SendToPeer(l, i, node[k], k))
      BY <1>1, <1>3, SendToPeerOK
    <3>2. QED
      BY <1>7, <2>2, <3>1
  <2>3. CASE k # i /\ k \notin Reachable(i)
    BY <1>1, <1>7, <2>3, AheadOfItself
  <2>4. QED
    BY <2>1, <2>2, <2>3
<1>9. node' \in [Node -> NodeRecord]
  BY <1>7, <1>8 DEF NodeOK
<1>10. QED
  BY <1>8, <1>9 DEF NodesOK

\* A sync leaves both nodes ahead.
LEMMA SyncStep ==
    ASSUME NodesOK, NEW i \in Node, NEW j \in Node, SyncFromLeader(i, j)
    PROVE  NodesOK' /\ \A k \in Node : Ahead(node[k], node'[k])
<1> DEFINE l == node[j]
           r == SendToPeer(l, j, node[i], i)
           s == FollowCommit(r, l.commitIndex)
           sent == AfterSending(l, {i}, node)
<1>1. \A k \in Node : NodeOK(node[k])
  BY DEF NodesOK
<1>2. NodeOK(r) /\ Ahead(node[i], r)
  BY <1>1, SendToPeerOK
<1>3. NodeOK(s) /\ Ahead(node[i], s)
  <2>1. l.commitIndex \in Nat
    BY <1>1 DEF NodeOK, NodeRecord
  <2> HIDE DEF r, l
  <2>2. NodeOK(s) /\ Ahead(r, s)
    BY <1>2, <2>1, FollowCommitOK
  <2>3. QED
    BY <1>1, <1>2, <2>2, AheadIsTransitive DEF NodeOK
<1>4. NodeOK(sent) /\ Ahead(node[j], sent)
  BY <1>1, AfterSendingOK, SameVoteIsAhead
<1>5. node' = [node EXCEPT ![i] = s, ![j] = sent]
  BY DEF SyncFromLeader
<1> HIDE DEF s, sent
<1>6. \A k \in Node : node'[k] = IF k = j THEN sent ELSE IF k = i THEN s ELSE node[k]
  BY <1>5 DEF NodesOK
<1>7. \A k \in Node : NodeOK(node'[k]) /\ Ahead(node[k], node'[k])
  BY <1>1, <1>3, <1>4, <1>6, AheadOfItself
<1>8. node' \in [Node -> NodeRecord]
  BY <1>3, <1>4, <1>5 DEF NodeOK, NodesOK
<1>9. QED
  BY <1>7, <1>8 DEF NodesOK

LEMMA RecoverStep ==
    ASSUME NodesOK, NEW i \in Node, Recover(i)
    PROVE  /\ NodesOK'
           /\ \A k \in Node : k # i => node'[k] = node[k]
           /\ node'[i].currentTerm = node[i].currentTerm
<1>1. node' = [node EXCEPT ![i] = Recovered(node[i])]
  BY DEF Recover
<1>2. NodeOK(Recovered(node[i])) /\ Recovered(node[i]).currentTerm = node[i].currentTerm
  BY RecoveredOK DEF NodesOK
<1>3. QED
  BY <1>1, <1>2 DEF NodesOK, NodeOK

\* What any step does to the nodes.
LEMMA NodeStep ==
    ASSUME NodesOK, [Next]_vars
    PROVE  /\ NodesOK'
           /\ \A k \in Node : Ahead(node[k], node'[k]) \/ Recover(k)
<1>1. ASSUME UNCHANGED node PROVE NodesOK' /\ \A k \in Node : Ahead(node[k], node'[k])
  BY <1>1, AheadOfItself DEF NodesOK
<1>2. ASSUME NEW i \in Node, Recover(i)
      PROVE  NodesOK' /\ \A k \in Node : Ahead(node[k], node'[k]) \/ Recover(k)
  <2>1. \A k \in Node : k # i => Ahead(node[k], node'[k])
    BY <1>2, RecoverStep, AheadOfItself DEF NodesOK
  <2>2. QED
    BY <1>2, <2>1, RecoverStep
<1>3. ASSUME NEW i \in Node,
             \/ SimulateCrash(i) \/ HealPartition(i)
             \/ \E others \in SUBSET Peers(i) : PartitionFrom(i, others)
      PROVE  UNCHANGED node
  BY <1>3 DEF SimulateCrash, HealPartition, PartitionFrom
<1>4. CASE UNCHANGED vars
  BY <1>1, <1>4 DEF vars
<1>5. QED
  BY <1>1, <1>2, <1>3, <1>4, ElectionStep, WriteStep, SyncStep DEF Next

-----------------------------------------------------------------------------
(* The type invariant.                                                     *)

LEMMA InitType == Init => TypeOK
<1> SUFFICES ASSUME Init PROVE TypeOK
  OBVIOUS
<1>1. InitialNode \in NodeRecord /\ Len(InitialNode.log) = 0 /\ InitialNode.commitIndex = 0
  <2>1. <<>> \in Seq(Entry) /\ Len(<<>>) = 0
    BY EmptySeq
  <2> DEFINE first == [j \in Node |-> 1]
             none == [j \in Node |-> 0]
  <2>2. first \in [Node -> Nat \ {0}] /\ none \in [Node -> Nat]
    OBVIOUS
  <2>3. InitialNode =
          [currentTerm |-> 0, votedFor |-> None, log |-> <<>>, commitIndex |-> 0,
           applied |-> <<>>, state |-> "FOLLOWER", leaderId |-> None,
           nextIndex |-> first, matchIndex |-> none]
    BY DEF InitialNode
  <2> HIDE DEF first, none
  <2>4. QED
    BY <2>1, <2>2, <2>3, ConstantsOK DEF NodeRecord
<1>2. NodesOK
  BY <1>1, ConstantsOK DEF Init, NodesOK, NodeOK
<1>3. QED
  BY <1>2, TypeIsNodesOK DEF Init

LEMMA TypeNext == ASSUME TypeOK, [Next]_vars PROVE TypeOK'
<1> DEFINE RestOK == /\ active \in [Node -> BOOLEAN]
                     /\ partitionedFrom \in [Node -> SUBSET Node]
                     /\ elected \subseteq (1..MaxTerm) \X Node
                     /\ forgotten \subseteq 0..MaxTerm
                     /\ unchecked \in BOOLEAN
<1>1. NodesOK /\ RestOK
  BY TypeIsNodesOK
<1>2. NodesOK'
  BY <1>1, NodeStep
<1>3. ASSUME NEW i \in Node, StartElection(i) PROVE RestOK'
  <2>1. UNCHANGED <<active, partitionedFrom, forgotten, unchecked>>
    BY <1>3 DEF StartElection
  <2>2. elected' \subseteq (1..MaxTerm) \X Node
    BY <1>1, <1>3, ElectionStep
  <2>3. QED
    BY <1>1, <2>1, <2>2
<1>4. ASSUME NEW i \in Node, Recover(i) PROVE RestOK'
  <2>1. node[i].currentTerm \in 0..MaxTerm
    BY <1>1 DEF NodesOK, NodeRecord
  <2>2. forgotten' \subseteq 0..MaxTerm
    BY <1>1, <1>4, <2>1 DEF Recover
  <2>3. QED
    BY <1>1, <1>4, <2>2 DEF Recover
<1>5. ASSUME NEW i \in Node,
             \/ SimulateCrash(i)
             \/ HealPartition(i)
             \/ \E others \in SUBSET Peers(i) : PartitionFrom(i, others)
             \/ \E m \in Message : ReceiveClientMessage(i, m)
      PROVE  RestOK'
  <2>1. active' \in [Node -> BOOLEAN]
    BY <1>1, <1>5 DEF SimulateCrash, HealPartition, PartitionFrom, ReceiveClientMessage
  <2>2. partitionedFrom' \in [Node -> SUBSET Node]
    <3>1. CASE SimulateCrash(i) \/ \E m \in Message : ReceiveClientMessage(i, m)
      BY <1>1, <3>1 DEF SimulateCrash, ReceiveClientMessage
    <3>2. CASE HealPartition(i)
      BY <1>1, <3>2 DEF HealPartition
    <3>3. CASE \E others \in SUBSET Peers(i) : PartitionFrom(i, others)
      BY <1>1, <3>3 DEF PartitionFrom, Peers
    <3>4. QED
      BY <1>5, <3>1, <3>2, <3>3
  <2>3. UNCHANGED history
    BY <1>5 DEF SimulateCrash, HealPartition, PartitionFrom, ReceiveClientMessage
  <2>4. QED
    BY <1>1, <2>1, <2>2, <2>3 DEF history
<1>6. ASSUME NEW i \in Node, NEW j \in Node, SyncFromLeader(i, j) PROVE RestOK'
  <2>1. unchecked' \in BOOLEAN
    BY <1>6 DEF SyncFromLeader
  <2>2. UNCHANGED <<active, partitionedFrom, elected, forgotten>>
    BY <1>6 DEF SyncFromLeader
  <2>3. QED
    BY <1>1, <2>1, <2>2
<1>7. ASSUME UNCHANGED vars PROVE RestOK'
  <2>1. UNCHANGED <<active, partitionedFrom, elected, forgotten, unchecked>>
    BY <1>7 DEF vars, history
  <2>2. QED
    BY <1>1, <2>1
<1> HIDE DEF RestOK
<1>8. RestOK'
  BY <1>3, <1>4, <1>5, <1>6, <1>7 DEF Next
<1> USE DEF RestOK
<1>9. QED
  BY <1>2, <1>8 DEF TypeOK, NodesOK, NodeOK

\* Every field of every node stays of its type and within its bound.
THEOREM TypeCorrect == Spec => []TypeOK
BY InitType, TypeNext, PTL DEF Spec

-----------------------------------------------------------------------------
(* One leader per term.                                                    *)

LEMMA MajoritiesMeet ==
    ASSUME NEW P \in SUBSET Node, NEW Q \in SUBSET Node, Majority(P), Majority(Q)
    PROVE  P \intersect Q # {}
<1>1. IsFiniteSet(Node)
  BY NodesAssumption DEF NodesAssumption
<1>2. /\ Cardinality(P) \in Nat /\ Cardinality(Q) \in Nat
      /\ Cardinality(Node) \in Nat
  BY <1>1, FS_Subset, FS_CardinalityType
<1>3. Cardinality(P) + Cardinality(Q) > Cardinality(Node)
  BY <1>2 DEF Majority
<1>4. QED
  BY <1>1, <1>3, FS_MajoritiesIntersect

\* The winner of a term has, as long as no vote of the term is forgotten, a
\* majority behind it that voted for it or has moved on to a later term.
WinnersAreBacked ==
    \A e \in elected : e[1] \notin forgotten =>
        \E Q \in SUBSET Node : Majority(Q) /\ \A k \in Q : Backs(node[k], e[1], e[2])

LEMMA BackingStays ==
    ASSUME NodesOK, [Next]_vars, NEW k \in Node, NEW t \in 1..MaxTerm, NEW i \in Node,
           Backs(node[k], t, i), t \notin forgotten'
    PROVE  Backs(node'[k], t, i)
<1>1. i # None
  BY NodesAssumption DEF NodesAssumption
<1>2. node[k].currentTerm \in Nat /\ node'[k].currentTerm \in Nat
  <2>1. NodesOK'
    BY NodeStep
  <2>2. node[k].currentTerm \in 0..MaxTerm /\ node'[k].currentTerm \in 0..MaxTerm
    BY <2>1 DEF NodesOK, NodeRecord
  <2>3. QED
    BY <2>2, ConstantsOK
<1>3. CASE Ahead(node[k], node'[k])
  BY <1>1, <1>2, <1>3 DEF Ahead, Backs
<1>4. CASE Recover(k)
  <2>1. node'[k].currentTerm = node[k].currentTerm
    BY <1>4, RecoverStep
  <2>2. node[k].currentTerm = t => node[k].votedFor = None
    BY <1>4 DEF Recover
  <2>3. QED
    BY <1>1, <2>1, <2>2 DEF Backs
<1>5. QED
  BY <1>3, <1>4, NodeStep

LEMMA ForgottenGrows == ASSUME [Next]_vars PROVE forgotten \subseteq forgotten'
BY DEF Next, vars, history, StartElection, SimulateCrash, Recover, HealPartition,
   PartitionFrom, ReceiveClientMessage, SyncFromLeader

LEMMA ElectedFrame ==
    ASSUME [Next]_vars, \A i \in Node : ~StartElection(i) PROVE UNCHANGED elected
BY DEF Next, vars, history, SimulateCrash, Recover, HealPartition,
   PartitionFrom, ReceiveClientMessage, SyncFromLeader

LEMMA WinnersAreBackedNext ==
    ASSUME TypeOK, WinnersAreBacked, [Next]_vars PROVE WinnersAreBacked'
<1>1. NodesOK /\ elected \subseteq (1..MaxTerm) \X Node
  BY TypeIsNodesOK
<1>2. ASSUME NEW e \in elected, e[1] \notin forgotten'
      PROVE  \E Q \in SUBSET Node : Majority(Q) /\ \A k \in Q : Backs(node'[k], e[1], e[2])
  <2>1. e[1] \in 1..MaxTerm /\ e[2] \in Node
    BY <1>1
  <2>2. PICK Q \in SUBSET Node : Majority(Q) /\ \A k \in Q : Backs(node[k], e[1], e[2])
    BY <1>2, ForgottenGrows DEF WinnersAreBacked
  <2>3. \A k \in Q : Backs(node'[k], e[1], e[2])
    BY <1>1, <1>2, <2>1, <2>2, BackingStays
  <2>4. QED
    BY <2>2, <2>3
<1>3. ASSUME NEW i \in Node, StartElection(i) PROVE WinnersAreBacked'
  <2> DEFINE T == node[i].currentTerm + 1
  <2>1. CASE UNCHANGED elected
    BY <1>2, <2>1 DEF WinnersAreBacked
  <2>2. CASE /\ elected' = elected \union {<<T, i>>}
             /\ \E Q \in SUBSET Node : Majority(Q) /\ \A k \in Q : Backs(node'[k], T, i)
    <3> HIDE DEF T
    <3>1. QED
      BY <1>2, <2>2 DEF WinnersAreBacked
  <2>3. QED
    BY <1>1, <1>3, <2>1, <2>2, ElectionStep
<1>4. CASE \A i \in Node : ~StartElection(i)
  BY <1>2, <1>4, ElectedFrame DEF WinnersAreBacked
<1>5. QED
  BY <1>3, <1>4

LEMMA OneLeaderPerTermNext ==
    ASSUME TypeOK, WinnersAreBacked, OneLeaderPerTerm, [Next]_vars
    PROVE  OneLeaderPerTerm'
<1>1. NodesOK /\ elected \subseteq (1..MaxTerm) \X Node
  BY TypeIsNodesOK
<1>2. CASE UNCHANGED elected
  BY <1>2, ForgottenGrows DEF OneLeaderPerTerm
<1>3. ASSUME NEW i \in Node, StartElection(i),
             elected' = elected \union {<<node[i].currentTerm + 1, i>>},
             NEW P \in SUBSET Node, Majority(P),
             \A k \in P : /\ node[k].currentTerm <= node[i].currentTerm + 1
                          /\ node[k].currentTerm = node[i].currentTerm + 1
                               => node[k].votedFor \in {None, i}
      PROVE  OneLeaderPerTerm'
  <2> DEFINE T == node[i].currentTerm + 1
  <2>1. ASSUME NEW j \in Node, <<T, j>> \in elected, T \notin forgotten PROVE j = i
    <3>1. PICK Q \in SUBSET Node : Majority(Q) /\ \A k \in Q : Backs(node[k], T, j)
      <4> HIDE DEF T
      <4>1. QED
        BY <2>1 DEF WinnersAreBacked
    <3>2. PICK k \in P \intersect Q : TRUE
      BY <1>3, <3>1, MajoritiesMeet
    <3>3. node[k].currentTerm \in Nat /\ node[i].currentTerm \in Nat
      <4>1. node[k].currentTerm \in 0..MaxTerm /\ node[i].currentTerm \in 0..MaxTerm
        BY <1>1 DEF NodesOK, NodeRecord
      <4>2. QED
        BY <4>1, ConstantsOK
    <3>4. node[k].votedFor \in {None, i} /\ node[k].votedFor = j
      BY <1>3, <3>1, <3>2, <3>3 DEF Backs
    <3>5. QED
      BY <3>4, NodesAssumption DEF NodesAssumption
  <2>2. ASSUME NEW t \in 1..MaxTerm, t \notin forgotten', NEW a \in Node, NEW b \in Node,
               <<t, a>> \in elected', <<t, b>> \in elected'
        PROVE  a = b
    <3>1. t \notin forgotten
      BY <2>2, ForgottenGrows
    <3> HIDE DEF T
    <3>2. elected' = elected \union {<<T, i>>}
      BY <1>3 DEF T
    <3>3. QED
      BY <2>1, <2>2, <3>1, <3>2 DEF OneLeaderPerTerm
  <2>3. QED
    BY <2>2 DEF OneLeaderPerTerm
<1>4. ASSUME NEW i \in Node, StartElection(i) PROVE OneLeaderPerTerm'
  BY <1>1, <1>2, <1>3, <1>4, ElectionStep
<1>5. QED
  BY <1>2, <1>4, ElectedFrame

\* In a term in which no node that voted recovered from a crash, at most one node
\* is elected, for any number of nodes and terms.
THEOREM ElectionIsSafe == Spec => []OneLeaderPerTerm
<1>1. Init => WinnersAreBacked /\ OneLeaderPerTerm
  BY DEF Init, WinnersAreBacked, OneLeaderPerTerm
<1>2. WinnersAreBacked /\ OneLeaderPerTerm /\ TypeOK /\ [Next]_vars
        => WinnersAreBacked' /\ OneLeaderPerTerm'
  BY WinnersAreBackedNext, OneLeaderPerTermNext
<1>3. QED
  BY <1>1, <1>2, TypeCorrect, PTL DEF Spec

-----------------------------------------------------------------------------
(* The backtracking loop.  Trying is the state of the loop before the try  *)
(* at index k, Sent the state it ends in; every try but the last leads from*)
(* one Trying to the next.                                                 *)

Start(l, r) == [leader |-> l, peer |-> r, done |-> FALSE]

\* A leader with the next index of j changed, and the match index with it.
SetNext(l, j, n) == [l EXCEPT !.nextIndex[j] = n]
SetMatch(l, j, n, m) == [l EXCEPT !.nextIndex[j] = n, !.matchIndex[j] = m]

\* A node with fields r that recognizes leader l, with id i, and has this log.
Recognizes(l, i, r, log) ==
    [r EXCEPT !.currentTerm = l.currentTerm, !.leaderId = i, !.state = "FOLLOWER",
              !.votedFor = IF l.currentTerm > r.currentTerm THEN None ELSE @, !.log = log]

\* What the tries down to index k + 1 left of a peer.
PeerAt(l, i, r, j, k) ==
    IF r.currentTerm > l.currentTerm \/ k = l.nextIndex[j] - 1 THEN r
    ELSE Recognizes(l, i, r, SubSeq(r.log, 1, MinOf(k, Len(r.log))))

Trying(l, i, r, j, k) == Start(SetNext(l, j, k + 1), PeerAt(l, i, r, j, k))

\* The index of the last try, and the end.
LastTry(l, r, j) == IF r.currentTerm > l.currentTerm THEN 0 ELSE AgreeAt(l, r, j)

Known(l, r, j) ==
    IF r.currentTerm > l.currentTerm THEN SetNext(l, j, 1)
    ELSE IF AgreeAt(l, r, j) = Len(l.log) THEN SetNext(l, j, Len(l.log) + 1)
    ELSE SetMatch(l, j, Len(l.log) + 1, Len(l.log))

Sent(l, i, r, j) ==
    [leader |-> Known(l, r, j), peer |-> SendToPeer(l, i, r, j), done |-> TRUE]

LEMMA RecordTypes ==
    ASSUME NEW l \in NodeRecord
    PROVE  /\ l.log \in Seq(Entry) /\ Len(l.log) \in Nat /\ l.currentTerm \in Nat
           /\ \A j \in Node : l.nextIndex[j] \in Nat \ {0}
           /\ l.nextIndex \in [Node -> Nat \ {0}] /\ l.matchIndex \in [Node -> Nat]
           /\ \A k \in 1..Len(l.log) : l.log[k] \in Entry
<1>1. /\ l.log \in Seq(Entry) /\ l.currentTerm \in 0..MaxTerm
      /\ l.nextIndex \in [Node -> Nat \ {0}] /\ l.matchIndex \in [Node -> Nat]
  BY DEF NodeRecord
<1>2. \A k \in 1..Len(l.log) : l.log[k] \in Entry
  BY <1>1, ElementOfSeq
<1>3. QED
  BY <1>1, <1>2, LenProperties, ConstantsOK

\* The function SendLoop is defined by exists: a shortest initial part without
\* one cannot be, since it is the part before it and one more value.
LEMMA LoopIsTries ==
    ASSUME NEW l, NEW i, NEW r, NEW j, l.nextIndex[j] \in Nat
    PROVE  \E after :
              /\ after[0] = Start(l, r)
              /\ \A n \in 1 .. l.nextIndex[j] : after[n] = OneTry(after[n - 1], i, j)
              /\ SendLoop(l, i, r, j) = after[l.nextIndex[j]]
<1> DEFINE Is(f, n) == f = [k \in 0..n |-> IF k = 0 THEN Start(l, r)
                                           ELSE OneTry(f[k - 1], i, j)]
           Without == {n \in Nat : ~ \E f : Is(f, n)}
<1>1. Without = {}
  <2>1. SUFFICES ASSUME Without # {} PROVE FALSE
    OBVIOUS
  <2>2. PICK m \in Without : \A n \in Without : m <= n
    <3>1. Without \subseteq Nat
      OBVIOUS
    <3> HIDE DEF Without
    <3>2. QED
      BY <2>1, <3>1, LeastIndex
  <2>3. CASE m = 0
    <3> DEFINE f == [k \in 0..0 |-> Start(l, r)]
    <3>1. Is(f, 0)
      BY \A k \in 0..0 : k = 0
    <3> HIDE DEF f, Is
    <3>2. QED
      BY <2>3, <3>1
  <2>4. CASE m # 0
    <3>1. m \in Nat /\ m - 1 \in Nat /\ m - 1 \notin Without
      <4>1. m \in Nat
        OBVIOUS
      <4> HIDE DEF Without
      <4>2. QED
        BY <2>2, <2>4, <4>1
    <3>2. PICK g : Is(g, m - 1)
      <4> HIDE DEF Is
      <4>1. QED
        BY <3>1
    <3> DEFINE f == [k \in 0..m |-> IF k < m THEN g[k] ELSE OneTry(g[m - 1], i, j)]
    <3>3. \A k \in 0..m - 1 : f[k] = g[k]
      BY <3>1
    <3>4. f[m] = OneTry(g[m - 1], i, j)
      BY <3>1
    <3>5. \A k \in 0..m : f[k] = IF k = 0 THEN Start(l, r) ELSE OneTry(f[k - 1], i, j)
      <4>1. TAKE k \in 0..m
      <4>2. \A h \in 0..m - 1 : g[h] = IF h = 0 THEN Start(l, r) ELSE OneTry(g[h - 1], i, j)
        BY <3>2
      <4> HIDE DEF f
      <4>3. CASE k = m
        <5>1. m - 1 \in 0..m - 1
          BY <3>1
        <5>2. QED
          BY <2>4, <3>3, <3>4, <4>3, <5>1
      <4>4. CASE k \in 0..m - 1
        <5>1. k # 0 => k - 1 \in 0..m - 1
          BY <3>1, <4>4
        <5>2. QED
          BY <3>3, <4>2, <4>4, <5>1
      <4>5. QED
        BY <3>1, <4>3, <4>4
    <3>6. f = [k \in 0..m |-> f[k]]
      OBVIOUS
    <3>7. Is(f, m)
      <4> HIDE DEF f
      <4>1. QED
        BY <3>5, <3>6
    <3> HIDE DEF f, Is
    <3>8. QED
      BY <3>7
  <2>5. QED
    BY <2>3, <2>4
<1> DEFINE next == l.nextIndex[j]
           after == CHOOSE f : Is(f, next)
<1>2. Is(after, next)
  <2>1. \E f : Is(f, next)
    BY <1>1
  <2> HIDE DEF Is
  <2>2. QED
    BY <2>1
<1>3. SendLoop(l, i, r, j) = after[next]
  BY DEF SendLoop, Start
<1> HIDE DEF after
<1>4. next \in Nat
  OBVIOUS
<1> HIDE DEF next
<1>5. after[0] = Start(l, r)
  BY <1>2, <1>4
<1>6. ASSUME NEW n \in 1..next PROVE after[n] = OneTry(after[n - 1], i, j)
  BY <1>2, <1>4
<1>7. QED
  BY <1>3, <1>5, <1>6 DEF next

\* One try, from a state that is not the last.
LEMMA TryGives ==
    ASSUME NEW l, NEW q, NEW i, NEW j
    PROVE  LET prev == l.nextIndex[j] - 1
               entries == SubSeq(l.log, prev + 1, Len(l.log))
               peer == AppendEntries(q, i, l.currentTerm, prev, TermAt(l.log, prev),
                                     entries, l.commitIndex)
               s == OneTry(Start(l, q), i, j)
           IN IF Accepts(q, l.currentTerm, prev, TermAt(l.log, prev))
              THEN s = [leader |-> IF entries = <<>> THEN l
                                   ELSE SetMatch(l, j, prev + Len(entries) + 1,
                                                 prev + Len(entries)),
                        peer |-> peer, done |-> TRUE]
              ELSE IF prev = 0 THEN s = [leader |-> l, peer |-> peer, done |-> TRUE]
              ELSE s = Start(SetNext(l, j, prev), peer)
<1> DEFINE prev == l.nextIndex[j] - 1
           entries == SubSeq(l.log, prev + 1, Len(l.log))
           peer == AppendEntries(q, i, l.currentTerm, prev, TermAt(l.log, prev),
                                 entries, l.commitIndex)
           accepts == Accepts(q, l.currentTerm, prev, TermAt(l.log, prev))
           more == SetMatch(l, j, prev + Len(entries) + 1, prev + Len(entries))
           fewer == SetNext(l, j, prev)
<1>1. OneTry(Start(l, q), i, j)
        = [done |-> accepts \/ prev = 0, peer |-> peer,
           leader |-> IF accepts /\ entries # <<>> THEN more
                      ELSE IF accepts \/ prev = 0 THEN l ELSE fewer]
  <2>1. /\ Start(l, q).done = FALSE /\ Start(l, q).leader = l /\ Start(l, q).peer = q
    BY DEF Start
  <2>2. QED
    BY <2>1, Zenon DEF OneTry, SetNext, SetMatch
<1>2. Start(fewer, peer) = [leader |-> fewer, peer |-> peer, done |-> FALSE]
  BY DEF Start
<1> HIDE DEF accepts, peer, entries, more, fewer, prev
<1>3. CASE accepts
  <2>1. OneTry(Start(l, q), i, j)
          = [leader |-> IF entries = <<>> THEN l ELSE more, peer |-> peer, done |-> TRUE]
    BY <1>1, <1>3
  <2>2. QED
    BY <1>3, <2>1 DEF accepts, peer, entries, more, prev
<1>4. CASE ~accepts /\ prev = 0
  <2>1. OneTry(Start(l, q), i, j) = [leader |-> l, peer |-> peer, done |-> TRUE]
    BY <1>1, <1>4
  <2>2. QED
    BY <1>4, <2>1 DEF accepts, peer, entries, prev
<1>5. CASE ~accepts /\ prev # 0
  <2>1. OneTry(Start(l, q), i, j) = Start(fewer, peer)
    BY <1>1, <1>2, <1>5
  <2>2. QED
    BY <1>5, <2>1 DEF accepts, peer, entries, fewer, prev
<1>6. QED
  BY <1>3, <1>4, <1>5

\* The end is left alone.
LEMMA DoneIsDone ==
    ASSUME NEW s, NEW i, NEW j, s.done
    PROVE  OneTry(s, i, j) = s
BY DEF OneTry

\* What AgreeAt is: the last index up to nextIndex at which the two logs have an
\* entry of the same term.
LEMMA AgreeAtIs ==
    ASSUME NEW l \in NodeRecord, NEW r \in NodeRecord, NEW j \in Node,
           l.nextIndex[j] <= Len(l.log) + 1
    PROVE  LET p == AgreeAt(l, r, j)
           IN /\ p \in 0 .. l.nextIndex[j] - 1 /\ p <= Len(l.log)
              /\ p = 0 \/ (p <= Len(r.log) /\ r.log[p].term = TermAt(l.log, p))
              /\ \A k \in p + 1 .. l.nextIndex[j] - 1 :
                    ~(k <= Len(r.log) /\ r.log[k].term = TermAt(l.log, k))
<1> DEFINE next == l.nextIndex[j]
           last == MinOf(next - 1, Len(r.log))
           agree == {k \in 1 .. last : r.log[k].term = TermAt(l.log, k)}
           top == CHOOSE k \in agree : \A h \in agree : k >= h
<1>1. Len(r.log) \in Nat /\ next \in Nat \ {0} /\ Len(l.log) \in Nat
  BY RecordTypes
<1>2. AgreeAt(l, r, j) = IF agree = {} THEN 0 ELSE top
  BY DEF AgreeAt
<1>3. next <= Len(l.log) + 1
  OBVIOUS
<1> HIDE DEF next
<1>4. last \in Nat /\ last <= Len(r.log) /\ last <= next - 1
      /\ \A k \in Nat : k <= next - 1 /\ k <= Len(r.log) => k <= last
  BY <1>1 DEF MinOf
<1> HIDE DEF last
<1>5. agree \subseteq 0 .. last /\ last \in Nat
  BY <1>4
<1>6. \A k \in Nat : k \in agree <=> k >= 1 /\ k <= last /\ r.log[k].term = TermAt(l.log, k)
  BY <1>4
<1> HIDE DEF agree
<1>7. agree # {} => top \in agree /\ \A h \in agree : top >= h
  BY <1>5, GreatestIndex
<1> HIDE DEF top
<1> DEFINE p == AgreeAt(l, r, j)
<1>8. p \in 0..last /\ (p = 0 \/ p \in agree) /\ \A h \in agree : p >= h
  <2>1. CASE agree = {}
    BY <1>2, <1>4, <2>1
  <2>2. CASE agree # {}
    BY <1>2, <1>5, <1>7, <2>2
  <2>3. QED
    BY <2>1, <2>2
<1> HIDE DEF p
<1>9. ASSUME NEW k \in p + 1 .. next - 1, k <= Len(r.log), r.log[k].term = TermAt(l.log, k)
      PROVE FALSE
  <2>1. k \in Nat /\ k >= 1 /\ k <= last /\ ~(p >= k)
    BY <1>1, <1>4, <1>8, <1>9
  <2>2. QED
    BY <1>6, <1>8, <1>9, <2>1
<1>10. p = 0 \/ (p <= Len(r.log) /\ r.log[p].term = TermAt(l.log, p))
  BY <1>4, <1>6, <1>8
<1>11. p \in 0 .. next - 1 /\ p <= Len(l.log)
  BY <1>1, <1>3, <1>4, <1>8
<1>12. QED
  BY <1>9, <1>10, <1>11 DEF p, next

\* The beginning of a beginning of a log.
LEMMA BeginningOfBeginning ==
    ASSUME NEW s \in Seq(Entry), NEW a \in Nat, NEW b \in Nat, b <= a, a <= Len(s)
    PROVE  /\ SubSeq(SubSeq(s, 1, a), 1, b) = SubSeq(s, 1, b)
           /\ SubSeq(s, 1, a) \in Seq(Entry) /\ Len(SubSeq(s, 1, a)) = a
           /\ \A k \in 1..a : SubSeq(s, 1, a)[k] = s[k]
<1> DEFINE t == SubSeq(s, 1, a)
<1>1. Len(s) \in Nat /\ \A k \in 1..Len(s) : s[k] \in Entry
  BY LenProperties, ElementOfSeq
<1>2. t \in Seq(Entry) /\ Len(t) = a /\ \A k \in 1..a : t[k] = s[k]
  BY <1>1, SubSeqProperties
<1>3. /\ SubSeq(s, 1, b) \in Seq(Entry) /\ Len(SubSeq(s, 1, b)) = b
      /\ \A k \in 1..b : SubSeq(s, 1, b)[k] = s[k]
  BY <1>1, SubSeqProperties
<1> HIDE DEF t
<1>4. \A k \in 1..a : t[k] \in Entry
  BY <1>2, ElementOfSeq
<1>5. /\ SubSeq(t, 1, b) \in Seq(Entry) /\ Len(SubSeq(t, 1, b)) = b
      /\ \A k \in 1..b : SubSeq(t, 1, b)[k] = t[k]
  BY <1>4, SubSeqProperties
<1>6. SubSeq(t, 1, b) = SubSeq(s, 1, b)
  BY <1>2, <1>3, <1>5, SeqEqual
<1>7. QED
  BY <1>2, <1>6 DEF t

\* The entries a leader sends after index p.
LEMMA EntriesSent ==
    ASSUME NEW all \in Seq(Entry), NEW p \in 0..Len(all)
    PROVE  LET entries == SubSeq(all, p + 1, Len(all))
           IN /\ entries \in Seq(Entry) /\ Len(entries) = Len(all) - p
              /\ entries = <<>> <=> p = Len(all)
              /\ p < Len(all) => entries[1] = all[p + 1]
<1> DEFINE start == p + 1
           entries == SubSeq(all, start, Len(all))
<1>1. Len(all) \in Nat /\ p \in Nat /\ p <= Len(all)
  BY LenProperties
<1>2. \A k \in start .. Len(all) : all[k] \in Entry
  BY <1>1, ElementOfSeq
<1>3. start \in Nat /\ start = p + 1
  BY <1>1
<1> HIDE DEF start
<1>4. /\ entries \in Seq(Entry)
      /\ Len(entries) = IF start <= Len(all) THEN Len(all) - start + 1 ELSE 0
      /\ \A k \in 1 .. Len(all) - start + 1 : entries[k] = all[start + k - 1]
  BY <1>1, <1>2, <1>3, SubSeqProperties
<1> HIDE DEF entries
<1>5. Len(entries) = Len(all) - p
  BY <1>1, <1>3, <1>4
<1>6. entries = <<>> <=> Len(entries) = 0
  BY <1>4, EmptySeq
<1>7. p < Len(all) => entries[1] = all[p + 1]
  BY <1>1, <1>3, <1>4
<1>8. QED
  BY <1>1, <1>4, <1>5, <1>6, <1>7 DEF entries, start

\* What the tries before cut off is what the merge at p would have replaced.
LEMMA CutMerge ==
    ASSUME NEW log \in Seq(Entry), NEW all \in Seq(Entry), NEW p \in Nat,
           p < Len(all), p <= Len(log),
           p + 1 <= Len(log) => log[p + 1].term # all[p + 1].term
    PROVE  MergeLog(SubSeq(log, 1, p), p, SubSeq(all, p + 1, Len(all)))
             = MergeLog(log, p, SubSeq(all, p + 1, Len(all)))
<1> DEFINE cut == SubSeq(log, 1, p)
           entries == SubSeq(all, p + 1, Len(all))
<1>1. Len(log) \in Nat /\ Len(all) \in Nat
  BY LenProperties
<1>2. Len(cut) = p /\ SubSeq(cut, 1, p) = cut
  BY BeginningOfBeginning
<1>3. Len(entries) = Len(all) - p /\ entries[1] = all[p + 1]
  BY <1>1, EntriesSent
<1>4. CASE Len(log) = p
  <2>1. cut = log
    BY <1>4, SubSeqFull
  <2>2. QED
    BY <2>1
<1>5. CASE p + 1 <= Len(log)
  <2> DEFINE last(s) == MinOf(p + Len(entries), Len(s))
             conflicts(s) == {k \in p + 1 .. last(s) : s[k].term # entries[k - p].term}
             least(s) == CHOOSE k \in conflicts(s) : \A j \in conflicts(s) : k <= j
             keep(s) == IF conflicts(s) = {} THEN Len(s) ELSE least(s) - 1
  <2>1. \A s : MergeLog(s, p, entries) = SubSeq(s, 1, keep(s))
                                           \o SubSeq(entries, keep(s) - p + 1, Len(entries))
    BY DEF MergeLog
  <2> HIDE DEF entries
  <2>2. keep(cut) = p
    <3>1. last(cut) = p
      BY <1>1, <1>2, <1>3 DEF MinOf
    <3> HIDE DEF last
    <3>2. conflicts(cut) = {}
      BY <3>1
    <3>3. QED
      BY <1>2, <3>2
  <2>3. keep(log) = p
    <3>1. last(log) \in Nat /\ p + 1 <= last(log)
      BY <1>1, <1>3, <1>5 DEF MinOf
    <3> HIDE DEF last
    <3>2. p + 1 \in conflicts(log) /\ \A k \in conflicts(log) : k \in Nat /\ p + 1 <= k
      <4>1. (p + 1) - p = 1
        OBVIOUS
      <4>2. QED
        BY <1>3, <1>5, <3>1, <4>1
    <3> HIDE DEF conflicts
    <3>3. least(log) = p + 1
      <4>1. \A k \in conflicts(log) : (\A j \in conflicts(log) : k <= j) <=> k = p + 1
        BY <3>2
      <4>2. QED
        BY <3>2, <4>1
    <3> HIDE DEF least
    <3>4. QED
      BY <3>2, <3>3
  <2> HIDE DEF keep, cut
  <2>4. MergeLog(cut, p, entries) = SubSeq(cut, 1, p) \o SubSeq(entries, p - p + 1, Len(entries))
    BY <2>1, <2>2
  <2>5. MergeLog(log, p, entries) = SubSeq(log, 1, p) \o SubSeq(entries, p - p + 1, Len(entries))
    BY <2>1, <2>3
  <2>6. SubSeq(log, 1, p) = SubSeq(cut, 1, p)
    BY <1>2 DEF cut
  <2>7. QED
    BY <2>4, <2>5, <2>6 DEF cut, entries
<1>6. QED
  BY <1>1, <1>4, <1>5

\* A peer recognizes the leader once: what it did so before left only its log.
LEMMA RecognizesGives ==
    ASSUME NEW l \in NodeRecord, NEW r \in NodeRecord, NEW i \in Node, NEW s \in Seq(Entry)
    PROVE  /\ Recognizes(l, i, r, s) \in NodeRecord
           /\ Recognizes(l, i, r, s).log = s
           /\ Recognizes(l, i, r, s).currentTerm = l.currentTerm
           /\ \A t : Recognizes(l, i, Recognizes(l, i, r, s), t) = Recognizes(l, i, r, t)
<1> DEFINE v == IF l.currentTerm > r.currentTerm THEN None ELSE r.votedFor
           q == Recognizes(l, i, r, s)
<1>1. l.currentTerm \in 0..MaxTerm /\ l.currentTerm \in Nat /\ r.currentTerm \in Nat
  BY RecordTypes DEF NodeRecord
<1>2. \A t : Recognizes(l, i, r, t)
              = [r EXCEPT !.currentTerm = l.currentTerm, !.leaderId = i, !.state = "FOLLOWER",
                          !.votedFor = v, !.log = t]
  BY Zenon DEF Recognizes
<1>3. v \in Node \union {None}
  BY DEF NodeRecord
<1> HIDE DEF v
<1>4. q = [r EXCEPT !.currentTerm = l.currentTerm, !.leaderId = i, !.state = "FOLLOWER",
                    !.votedFor = v, !.log = s]
  BY <1>2, Zenon
<1> HIDE DEF q
<1>5. q \in NodeRecord /\ q.log = s /\ q.currentTerm = l.currentTerm /\ q.votedFor = v
  BY <1>1, <1>3, <1>4 DEF NodeRecord
<1>6. ASSUME NEW t PROVE Recognizes(l, i, q, t) = Recognizes(l, i, r, t)
  <2>1. (IF l.currentTerm > q.currentTerm THEN None ELSE q.votedFor) = v
    BY <1>1, <1>5
  <2>2. Recognizes(l, i, q, t)
          = [q EXCEPT !.currentTerm = l.currentTerm, !.leaderId = i, !.state = "FOLLOWER",
                      !.votedFor = v, !.log = t]
    BY <2>1, Zenon DEF Recognizes
  <2>3. [q EXCEPT !.currentTerm = l.currentTerm, !.leaderId = i, !.state = "FOLLOWER",
                  !.votedFor = v, !.log = t]
          = [r EXCEPT !.currentTerm = l.currentTerm, !.leaderId = i, !.state = "FOLLOWER",
                      !.votedFor = v, !.log = t]
    BY <1>4 DEF NodeRecord
  <2>4. Recognizes(l, i, r, t)
          = [r EXCEPT !.currentTerm = l.currentTerm, !.leaderId = i, !.state = "FOLLOWER",
                      !.votedFor = v, !.log = t]
    BY <1>2, Zenon
  <2>5. QED
    BY <2>2, <2>3, <2>4
<1>7. QED
  BY <1>5, <1>6 DEF q

\* append_entries, in these terms.
LEMMA AppendIs ==
    ASSUME NEW l \in NodeRecord, NEW r \in NodeRecord, NEW i \in Node, NEW k, NEW t, NEW s
    PROVE  /\ AppendEntries(r, i, l.currentTerm, k, t, s, l.commitIndex)
                = IF r.currentTerm > l.currentTerm THEN r
                  ELSE IF Matches(r.log, k, t)
                  THEN FollowCommit(Recognizes(l, i, r, MergeLog(r.log, k, s)), l.commitIndex)
                  ELSE Recognizes(l, i, r, SubSeq(r.log, 1, MinOf(k - 1, Len(r.log))))
           /\ Accepts(r, l.currentTerm, k, t) <=> /\ ~(r.currentTerm > l.currentTerm)
                                                 /\ Matches(r.log, k, t)
<1> DEFINE v == IF l.currentTerm > r.currentTerm THEN None ELSE r.votedFor
           f == [r EXCEPT !.currentTerm = l.currentTerm, !.leaderId = i, !.state = "FOLLOWER",
                          !.votedFor = v]
           a == AppendEntries(r, i, l.currentTerm, k, t, s, l.commitIndex)
<1>1. l.currentTerm \in Nat /\ r.currentTerm \in Nat
  BY RecordTypes
<1>2. a = IF l.currentTerm < r.currentTerm THEN r
          ELSE IF Accepts(r, l.currentTerm, k, t)
          THEN FollowCommit([f EXCEPT !.log = MergeLog(r.log, k, s)], l.commitIndex)
          ELSE [f EXCEPT !.log = SubSeq(r.log, 1, MinOf(k - 1, Len(r.log)))]
  BY Zenon DEF AppendEntries
<1>3. \A log : Recognizes(l, i, r, log)
                = [r EXCEPT !.currentTerm = l.currentTerm, !.leaderId = i, !.state = "FOLLOWER",
                            !.votedFor = v, !.log = log]
  BY Zenon DEF Recognizes
<1>4. ASSUME NEW log PROVE [f EXCEPT !.log = log] = Recognizes(l, i, r, log)
  <2>1. Recognizes(l, i, r, log)
          = [r EXCEPT !.currentTerm = l.currentTerm, !.leaderId = i, !.state = "FOLLOWER",
                      !.votedFor = v, !.log = log]
    BY <1>3, Zenon
  <2> HIDE DEF v
  <2>2. QED
    BY <2>1 DEF NodeRecord
<1>5. Accepts(r, l.currentTerm, k, t) <=> /\ ~(r.currentTerm > l.currentTerm)
                                          /\ Matches(r.log, k, t)
  BY <1>1 DEF Accepts
<1>6. l.currentTerm < r.currentTerm <=> r.currentTerm > l.currentTerm
  BY <1>1
<1> DEFINE merged == MergeLog(r.log, k, s)
           cut == SubSeq(r.log, 1, MinOf(k - 1, Len(r.log)))
           newer == r.currentTerm > l.currentTerm
<1>7. [f EXCEPT !.log = merged] = Recognizes(l, i, r, merged)
  <2> HIDE DEF merged, f
  <2>1. QED
    BY <1>4
<1>8. [f EXCEPT !.log = cut] = Recognizes(l, i, r, cut)
  <2> HIDE DEF cut, f
  <2>1. QED
    BY <1>4
<1>9. a = IF newer THEN r
          ELSE IF Matches(r.log, k, t) THEN FollowCommit(Recognizes(l, i, r, merged), l.commitIndex)
          ELSE Recognizes(l, i, r, cut)
  BY <1>2, <1>5, <1>6, <1>7, <1>8, Zenon
<1>10. QED
  BY <1>5, <1>9, Zenon

LEMMA AppendFromOld ==
    ASSUME NEW l \in NodeRecord, NEW r \in NodeRecord, NEW i \in Node, NEW k, NEW t, NEW s,
           r.currentTerm > l.currentTerm
    PROVE  /\ AppendEntries(r, i, l.currentTerm, k, t, s, l.commitIndex) = r
           /\ ~Accepts(r, l.currentTerm, k, t)
BY AppendIs

LEMMA AppendRefused ==
    ASSUME NEW l \in NodeRecord, NEW r \in NodeRecord, NEW i \in Node, NEW k, NEW t, NEW s,
           ~(r.currentTerm > l.currentTerm), ~Matches(r.log, k, t)
    PROVE  /\ AppendEntries(r, i, l.currentTerm, k, t, s, l.commitIndex)
                = Recognizes(l, i, r, SubSeq(r.log, 1, MinOf(k - 1, Len(r.log))))
           /\ ~Accepts(r, l.currentTerm, k, t)
BY AppendIs

LEMMA AppendTaken ==
    ASSUME NEW l \in NodeRecord, NEW r \in NodeRecord, NEW i \in Node, NEW k, NEW t, NEW s,
           ~(r.currentTerm > l.currentTerm), Matches(r.log, k, t)
    PROVE  /\ AppendEntries(r, i, l.currentTerm, k, t, s, l.commitIndex)
                = FollowCommit(Recognizes(l, i, r, MergeLog(r.log, k, s)), l.commitIndex)
           /\ Accepts(r, l.currentTerm, k, t)
BY AppendIs

\* The peer before the try at index k, when it is not of a newer term.
LEMMA PeerIs ==
    ASSUME NEW l \in NodeRecord, NEW r \in NodeRecord, NEW i \in Node, NEW j \in Node,
           NEW k \in 0 .. l.nextIndex[j] - 1, ~(r.currentTerm > l.currentTerm)
    PROVE  LET q == PeerAt(l, i, r, j, k)
           IN /\ q \in NodeRecord /\ ~(q.currentTerm > l.currentTerm)
              /\ \A log : Recognizes(l, i, q, log) = Recognizes(l, i, r, log)
              /\ IF k = l.nextIndex[j] - 1 THEN q = r
                 ELSE \E m \in 0..Len(r.log) : /\ m = MinOf(k, Len(r.log)) /\ Len(q.log) = m
                                               /\ q.log = SubSeq(r.log, 1, m)
<1> DEFINE q == PeerAt(l, i, r, j, k)
           m == MinOf(k, Len(r.log))
           cut == SubSeq(r.log, 1, m)
<1>1. /\ r.log \in Seq(Entry) /\ Len(r.log) \in Nat /\ k \in Nat
      /\ l.currentTerm \in Nat /\ r.currentTerm \in Nat
  BY RecordTypes
<1>2. CASE k = l.nextIndex[j] - 1
  BY <1>2 DEF PeerAt
<1>3. CASE k # l.nextIndex[j] - 1
  <2>1. m \in 0..Len(r.log)
    BY <1>1 DEF MinOf
  <2>2. q = Recognizes(l, i, r, cut)
    BY <1>3 DEF PeerAt
  <2> HIDE DEF m
  <2>3. cut \in Seq(Entry) /\ Len(cut) = m
    BY <1>1, <2>1, BeginningOfBeginning
  <2> HIDE DEF cut, q
  <2> DEFINE again == Recognizes(l, i, r, cut)
  <2>4. /\ again \in NodeRecord /\ again.log = cut /\ again.currentTerm = l.currentTerm
        /\ \A t : Recognizes(l, i, again, t) = Recognizes(l, i, r, t)
    BY <2>3, RecognizesGives
  <2> HIDE DEF again
  <2>5. /\ q \in NodeRecord /\ q.log = cut /\ q.currentTerm = l.currentTerm
        /\ \A log : Recognizes(l, i, q, log) = Recognizes(l, i, r, log)
    BY <2>2, <2>4 DEF again
  <2>6. \E n \in 0..Len(r.log) : /\ n = MinOf(k, Len(r.log)) /\ Len(q.log) = n
                                 /\ q.log = SubSeq(r.log, 1, n)
    BY <2>1, <2>3, <2>5 DEF m, cut
  <2>7. ~(q.currentTerm > l.currentTerm)
    BY <1>1, <2>5
  <2>8. QED
    BY <1>3, <2>5, <2>6, <2>7, Zenon DEF q
<1>4. QED
  BY <1>2, <1>3

LEMMA LeaderIs ==
    ASSUME NEW l \in NodeRecord, NEW j \in Node, NEW k \in Nat
    PROVE  LET a == SetNext(l, j, k)
           IN /\ a.nextIndex[j] = k /\ a.log = l.log /\ a.currentTerm = l.currentTerm
              /\ a.commitIndex = l.commitIndex
              /\ \A n : SetNext(a, j, n) = SetNext(l, j, n)
              /\ \A n, m : SetMatch(a, j, n, m) = SetMatch(l, j, n, m)
<1> DEFINE a == SetNext(l, j, k)
<1>1. l.nextIndex \in [Node -> Nat \ {0}] /\ l.matchIndex \in [Node -> Nat]
  BY RecordTypes
<1>2. /\ a.nextIndex = [l.nextIndex EXCEPT ![j] = k] /\ a.log = l.log
      /\ a.currentTerm = l.currentTerm /\ a.commitIndex = l.commitIndex
  BY DEF SetNext, NodeRecord
<1>3. ASSUME NEW n PROVE SetNext(a, j, n) = SetNext(l, j, n)
  BY DEF SetNext, NodeRecord
<1>4. ASSUME NEW n, NEW m PROVE SetMatch(a, j, n, m) = SetMatch(l, j, n, m)
  BY DEF SetNext, SetMatch, NodeRecord
<1>5. a.nextIndex[j] = k
  BY <1>1, <1>2
<1> HIDE DEF a
<1>6. QED
  BY <1>2, <1>3, <1>4, <1>5 DEF a

\* Every try above the last is refused, and leads to the next.
LEMMA TryRefused ==
    ASSUME NEW l \in NodeRecord, NEW r \in NodeRecord, NEW i \in Node, NEW j \in Node,
           l.nextIndex[j] <= Len(l.log) + 1,
           NEW k \in LastTry(l, r, j) + 1 .. l.nextIndex[j] - 1
    PROVE  OneTry(Trying(l, i, r, j, k), i, j) = Trying(l, i, r, j, k - 1)
<1> DEFINE q == PeerAt(l, i, r, j, k)
           next == l.nextIndex[j]
           t == TermAt(l.log, k)
           s == SubSeq(l.log, k + 1, Len(l.log))
           peer == AppendEntries(q, i, l.currentTerm, k, t, s, l.commitIndex)
<1>1. /\ next \in Nat \ {0} /\ Len(r.log) \in Nat /\ r.log \in Seq(Entry)
      /\ l.currentTerm \in Nat /\ r.currentTerm \in Nat
  BY RecordTypes
<1>2. k \in Nat /\ k > 0 /\ k <= next - 1 /\ k \in 0 .. next - 1
  BY <1>1, AgreeAtIs DEF LastTry
<1>3. ~Accepts(q, l.currentTerm, k, t) /\ peer = PeerAt(l, i, r, j, k - 1)
  <2>1. CASE r.currentTerm > l.currentTerm
    <3>1. q = r /\ PeerAt(l, i, r, j, k - 1) = r
      BY <2>1 DEF PeerAt
    <3> HIDE DEF s, q, t
    <3>2. QED
      BY <2>1, <3>1, AppendFromOld
  <2>2. CASE ~(r.currentTerm > l.currentTerm)
    <3> DEFINE cut == SubSeq(r.log, 1, MinOf(k - 1, Len(r.log)))
    <3>1. /\ q \in NodeRecord /\ ~(q.currentTerm > l.currentTerm)
          /\ \A log : Recognizes(l, i, q, log) = Recognizes(l, i, r, log)
          /\ IF k = next - 1 THEN q = r
             ELSE \E m \in 0..Len(r.log) : /\ m = MinOf(k, Len(r.log)) /\ Len(q.log) = m
                                           /\ q.log = SubSeq(r.log, 1, m)
      BY <1>2, <2>2, PeerIs
    <3>2. ~(k <= Len(r.log) /\ r.log[k].term = t)
      <4>1. AgreeAt(l, r, j) = LastTry(l, r, j)
        BY <2>2 DEF LastTry
      <4>2. k \in AgreeAt(l, r, j) + 1 .. l.nextIndex[j] - 1
        BY <4>1
      <4>3. QED
        BY <4>2, AgreeAtIs
    <3> HIDE DEF q, s, t, next
    <3>3. /\ ~Matches(q.log, k, t)
          /\ SubSeq(q.log, 1, MinOf(k - 1, Len(q.log))) = cut
      <4>1. CASE k = next - 1
        <5>1. q = r
          BY <3>1, <4>1
        <5>2. QED
          BY <1>1, <1>2, <3>2, <5>1 DEF Matches
      <4>2. CASE k # next - 1
        <5>1. PICK m \in 0..Len(r.log) : /\ m = MinOf(k, Len(r.log)) /\ Len(q.log) = m
                                         /\ q.log = SubSeq(r.log, 1, m)
          BY <3>1, <4>2
        <5>2. /\ m \in Nat /\ m <= Len(r.log) /\ m <= k /\ (m < Len(r.log) => m = k)
              /\ MinOf(k - 1, m) = MinOf(k - 1, Len(r.log)) /\ MinOf(k - 1, m) \in Nat
              /\ MinOf(k - 1, m) <= m
          BY <1>1, <1>2, <5>1 DEF MinOf
        <5>3. \A h \in 1..m : q.log[h] = r.log[h]
          BY <1>1, <5>1, <5>2, BeginningOfBeginning
        <5>4. SubSeq(q.log, 1, MinOf(k - 1, m)) = SubSeq(r.log, 1, MinOf(k - 1, m))
          BY <1>1, <5>1, <5>2, BeginningOfBeginning
        <5>5. k <= m => r.log[k] = q.log[k] /\ k <= Len(r.log)
          BY <1>1, <1>2, <5>2, <5>3
        <5>6. ~Matches(q.log, k, t)
          BY <1>2, <3>2, <5>1, <5>5 DEF Matches
        <5>7. QED
          BY <5>1, <5>2, <5>4, <5>6
      <4>3. QED
        BY <4>1, <4>2
    <3> HIDE DEF cut
    <3>4. ~Accepts(q, l.currentTerm, k, t) /\ peer = Recognizes(l, i, q, cut)
      <4>1. q \in NodeRecord /\ ~(q.currentTerm > l.currentTerm)
        BY <3>1
      <4> DEFINE c == SubSeq(q.log, 1, MinOf(k - 1, Len(q.log)))
      <4>2. ~Accepts(q, l.currentTerm, k, t) /\ peer = Recognizes(l, i, q, c)
        BY <3>3, <4>1, AppendRefused
      <4> HIDE DEF peer, c
      <4>3. c = cut
        BY <3>3 DEF c
      <4>4. QED
        BY <4>2, <4>3
    <3>5. PeerAt(l, i, r, j, k - 1) = Recognizes(l, i, r, cut)
      BY <1>1, <1>2, <2>2 DEF PeerAt, next, cut
    <3>6. Recognizes(l, i, q, cut) = Recognizes(l, i, r, cut)
      BY <3>1
    <3> HIDE DEF peer
    <3>7. QED
      BY <3>4, <3>5, <3>6
  <2>3. QED
    BY <2>1, <2>2
<1> DEFINE a == SetNext(l, j, k + 1)
<1>4. /\ a.nextIndex[j] = k + 1 /\ a.log = l.log /\ a.currentTerm = l.currentTerm
      /\ a.commitIndex = l.commitIndex /\ SetNext(a, j, k) = SetNext(l, j, k)
  BY <1>2, LeaderIs
<1>5. k # 0 /\ (k + 1) - 1 = k /\ (k - 1) + 1 = k
  BY <1>2
<1> HIDE DEF a, q
<1>6. OneTry(Start(a, q), i, j) = Start(SetNext(a, j, k), peer)
  BY <1>3, <1>4, <1>5, TryGives
<1>7. QED
  BY <1>3, <1>4, <1>5, <1>6 DEF Trying, a, q

\* The last try ends the loop, at the point of agreement or with a peer of a newer
\* term at the beginning.
LEMMA TryLast ==
    ASSUME NEW l \in NodeRecord, NEW r \in NodeRecord, NEW i \in Node, NEW j \in Node,
           l.nextIndex[j] <= Len(l.log) + 1
    PROVE  OneTry(Trying(l, i, r, j, LastTry(l, r, j)), i, j) = Sent(l, i, r, j)
<1> DEFINE k == LastTry(l, r, j)
           q == PeerAt(l, i, r, j, k)
           next == l.nextIndex[j]
           t == TermAt(l.log, k)
           s == SubSeq(l.log, k + 1, Len(l.log))
           peer == AppendEntries(q, i, l.currentTerm, k, t, s, l.commitIndex)
           a == SetNext(l, j, k + 1)
<1>1. /\ next \in Nat \ {0} /\ Len(r.log) \in Nat /\ r.log \in Seq(Entry)
      /\ l.log \in Seq(Entry) /\ Len(l.log) \in Nat
  BY RecordTypes
<1>2. k \in Nat /\ k \in 0 .. next - 1 /\ k <= Len(l.log)
  BY <1>1, AgreeAtIs DEF LastTry
<1>3. next <= Len(l.log) + 1
  OBVIOUS
<1>4. /\ a.nextIndex[j] = k + 1 /\ a.log = l.log /\ a.currentTerm = l.currentTerm
      /\ a.commitIndex = l.commitIndex
      /\ \A n, m : SetMatch(a, j, n, m) = SetMatch(l, j, n, m)
  <2> HIDE DEF k
  <2>1. k + 1 \in Nat
    BY <1>2
  <2>2. QED
    BY <2>1, LeaderIs
<1>5. (k + 1) - 1 = k
  BY <1>2
<1>6. CASE r.currentTerm > l.currentTerm
  <2>1. q = r /\ k = 0
    BY <1>6 DEF PeerAt, LastTry
  <2> DEFINE p == AgreeAt(l, r, j)
             u == TermAt(l.log, p)
             v == SubSeq(l.log, p + 1, Len(l.log))
  <2>2. SendToPeer(l, i, r, j) = AppendEntries(r, i, l.currentTerm, p, u, v, l.commitIndex)
    BY DEF SendToPeer
  <2> HIDE DEF p, u, v, k, q, s, t
  <2>3. SendToPeer(l, i, r, j) = r
    BY <1>6, <2>2, AppendFromOld
  <2>4. peer = r /\ ~Accepts(q, l.currentTerm, k, t)
    BY <1>6, <2>1, AppendFromOld
  <2> HIDE DEF a
  <2>5. OneTry(Start(a, q), i, j) = [leader |-> a, peer |-> peer, done |-> TRUE]
    BY <1>4, <1>5, <2>1, <2>4, TryGives DEF s, t
  <2>6. Known(l, r, j) = a
    BY <1>6, <2>1 DEF Known, a
  <2>7. Start(a, q) = Trying(l, i, r, j, LastTry(l, r, j))
    BY DEF Trying, a, q, k
  <2> HIDE DEF peer
  <2>8. QED
    BY <2>3, <2>4, <2>5, <2>6, <2>7 DEF Sent
<1>7. CASE ~(r.currentTerm > l.currentTerm)
  <2>1. k = AgreeAt(l, r, j)
    BY <1>7 DEF LastTry
  <2>2. /\ k = 0 \/ (k <= Len(r.log) /\ r.log[k].term = t)
        /\ \A h \in k + 1 .. next - 1 : ~(h <= Len(r.log) /\ r.log[h].term = TermAt(l.log, h))
    BY <2>1, AgreeAtIs
  <2> HIDE DEF k
  <2>3. /\ q \in NodeRecord /\ ~(q.currentTerm > l.currentTerm)
        /\ \A log : Recognizes(l, i, q, log) = Recognizes(l, i, r, log)
        /\ IF k = next - 1 THEN q = r
           ELSE \E m \in 0..Len(r.log) : /\ m = MinOf(k, Len(r.log)) /\ Len(q.log) = m
                                         /\ q.log = SubSeq(r.log, 1, m)
    BY <1>2, <1>7, PeerIs
  <2>4. /\ s \in Seq(Entry) /\ Len(s) = Len(l.log) - k
        /\ s = <<>> <=> k = Len(l.log)
    <3>1. k \in 0..Len(l.log)
      BY <1>1, <1>2
    <3>2. QED
      BY <1>1, <3>1, EntriesSent
  <2>5. Matches(r.log, k, t)
    BY <2>2 DEF Matches
  <2>6. Matches(q.log, k, t) /\ MergeLog(q.log, k, s) = MergeLog(r.log, k, s)
    <3>1. CASE k = next - 1
      BY <2>3, <2>5, <3>1
    <3>2. CASE k # next - 1
      <4>1. PICK m \in 0..Len(r.log) : /\ m = MinOf(k, Len(r.log)) /\ Len(q.log) = m
                                       /\ q.log = SubSeq(r.log, 1, m)
        BY <2>3, <3>2
      <4> HIDE DEF q, next
      <4>2. m = k /\ k <= Len(r.log) /\ k < Len(l.log) /\ k + 1 \in k + 1 .. next - 1
        BY <1>1, <1>2, <1>3, <2>2, <3>2, <4>1 DEF MinOf
      <4>3. k + 1 <= Len(r.log) => r.log[k + 1].term # l.log[k + 1].term
        BY <1>1, <1>2, <2>2, <4>2 DEF TermAt
      <4>4. MergeLog(SubSeq(r.log, 1, k), k, s) = MergeLog(r.log, k, s)
        BY <1>1, <1>2, <4>2, <4>3, CutMerge
      <4>5. \A h \in 1..k : q.log[h] = r.log[h]
        BY <1>1, <1>2, <4>1, <4>2, BeginningOfBeginning
      <4>6. Matches(q.log, k, t)
        BY <1>2, <2>2, <4>1, <4>2, <4>5 DEF Matches
      <4> HIDE DEF s
      <4>7. QED
        BY <4>1, <4>2, <4>4, <4>6
    <3>3. QED
      BY <3>1, <3>2
  <2> HIDE DEF q, t, a
  <2> DEFINE merged == MergeLog(r.log, k, s)
             end == FollowCommit(Recognizes(l, i, r, merged), l.commitIndex)
  <2>7. SendToPeer(l, i, r, j) = AppendEntries(r, i, l.currentTerm, k, t, s, l.commitIndex)
    BY <2>1 DEF SendToPeer, t
  <2>12. q \in NodeRecord /\ ~(q.currentTerm > l.currentTerm)
    BY <2>3
  <2> HIDE DEF s
  <2>8. SendToPeer(l, i, r, j) = end
    BY <1>7, <2>5, <2>7, AppendTaken
  <2>9. peer = FollowCommit(Recognizes(l, i, q, MergeLog(q.log, k, s)), l.commitIndex)
        /\ Accepts(q, l.currentTerm, k, t)
    BY <2>6, <2>12, AppendTaken
  <2> HIDE DEF merged, peer
  <2>10. peer = end
    <3>1. Recognizes(l, i, q, merged) = Recognizes(l, i, r, merged)
      BY <2>3
    <3>2. MergeLog(q.log, k, s) = merged
      BY <2>6 DEF merged
    <3>3. QED
      BY <2>9, <3>1, <3>2
  <2>11. OneTry(Start(a, q), i, j)
           = [leader |-> IF s = <<>> THEN a ELSE SetMatch(a, j, k + Len(s) + 1, k + Len(s)),
              peer |-> peer, done |-> TRUE]
    BY <1>4, <1>5, <2>9, TryGives DEF peer, s, t
  <2>13. (IF s = <<>> THEN a ELSE SetMatch(a, j, k + Len(s) + 1, k + Len(s))) = Known(l, r, j)
    <3>1. CASE k = Len(l.log)
      BY <1>7, <2>1, <2>4, <3>1 DEF Known, a
    <3>2. CASE k # Len(l.log)
      <4>1. k + Len(s) = Len(l.log)
        BY <1>1, <1>2, <2>4
      <4>2. SetMatch(a, j, k + Len(s) + 1, k + Len(s)) = SetMatch(l, j, Len(l.log) + 1, Len(l.log))
        BY <1>4, <4>1
      <4>3. Known(l, r, j) = SetMatch(l, j, Len(l.log) + 1, Len(l.log))
        BY <1>7, <2>1, <3>2 DEF Known
      <4>4. QED
        BY <2>4, <3>2, <4>2, <4>3
    <3>3. QED
      BY <3>1, <3>2
  <2>14. Start(a, q) = Trying(l, i, r, j, LastTry(l, r, j))
    BY DEF Trying, a, q, k
  <2>15. QED
    BY <2>8, <2>10, <2>11, <2>13, <2>14 DEF Sent
<1>8. QED
  BY <1>6, <1>7

\* The loop ends, with the closed form.
LEMMA LoopEnds ==
    ASSUME NEW l \in NodeRecord, NEW r \in NodeRecord, NEW i \in Node, NEW j \in Node,
           l.nextIndex[j] <= Len(l.log) + 1
    PROVE  SendLoop(l, i, r, j) = Sent(l, i, r, j)
<1> DEFINE next == l.nextIndex[j]
           p == LastTry(l, r, j)
<1>1. next \in Nat \ {0} /\ p \in 0 .. next - 1
  BY RecordTypes, AgreeAtIs DEF LastTry
<1>2. PICK after : /\ after[0] = Start(l, r)
                   /\ \A n \in 1 .. next : after[n] = OneTry(after[n - 1], i, j)
                   /\ SendLoop(l, i, r, j) = after[next]
  BY <1>1, LoopIsTries
<1>3. /\ \A k \in p + 1 .. next - 1 : OneTry(Trying(l, i, r, j, k), i, j) = Trying(l, i, r, j, k - 1)
      /\ OneTry(Trying(l, i, r, j, p), i, j) = Sent(l, i, r, j)
      /\ OneTry(Sent(l, i, r, j), i, j) = Sent(l, i, r, j)
  <2>1. Sent(l, i, r, j).done
    BY DEF Sent
  <2>2. OneTry(Sent(l, i, r, j), i, j) = Sent(l, i, r, j)
    BY <2>1, DoneIsDone
  <2>3. QED
    BY <2>2, TryRefused, TryLast
<1>4. Start(l, r) = Trying(l, i, r, j, next - 1)
  <2>1. next - 1 + 1 = next
    BY <1>1
  <2>2. SetNext(l, j, next) = l
    BY DEF SetNext, NodeRecord
  <2>3. PeerAt(l, i, r, j, next - 1) = r
    BY DEF PeerAt
  <2>4. QED
    BY <2>1, <2>2, <2>3 DEF Trying
<1> DEFINE Expected(n) == IF n <= next - 1 - p THEN Trying(l, i, r, j, next - 1 - n)
                          ELSE Sent(l, i, r, j)
           wrong == {n \in 0..next : after[n] # Expected(n)}
<1> HIDE DEF next, p
<1>5. wrong = {}
  <2>1. SUFFICES ASSUME wrong # {} PROVE FALSE
    OBVIOUS
  <2>2. PICK n \in wrong : \A h \in wrong : n <= h
    <3>1. wrong \subseteq Nat
      BY <1>1
    <3> HIDE DEF wrong
    <3>2. QED
      BY <2>1, <3>1, LeastIndex
  <2>3. n \in 0..next /\ after[n] # Expected(n)
    OBVIOUS
  <2>4. n # 0
    <3>1. 0 <= next - 1 - p /\ next - 1 - 0 = next - 1
      BY <1>1
    <3>2. QED
      BY <1>2, <1>4, <2>3, <3>1
  <2>5. n \in 1..next /\ n - 1 \in 0..next /\ n - 1 \notin wrong
    <3>1. n \in 1..next /\ n - 1 \in 0..next /\ ~(n <= n - 1)
      BY <1>1, <2>3, <2>4
    <3> HIDE DEF wrong
    <3>2. QED
      BY <2>2, <3>1
  <2>6. after[n - 1] = Expected(n - 1) /\ after[n] = OneTry(after[n - 1], i, j)
    BY <1>2, <2>5
  <2> HIDE DEF wrong
  <2>7. CASE n <= next - 1 - p
    <3>1. /\ next - 1 - (n - 1) \in p + 1 .. next - 1 /\ n - 1 <= next - 1 - p
          /\ next - 1 - (n - 1) - 1 = next - 1 - n
      BY <1>1, <2>5, <2>7
    <3>2. QED
      BY <1>3, <2>3, <2>6, <2>7, <3>1
  <2>8. CASE n = next - p
    <3>1. /\ n - 1 <= next - 1 - p /\ next - 1 - (n - 1) = p /\ ~(n <= next - 1 - p)
      BY <1>1, <2>5, <2>8
    <3>2. QED
      BY <1>3, <2>3, <2>6, <3>1
  <2>9. CASE n > next - p
    <3>1. ~(n - 1 <= next - 1 - p) /\ ~(n <= next - 1 - p)
      BY <1>1, <2>5, <2>9
    <3>2. QED
      BY <1>3, <2>3, <2>6, <3>1
  <2>10. QED
    BY <1>1, <2>5, <2>7, <2>8, <2>9
<1>6. next \in 0..next /\ ~(next <= next - 1 - p)
  BY <1>1
<1>7. QED
  BY <1>2, <1>5, <1>6

\* What the leader knows after it has sent to one peer.
LEMMA KnownIsAfterSending ==
    ASSUME NEW l \in NodeRecord, NEW n, NEW j \in Node, n[j] \in NodeRecord,
           l.nextIndex[j] <= Len(l.log) + 1
    PROVE  AfterSending(l, {j}, n) = Known(l, n[j], j)
<1> DEFINE newer == n[j].currentTerm > l.currentTerm
           refused == {h \in {j} : n[h].currentTerm > l.currentTerm}
           sent == {h \in {j} \ refused : AgreeAt(l, n[h], h) < Len(l.log)}
           behind == AgreeAt(l, n[j], j) < Len(l.log)
           next == [h \in Node |-> IF h \in refused THEN 1
                                   ELSE IF h \in {j} THEN Len(l.log) + 1 ELSE l.nextIndex[h]]
           match == [h \in Node |-> IF h \in sent THEN Len(l.log) ELSE l.matchIndex[h]]
<1>1. AfterSending(l, {j}, n) = [l EXCEPT !.nextIndex = next, !.matchIndex = match]
  BY DEF AfterSending
<1>2. l.nextIndex \in [Node -> Nat \ {0}] /\ l.matchIndex \in [Node -> Nat]
  BY RecordTypes
<1>3. next = [l.nextIndex EXCEPT ![j] = IF newer THEN 1 ELSE Len(l.log) + 1]
  <2>1. \A h : h \in refused <=> h = j /\ newer
    OBVIOUS
  <2> HIDE DEF refused, newer
  <2>2. QED
    BY <1>2, <2>1
<1>4. match = IF ~newer /\ behind THEN [l.matchIndex EXCEPT ![j] = Len(l.log)] ELSE l.matchIndex
  <2>1. \A h : h \in sent <=> h = j /\ ~newer /\ behind
    OBVIOUS
  <2> HIDE DEF sent, newer, behind
  <2>2. QED
    BY <1>2, <2>1
<1>5. AgreeAt(l, n[j], j) \in Nat /\ AgreeAt(l, n[j], j) <= Len(l.log) /\ Len(l.log) \in Nat
  BY AgreeAtIs, RecordTypes
<1>6. Known(l, n[j], j) = IF newer THEN SetNext(l, j, 1)
                          ELSE IF behind THEN SetMatch(l, j, Len(l.log) + 1, Len(l.log))
                          ELSE SetNext(l, j, Len(l.log) + 1)
  BY <1>5 DEF Known
<1> HIDE DEF next, match, newer, behind
<1>7. CASE newer
  BY <1>1, <1>2, <1>3, <1>4, <1>6, <1>7 DEF SetNext, NodeRecord
<1>8. CASE ~newer /\ behind
  BY <1>1, <1>2, <1>3, <1>4, <1>6, <1>8 DEF SetMatch, NodeRecord
<1>9. CASE ~newer /\ ~behind
  BY <1>1, <1>2, <1>3, <1>4, <1>6, <1>9 DEF SetNext, NodeRecord
<1>10. QED
  BY <1>7, <1>8, <1>9

LEMMA LoopIsSendToPeer == ASSUME TypeOK PROVE SendToPeerIsTheLoop
<1> DEFINE longer(i) == {Append(node[i].log, [term |-> node[i].currentTerm, message |-> m]) :
                            m \in Message}
<1>1. SUFFICES ASSUME NEW i \in Node, NEW j \in Peers(i), NEW log \in {node[i].log} \union longer(i),
                      NEW k \in 1 .. Len(log) + 1
               PROVE  LET l == [node[i] EXCEPT !.log = log, !.nextIndex[j] = k]
                      IN SendLoop(l, i, node[j], j)
                           = [leader |-> AfterSending(l, {j}, node),
                              peer |-> SendToPeer(l, i, node[j], j), done |-> TRUE]
  BY DEF SendToPeerIsTheLoop
<1> DEFINE l == [node[i] EXCEPT !.log = log, !.nextIndex[j] = k]
<1>2. j \in Node /\ node[i] \in NodeRecord /\ node[j] \in NodeRecord
  BY DEF TypeOK, Peers
<1>3. log \in Seq(Entry) /\ Len(log) \in Nat
  <2>1. node[i].log \in Seq(Entry) /\ node[i].currentTerm \in 0..MaxTerm
    BY <1>2 DEF NodeRecord
  <2>2. ASSUME NEW m \in Message
        PROVE  Append(node[i].log, [term |-> node[i].currentTerm, message |-> m]) \in Seq(Entry)
    <3>1. [term |-> node[i].currentTerm, message |-> m] \in Entry
      BY <2>1 DEF Entry
    <3>2. QED
      BY <2>1, <3>1, AppendProperties
  <2>3. log \in Seq(Entry)
    BY <2>1, <2>2
  <2>4. QED
    BY <2>3, LenProperties
<1> HIDE DEF longer
<1>4. l \in NodeRecord /\ l.log = log /\ l.nextIndex[j] = k
  <2>1. node[i].nextIndex \in [Node -> Nat \ {0}] /\ k \in Nat \ {0}
    BY <1>2, <1>3, RecordTypes
  <2>2. [node[i].nextIndex EXCEPT ![j] = k] \in [Node -> Nat \ {0}]
    BY <1>2, <2>1
  <2>3. l \in NodeRecord /\ l.log = log /\ l.nextIndex = [node[i].nextIndex EXCEPT ![j] = k]
    BY <1>2, <1>3, <2>1, <2>2 DEF NodeRecord
  <2> HIDE DEF l
  <2>4. QED
    BY <1>2, <2>1, <2>3
<1> HIDE DEF l
<1>5. l.nextIndex[j] <= Len(l.log) + 1
  BY <1>3, <1>4
<1>6. SendLoop(l, i, node[j], j) = Sent(l, i, node[j], j)
  BY <1>2, <1>4, <1>5, LoopEnds
<1>7. AfterSending(l, {j}, node) = Known(l, node[j], j)
  BY <1>2, <1>4, <1>5, KnownIsAfterSending
<1>8. QED
  BY <1>6, <1>7, Zenon DEF Sent, l

\* The backtracking loop of _send_append_entries_to_peer (consensus.py:490-525)
\* always ends, within nextIndex tries, and leaves the peer and the leader as the
\* one append at the point of agreement does: for every log, term and nextIndex the
\* two may have.  What the other theorems say of SendToPeer so holds of the loop.
THEOREM LoopIsOneAppend == Spec => []SendToPeerIsTheLoop
<1>1. TypeOK => SendToPeerIsTheLoop
  BY LoopIsSendToPeer
<1>2. QED
  BY <1>1, TypeCorrect, PTL
=============================================================================
