---------------------------- MODULE RaftLogProofs ----------------------------
(***************************************************************************)
(* Proofs about Raft, continued from RaftProofs: logs that agree on a term *)
(* agree up to it, and what a node applied stays in every later leader's   *)
(* log.  A call of the program changes several nodes at once, so a step is *)
(* taken apart into small changes of the nodes (a vote, a victory, an      *)
(* appended entry, a round of sends, a commit), each of which keeps the    *)
(* invariant.  The invariant is therefore stated for any fields n of the   *)
(* nodes and any set el of elections won, not for the variables.           *)
(***************************************************************************)
EXTENDS RaftProofs

-----------------------------------------------------------------------------
(* The invariant, first part: where entries come from.                     *)

\* An entry is of a term somebody won, no later than the term of who holds it.
EntriesAreWon(n, el) ==
    \A j \in Node : \A k \in 1..Len(n[j].log) :
        /\ 1 <= n[j].log[k].term /\ n[j].log[k].term <= n[j].currentTerm
        /\ \E x \in Node : <<n[j].log[k].term, x>> \in el

TermsRise(n) ==
    \A j \in Node : \A h, k \in 1..Len(n[j].log) :
        h <= k => n[j].log[h].term <= n[j].log[k].term

LogsMatch(n) ==
    \A i, j \in Node : \A k \in 1..Len(n[i].log) :
        k <= Len(n[j].log) /\ n[i].log[k].term = n[j].log[k].term
            => \A h \in 1..k : n[i].log[h] = n[j].log[h]

LeadersWon(n, el) ==
    \A j \in Node : n[j].state = "LEADER" =>
        /\ <<n[j].currentTerm, j>> \in el
        /\ \A k \in Node : n[j].matchIndex[k] <= Len(n[j].log)

\* A majority has reached the term of any election that was won.
TermsWereReached(n, el) ==
    \A t \in 1..MaxTerm, x \in Node : <<t, x>> \in el =>
        n[x].currentTerm >= t /\ Majority({k \in Node : n[k].currentTerm >= t})

\* A leader has every entry of its term.
LeadersHaveTheirTerm(n) ==
    \A j \in Node : n[j].state = "LEADER" =>
        \A h \in Node : \A k \in 1..Len(n[h].log) :
            n[h].log[k].term = n[j].currentTerm
                => k <= Len(n[j].log) /\ n[j].log[k].term = n[j].currentTerm

MatchInv(n, el) ==
    /\ EntriesAreWon(n, el) /\ TermsRise(n) /\ LogsMatch(n)
    /\ LeadersWon(n, el) /\ TermsWereReached(n, el) /\ LeadersHaveTheirTerm(n)

\* What a leader counts as matched is: MatchIndexIsHeld, of any fields.
Held(n) ==
    \A i, j \in Node : n[i].state = "LEADER" /\ n[i].matchIndex[j] > 0 =>
        /\ n[j].currentTerm >= n[i].currentTerm
        /\ n[j].currentTerm = n[i].currentTerm =>
             \A k \in 1..n[i].matchIndex[j] :
                 k <= Len(n[j].log) /\ n[j].log[k] = n[i].log[k]

-----------------------------------------------------------------------------
(* Second part: what is committed, or could be, is safe.                   *)

\* P (not empty) is lost in no way: a log with an entry as late as the last of P
\* begins with P, and so does the log of every leader of a later term.
Safe(n, P) ==
    LET t == P[Len(P)].term
    IN /\ \A j \in Node : \A k \in 1..Len(n[j].log) :
            \/ n[j].log[k].term > t
            \/ n[j].log[k].term = t /\ k >= Len(P)
            => k >= Len(P) /\ Prefix(P, n[j].log)
       /\ \A j \in Node : n[j].state = "LEADER" /\ n[j].currentTerm > t
            => Prefix(P, n[j].log)

Holders(n, P) == {h \in Node : Prefix(P, n[h].log)}

\* Leader l may still find a majority for its entry m: nodes that have it, as far
\* as l knows, and nodes that would still take it from l.
Choosable(n, l, m) ==
    Majority({l} \union {j \in Peers(l) : \/ n[l].matchIndex[j] >= m
                                          \/ n[j].currentTerm <= n[l].currentTerm})

AppliedIsOfLog(n) ==
    \A j \in Node : n[j].commitIndex = Len(n[j].applied) /\ Prefix(n[j].applied, n[j].log)

AppliedIsSafe(n) ==
    \A j \in Node : Len(n[j].applied) > 0 =>
        Majority(Holders(n, n[j].applied)) /\ Safe(n, n[j].applied)

ChoosableIsSafe(n) ==
    \A l \in Node : n[l].state = "LEADER" =>
        \A m \in 1..Len(n[l].log) :
            n[l].log[m].term = n[l].currentTerm /\ Choosable(n, l, m) =>
                /\ Safe(n, SubSeq(n[l].log, 1, m))
                /\ \A h \in Peers(l) : n[l].matchIndex[h] >= m
                     => h \in Holders(n, SubSeq(n[l].log, 1, m))

CommitInv(n) == AppliedIsOfLog(n) /\ AppliedIsSafe(n) /\ ChoosableIsSafe(n)

-----------------------------------------------------------------------------
(* Types, prefixes, majorities.                                            *)

WellFormed(n) == \A j \in Node : NodeOK(n[j])

LEMMA FieldTypes ==
    ASSUME NEW n, WellFormed(n), NEW j \in Node
    PROVE  /\ n[j].log \in Seq(Entry) /\ Len(n[j].log) \in Nat
           /\ n[j].applied \in Seq(Entry) /\ Len(n[j].applied) \in Nat
           /\ n[j].currentTerm \in Nat /\ n[j].currentTerm \in 0..MaxTerm
           /\ n[j].commitIndex \in Nat
           /\ \A k \in Node : n[j].matchIndex[k] \in Nat
           /\ \A k \in 1..Len(n[j].log) :
                n[j].log[k] \in Entry /\ n[j].log[k].term \in Nat
<1>1. NodeOK(n[j])
  BY DEF WellFormed
<1>2. n[j] \in NodeRecord
  BY <1>1 DEF NodeOK
<1>3. /\ n[j].log \in Seq(Entry) /\ n[j].applied \in Seq(Entry)
      /\ n[j].currentTerm \in 0..MaxTerm /\ n[j].commitIndex \in Nat
      /\ n[j].matchIndex \in [Node -> Nat]
  BY <1>2 DEF NodeRecord
<1>4. \A k \in 1..Len(n[j].log) : n[j].log[k] \in Entry
  BY <1>3, ElementOfSeq
<1>5. \A x \in Entry : x.term \in Nat
  BY ConstantsOK DEF Entry
<1>6. QED
  BY <1>3, <1>4, <1>5, ConstantsOK, LenProperties

LEMMA PrefixIsTransitive ==
    ASSUME NEW s \in Seq(Entry), NEW t \in Seq(Entry), NEW u \in Seq(Entry),
           Prefix(s, t), Prefix(t, u)
    PROVE  Prefix(s, u)
<1>1. Len(s) \in Nat /\ Len(t) \in Nat /\ Len(u) \in Nat
  BY LenProperties
<1>2. QED
  BY <1>1 DEF Prefix

LEMMA PrefixOfItself == ASSUME NEW s \in Seq(Entry) PROVE Prefix(s, s)
BY LenProperties DEF Prefix

\* What begins alike is alike, up to the shorter.
LEMMA PrefixesCompare ==
    ASSUME NEW s \in Seq(Entry), NEW t \in Seq(Entry), NEW u \in Seq(Entry),
           Prefix(s, u), Prefix(t, u), Len(s) <= Len(t)
    PROVE  Prefix(s, t)
<1>1. Len(s) \in Nat /\ Len(t) \in Nat /\ Len(u) \in Nat
  BY LenProperties
<1>2. QED
  BY <1>1 DEF Prefix

LEMMA SubSeqIsPrefix ==
    ASSUME NEW s \in Seq(Entry), NEW m \in Nat, m <= Len(s)
    PROVE  /\ SubSeq(s, 1, m) \in Seq(Entry) /\ Len(SubSeq(s, 1, m)) = m
           /\ \A k \in 1..m : SubSeq(s, 1, m)[k] = s[k]
           /\ Prefix(SubSeq(s, 1, m), s)
<1>1. Len(s) \in Nat
  BY LenProperties
<1>2. /\ SubSeq(s, 1, m) \in Seq(Entry) /\ Len(SubSeq(s, 1, m)) = m
      /\ \A k \in 1..m : SubSeq(s, 1, m)[k] = s[k]
  BY <1>1, SubSeqProperties
<1>3. QED
  BY <1>1, <1>2 DEF Prefix

LEMMA MajorityGrows ==
    ASSUME NEW P, NEW Q \in SUBSET Node, P \subseteq Q, Majority(P) PROVE Majority(Q)
<1>1. IsFiniteSet(Node)
  BY NodesAssumption DEF NodesAssumption
<1>2. IsFiniteSet(Q)
  BY <1>1, FS_Subset
<1>3. Cardinality(P) <= Cardinality(Q) /\ Cardinality(P) \in Nat /\ Cardinality(Q) \in Nat
      /\ Cardinality(Node) \in Nat
  BY <1>1, <1>2, FS_Subset, FS_CardinalityType
<1>4. QED
  BY <1>3 DEF Majority

LEMMA MajorityIsSome ==
    ASSUME NEW P \in SUBSET Node, Majority(P) PROVE \E k \in P : TRUE
<1>1. P \intersect P # {}
  BY MajoritiesMeet
<1>2. QED
  BY <1>1

-----------------------------------------------------------------------------
(* Changes of the nodes that make no new leader and no new entry.          *)

\* Every log of n2 begins one of n, of a node in no later term; leaders lead on.
Follows(n, n2) ==
    \A j \in Node :
        /\ n2[j].currentTerm >= n[j].currentTerm
        /\ \E h \in Node : /\ Prefix(n2[j].log, n[h].log)
                           /\ n[h].currentTerm <= n2[j].currentTerm
        /\ n2[j].state = "LEADER" =>
             /\ n[j].state = "LEADER"
             /\ n2[j].currentTerm = n[j].currentTerm /\ n2[j].log = n[j].log
             /\ \A k \in Node : n2[j].matchIndex[k] <= Len(n2[j].log)

\* An entry of n2 is one of n.
LEMMA EntriesAreOld ==
    ASSUME NEW n, WellFormed(n), NEW n2, WellFormed(n2), Follows(n, n2), NEW j \in Node
    PROVE  \E h \in Node :
             /\ n[h].currentTerm <= n2[j].currentTerm
             /\ Len(n2[j].log) <= Len(n[h].log)
             /\ \A k \in 1..Len(n2[j].log) : k \in 1..Len(n[h].log) /\ n2[j].log[k] = n[h].log[k]
<1>1. PICK h \in Node : Prefix(n2[j].log, n[h].log) /\ n[h].currentTerm <= n2[j].currentTerm
  BY DEF Follows
<1>2. Len(n2[j].log) \in Nat /\ Len(n[h].log) \in Nat
  BY FieldTypes
<1>3. QED
  BY <1>1, <1>2 DEF Prefix

LEMMA FollowingMatches ==
    ASSUME NEW n, WellFormed(n), NEW n2, WellFormed(n2), NEW el, MatchInv(n, el), Follows(n, n2)
    PROVE  MatchInv(n2, el)
<1>1. \A j \in Node : /\ Len(n[j].log) \in Nat /\ Len(n2[j].log) \in Nat
                      /\ n[j].currentTerm \in Nat /\ n2[j].currentTerm \in Nat
                      /\ n[j].currentTerm <= n2[j].currentTerm
  BY FieldTypes DEF Follows
<1>2. EntriesAreWon(n2, el)
  <2> SUFFICES ASSUME NEW j \in Node, NEW k \in 1..Len(n2[j].log)
               PROVE  /\ 1 <= n2[j].log[k].term /\ n2[j].log[k].term <= n2[j].currentTerm
                      /\ \E x \in Node : <<n2[j].log[k].term, x>> \in el
    BY DEF EntriesAreWon
  <2>1. PICK h \in Node : /\ n[h].currentTerm <= n2[j].currentTerm
                          /\ k \in 1..Len(n[h].log) /\ n2[j].log[k] = n[h].log[k]
    BY EntriesAreOld
  <2>2. /\ 1 <= n[h].log[k].term /\ n[h].log[k].term <= n[h].currentTerm
        /\ \E x \in Node : <<n[h].log[k].term, x>> \in el
    BY <2>1 DEF MatchInv, EntriesAreWon
  <2>3. n[h].log[k].term \in Nat
    BY <2>1, FieldTypes
  <2>4. n[h].currentTerm \in Nat /\ n2[j].currentTerm \in Nat
    BY <1>1
  <2>5. n[h].log[k].term <= n2[j].currentTerm
    BY <2>1, <2>2, <2>3, <2>4
  <2>6. QED
    BY <2>1, <2>2, <2>5
<1>3. TermsRise(n2)
  <2> SUFFICES ASSUME NEW j \in Node, NEW a \in 1..Len(n2[j].log), NEW b \in 1..Len(n2[j].log),
                      a <= b
               PROVE  n2[j].log[a].term <= n2[j].log[b].term
    BY DEF TermsRise
  <2>1. PICK h \in Node :
          \A k \in 1..Len(n2[j].log) : k \in 1..Len(n[h].log) /\ n2[j].log[k] = n[h].log[k]
    BY EntriesAreOld
  <2>2. n[h].log[a].term <= n[h].log[b].term
    BY <2>1 DEF MatchInv, TermsRise
  <2>3. QED
    BY <2>1, <2>2
<1>4. LogsMatch(n2)
  <2> SUFFICES ASSUME NEW i \in Node, NEW j \in Node, NEW k \in 1..Len(n2[i].log),
                      k <= Len(n2[j].log), n2[i].log[k].term = n2[j].log[k].term,
                      NEW a \in 1..k
               PROVE  n2[i].log[a] = n2[j].log[a]
    BY DEF LogsMatch
  <2>1. PICK g \in Node :
          \A x \in 1..Len(n2[i].log) : x \in 1..Len(n[g].log) /\ n2[i].log[x] = n[g].log[x]
    BY EntriesAreOld
  <2>2. PICK h \in Node :
          \A x \in 1..Len(n2[j].log) : x \in 1..Len(n[h].log) /\ n2[j].log[x] = n[h].log[x]
    BY EntriesAreOld
  <2>3. /\ k \in 1..Len(n2[i].log) /\ k \in 1..Len(n2[j].log)
        /\ a \in 1..Len(n2[i].log) /\ a \in 1..Len(n2[j].log)
    BY <1>1
  <2>4. /\ k \in 1..Len(n[g].log) /\ k \in 1..Len(n[h].log)
        /\ n[g].log[k].term = n[h].log[k].term
    BY <2>1, <2>2, <2>3
  <2>5. k <= Len(n[h].log)
    BY <1>1, <2>4
  <2>6. n[g].log[a] = n[h].log[a]
    BY <2>4, <2>5 DEF MatchInv, LogsMatch
  <2>7. QED
    BY <2>1, <2>2, <2>3, <2>6
<1>5. LeadersWon(n2, el)
  <2> SUFFICES ASSUME NEW j \in Node, n2[j].state = "LEADER"
               PROVE  /\ <<n2[j].currentTerm, j>> \in el
                      /\ \A k \in Node : n2[j].matchIndex[k] <= Len(n2[j].log)
    BY DEF LeadersWon
  <2>1. QED
    BY DEF Follows, MatchInv, LeadersWon
<1>6. TermsWereReached(n2, el)
  <2> SUFFICES ASSUME NEW t \in 1..MaxTerm, NEW x \in Node, <<t, x>> \in el
               PROVE  n2[x].currentTerm >= t /\ Majority({k \in Node : n2[k].currentTerm >= t})
    BY DEF TermsWereReached
  <2>1. n[x].currentTerm >= t /\ Majority({k \in Node : n[k].currentTerm >= t})
    BY DEF MatchInv, TermsWereReached
  <2>2. {k \in Node : n[k].currentTerm >= t} \subseteq {k \in Node : n2[k].currentTerm >= t}
    BY <1>1, ConstantsOK
  <2>3. QED
    BY <1>1, <2>1, <2>2, MajorityGrows, ConstantsOK
<1>7. LeadersHaveTheirTerm(n2)
  <2> SUFFICES ASSUME NEW j \in Node, n2[j].state = "LEADER",
                      NEW g \in Node, NEW k \in 1..Len(n2[g].log),
                      n2[g].log[k].term = n2[j].currentTerm
               PROVE  k <= Len(n2[j].log) /\ n2[j].log[k].term = n2[j].currentTerm
    BY DEF LeadersHaveTheirTerm
  <2>1. PICK h \in Node : k \in 1..Len(n[h].log) /\ n2[g].log[k] = n[h].log[k]
    BY EntriesAreOld
  <2>2. /\ n[j].state = "LEADER"
        /\ n2[j].currentTerm = n[j].currentTerm /\ n2[j].log = n[j].log
    BY DEF Follows
  <2>3. k <= Len(n[j].log) /\ n[j].log[k].term = n[j].currentTerm
    BY <2>1, <2>2 DEF MatchInv, LeadersHaveTheirTerm
  <2>4. QED
    BY <2>2, <2>3
<1>8. QED
  BY <1>2, <1>3, <1>4, <1>5, <1>6, <1>7 DEF MatchInv

\* Only what is committed changes.
SameLogs(n, n2) ==
    \A j \in Node :
        /\ n2[j].log = n[j].log /\ n2[j].currentTerm = n[j].currentTerm
        /\ n2[j].state = n[j].state /\ n2[j].matchIndex = n[j].matchIndex

LEMMA SameLogsFollow ==
    ASSUME NEW n, WellFormed(n), NEW n2, WellFormed(n2), NEW el, MatchInv(n, el), SameLogs(n, n2)
    PROVE  Follows(n, n2)
<1>1. \A j \in Node :
        /\ n2[j].log = n[j].log /\ n2[j].currentTerm = n[j].currentTerm
        /\ n2[j].state = n[j].state /\ n2[j].matchIndex = n[j].matchIndex
        /\ n[j].log \in Seq(Entry) /\ n[j].currentTerm \in Nat
  BY FieldTypes DEF SameLogs
<1>2. \A j \in Node : Prefix(n2[j].log, n[j].log)
  BY <1>1, PrefixOfItself
<1>3. \A j \in Node : n2[j].state = "LEADER" =>
        \A k \in Node : n2[j].matchIndex[k] <= Len(n2[j].log)
  BY <1>1 DEF MatchInv, LeadersWon
<1>4. QED
  BY <1>1, <1>2, <1>3 DEF Follows

-----------------------------------------------------------------------------
(* What is safe stays safe.                                                *)

LEMMA LastTermType ==
    ASSUME NEW P \in Seq(Entry), Len(P) > 0
    PROVE  Len(P) \in Nat \ {0} /\ P[Len(P)].term \in Nat
<1>1. Len(P) \in 1..Len(P) /\ Len(P) \in Nat \ {0}
  BY LenProperties
<1>2. P[Len(P)] \in Entry
  BY <1>1, ElementOfSeq
<1>3. QED
  BY <1>1, <1>2, ConstantsOK DEF Entry

\* Safe, a log at a time.
LEMMA SafeLog ==
    ASSUME NEW n, NEW P, Safe(n, P), NEW j \in Node, NEW k \in 1..Len(n[j].log),
           \/ n[j].log[k].term > P[Len(P)].term
           \/ n[j].log[k].term = P[Len(P)].term /\ k >= Len(P)
    PROVE  k >= Len(P) /\ Prefix(P, n[j].log)
BY DEF Safe

LEMMA SafeLeader ==
    ASSUME NEW n, NEW P, Safe(n, P), NEW j \in Node, n[j].state = "LEADER",
           n[j].currentTerm > P[Len(P)].term
    PROVE  Prefix(P, n[j].log)
BY DEF Safe

LEMMA SafeStays ==
    ASSUME NEW n, WellFormed(n), NEW n2, WellFormed(n2), Follows(n, n2),
           NEW P \in Seq(Entry), Len(P) > 0, Safe(n, P)
    PROVE  Safe(n2, P)
<1> DEFINE t == P[Len(P)].term
<1>1. Len(P) \in Nat \ {0} /\ t \in Nat
  BY LastTermType
<1>2. ASSUME NEW j \in Node, NEW k \in 1..Len(n2[j].log),
             \/ n2[j].log[k].term > t
             \/ n2[j].log[k].term = t /\ k >= Len(P)
      PROVE  k >= Len(P) /\ Prefix(P, n2[j].log)
  <2>1. PICK h \in Node :
          /\ Len(n2[j].log) <= Len(n[h].log)
          /\ \A x \in 1..Len(n2[j].log) : x \in 1..Len(n[h].log) /\ n2[j].log[x] = n[h].log[x]
    BY EntriesAreOld
  <2>2. k >= Len(P) /\ Prefix(P, n[h].log)
    BY <1>2, <2>1, SafeLog
  <2>3. Len(n2[j].log) \in Nat
    BY FieldTypes
  <2>4. QED
    BY <1>1, <2>1, <2>2, <2>3 DEF Prefix
<1>3. ASSUME NEW j \in Node, n2[j].state = "LEADER", n2[j].currentTerm > t
      PROVE  Prefix(P, n2[j].log)
  <2>1. /\ n[j].state = "LEADER"
        /\ n2[j].currentTerm = n[j].currentTerm /\ n2[j].log = n[j].log
    BY <1>3 DEF Follows
  <2>2. QED
    BY <1>3, <2>1, SafeLeader
<1>4. QED
  BY <1>2, <1>3 DEF Safe

\* A leader has what is safe and of its term or an earlier one.
LEMMA LeaderHolds ==
    ASSUME NEW n, WellFormed(n), NEW el, MatchInv(n, el),
           NEW P \in Seq(Entry), Len(P) > 0, Safe(n, P), NEW h \in Holders(n, P),
           NEW l \in Node, n[l].state = "LEADER", P[Len(P)].term <= n[l].currentTerm
    PROVE  Prefix(P, n[l].log)
<1> DEFINE t == P[Len(P)].term
<1>1. Len(P) \in Nat \ {0} /\ t \in Nat /\ n[l].currentTerm \in Nat
  BY LastTermType, FieldTypes
<1>2. CASE n[l].currentTerm > t
  BY <1>2, SafeLeader
<1>3. CASE n[l].currentTerm = t
  <2>1. h \in Node /\ Prefix(P, n[h].log) /\ Len(n[h].log) \in Nat
    BY FieldTypes DEF Holders
  <2>2. Len(P) \in 1..Len(n[h].log) /\ n[h].log[Len(P)].term = n[l].currentTerm
    BY <1>1, <1>3, <2>1 DEF Prefix
  <2>3. Len(P) <= Len(n[l].log) /\ n[l].log[Len(P)].term = n[l].currentTerm
    BY <2>1, <2>2 DEF MatchInv, LeadersHaveTheirTerm
  <2>4. Len(P) \in 1..Len(n[l].log)
    BY <1>1, <2>3, FieldTypes
  <2>5. QED
    BY <1>1, <1>3, <2>3, <2>4, SafeLog
<1>4. QED
  BY <1>1, <1>2, <1>3

\* The last term of what a node holds is no later than its own.
LEMMA HeldTerm ==
    ASSUME NEW n, WellFormed(n), NEW el, MatchInv(n, el),
           NEW P \in Seq(Entry), Len(P) > 0, NEW h \in Holders(n, P)
    PROVE  1 <= P[Len(P)].term /\ P[Len(P)].term <= n[h].currentTerm
<1>1. h \in Node /\ Prefix(P, n[h].log) /\ Len(P) \in Nat \ {0} /\ Len(n[h].log) \in Nat
  BY FieldTypes, LastTermType DEF Holders
<1>2. Len(P) \in 1..Len(n[h].log) /\ n[h].log[Len(P)] = P[Len(P)]
  BY <1>1 DEF Prefix
<1>3. QED
  BY <1>1, <1>2 DEF MatchInv, EntriesAreWon

\* An entry of a leader, as the last of the beginning of its log.
LEMMA Beginning ==
    ASSUME NEW n, WellFormed(n), NEW l \in Node, NEW m \in 1..Len(n[l].log)
    PROVE  LET P == SubSeq(n[l].log, 1, m)
           IN /\ P \in Seq(Entry) /\ Len(P) = m /\ Len(P) > 0
              /\ P[Len(P)] = n[l].log[m]
              /\ Prefix(P, n[l].log) /\ l \in Holders(n, P)
<1>1. n[l].log \in Seq(Entry) /\ Len(n[l].log) \in Nat
  BY FieldTypes
<1>2. m \in Nat /\ m <= Len(n[l].log) /\ m \in 1..m /\ m > 0
  BY <1>1
<1> DEFINE P == SubSeq(n[l].log, 1, m)
<1>3. P \in Seq(Entry) /\ Len(P) = m /\ P[m] = n[l].log[m] /\ Prefix(P, n[l].log)
  BY <1>1, <1>2, SubSeqIsPrefix
<1> HIDE DEF P
<1>4. QED
  BY <1>2, <1>3 DEF P, Holders

\* What a change that makes no new leader and no new entry has to show for the
\* second part of the invariant.
Keeps(n, n2) ==
    /\ \A P \in Seq(Entry), h \in Node :
         Len(P) > 0 /\ Safe(n, P) /\ Prefix(P, n[h].log) => Prefix(P, n2[h].log)
    /\ \A j \in Node : \E h \in Node : n2[j].applied = n[h].applied
    /\ \A l \in Node : n2[l].state = "LEADER" => \A h \in Peers(l) :
         \/ n2[l].matchIndex[h] = n[l].matchIndex[h]
         \/ n[h].currentTerm <= n[l].currentTerm /\ Prefix(n2[l].log, n2[h].log)

LEMMA HoldersStay ==
    ASSUME NEW n, NEW n2, Keeps(n, n2), NEW P \in Seq(Entry), Len(P) > 0, Safe(n, P)
    PROVE  Holders(n, P) \subseteq Holders(n2, P)
BY DEF Keeps, Holders

LEMMA FollowingCommits ==
    ASSUME NEW n, WellFormed(n), NEW n2, WellFormed(n2), NEW el, MatchInv(n, el),
           CommitInv(n), Follows(n, n2), Keeps(n, n2), AppliedIsOfLog(n2)
    PROVE  CommitInv(n2)
<1>1. AppliedIsSafe(n2)
  <2> SUFFICES ASSUME NEW j \in Node, Len(n2[j].applied) > 0
               PROVE  Majority(Holders(n2, n2[j].applied)) /\ Safe(n2, n2[j].applied)
    BY DEF AppliedIsSafe
  <2> DEFINE P == n2[j].applied
  <2>1. PICK h \in Node : P = n[h].applied
    BY DEF Keeps
  <2>2. P \in Seq(Entry) /\ Len(P) > 0
    BY FieldTypes
  <2>3. Majority(Holders(n, P)) /\ Safe(n, P)
    BY <2>1, <2>2 DEF CommitInv, AppliedIsSafe
  <2> HIDE DEF P
  <2>4. Holders(n, P) \subseteq Holders(n2, P) /\ Holders(n2, P) \in SUBSET Node
    BY <2>2, <2>3, HoldersStay DEF Holders
  <2>5. QED
    BY <2>2, <2>3, <2>4, MajorityGrows, SafeStays DEF P
<1>2. ChoosableIsSafe(n2)
  <2> SUFFICES ASSUME NEW l \in Node, n2[l].state = "LEADER",
                      NEW m \in 1..Len(n2[l].log),
                      n2[l].log[m].term = n2[l].currentTerm, Choosable(n2, l, m)
               PROVE  /\ Safe(n2, SubSeq(n2[l].log, 1, m))
                      /\ \A h \in Peers(l) : n2[l].matchIndex[h] >= m
                           => h \in Holders(n2, SubSeq(n2[l].log, 1, m))
    BY DEF ChoosableIsSafe
  <2>1. /\ n[l].state = "LEADER" /\ n2[l].currentTerm = n[l].currentTerm
        /\ n2[l].log = n[l].log
    BY DEF Follows
  <2> DEFINE P == SubSeq(n[l].log, 1, m)
             Q == {l} \union {j \in Peers(l) : \/ n[l].matchIndex[j] >= m
                                               \/ n[j].currentTerm <= n[l].currentTerm}
             Q2 == {l} \union {j \in Peers(l) : \/ n2[l].matchIndex[j] >= m
                                                \/ n2[j].currentTerm <= n2[l].currentTerm}
  <2>2. ASSUME NEW j \in Peers(l),
               n2[l].matchIndex[j] >= m \/ n2[j].currentTerm <= n2[l].currentTerm
        PROVE  n[l].matchIndex[j] >= m \/ n[j].currentTerm <= n[l].currentTerm
    <3>1. j \in Node
      BY DEF Peers
    <3>2. /\ n[j].currentTerm \in Nat /\ n2[j].currentTerm \in Nat /\ n[l].currentTerm \in Nat
          /\ n[j].currentTerm <= n2[j].currentTerm
      BY <3>1, FieldTypes DEF Follows
    <3>3. \/ n2[l].matchIndex[j] = n[l].matchIndex[j]
          \/ n[j].currentTerm <= n[l].currentTerm
      BY DEF Keeps
    <3>4. QED
      BY <2>1, <2>2, <3>2, <3>3
  <2>3. Q2 \subseteq Q /\ Q \in SUBSET Node
    BY <2>2 DEF Peers
  <2>4. Majority(Q)
    BY <2>3, MajorityGrows DEF Choosable
  <2>5. m \in 1..Len(n[l].log) /\ n[l].log[m].term = n[l].currentTerm
    BY <2>1
  <2>6. /\ Safe(n, P)
        /\ \A h \in Peers(l) : n[l].matchIndex[h] >= m => h \in Holders(n, P)
    BY <2>1, <2>4, <2>5 DEF CommitInv, ChoosableIsSafe, Choosable
  <2>7. P \in Seq(Entry) /\ Len(P) > 0 /\ Prefix(P, n[l].log)
    BY <2>5, Beginning
  <2> HIDE DEF P
  <2>8. Safe(n2, P)
    BY <2>6, <2>7, SafeStays
  <2>9. ASSUME NEW h \in Peers(l), n2[l].matchIndex[h] >= m PROVE h \in Holders(n2, P)
    <3>1. h \in Node
      BY DEF Peers
    <3>2. CASE n2[l].matchIndex[h] = n[l].matchIndex[h]
      BY <2>6, <2>7, <2>9, <3>2, HoldersStay
    <3>3. CASE Prefix(n2[l].log, n2[h].log)
      <4>1. n2[l].log \in Seq(Entry) /\ n2[h].log \in Seq(Entry)
        BY <3>1, FieldTypes
      <4>2. QED
        BY <2>1, <2>7, <3>1, <3>3, <4>1, PrefixIsTransitive DEF Holders
    <3>4. QED
      BY <3>2, <3>3 DEF Keeps
  <2>10. QED
    BY <2>1, <2>8, <2>9 DEF P
<1>3. QED
  BY <1>1, <1>2 DEF CommitInv

-----------------------------------------------------------------------------
(* What append_entries does to a log.                                      *)

\* Keeping k entries that log shares with all, and taking the rest of all from
\* behind prev, gives all; if log is not shorter than all it gives log.
LEMMA JoinGives ==
    ASSUME NEW log \in Seq(Entry), NEW all \in Seq(Entry), NEW prev \in 0..Len(all),
           NEW k \in prev..Len(log), \A h \in 1..k : h <= Len(all) => log[h] = all[h]
    PROVE  LET joined == SubSeq(log, 1, k)
                            \o SubSeq(SubSeq(all, prev + 1, Len(all)), k - prev + 1, Len(all) - prev)
           IN /\ k <= Len(all) => joined = all
              /\ k = Len(log) /\ k >= Len(all) => joined = log
<1> DEFINE entries == SubSeq(all, prev + 1, Len(all))
           rest == SubSeq(entries, k - prev + 1, Len(all) - prev)
           kept == SubSeq(log, 1, k)
           joined == kept \o rest
<1>1. Len(log) \in Nat /\ Len(all) \in Nat
  BY LenProperties
<1>0. prev \in Nat /\ k \in Nat /\ prev <= k /\ k <= Len(log) /\ prev <= Len(all)
  BY <1>1
<1>2. \A h \in 1..Len(all) : all[h] \in Entry
  BY ElementOfSeq
<1>3. /\ entries \in Seq(Entry) /\ Len(entries) = Len(all) - prev
      /\ \A h \in 1..Len(all) - prev : entries[h] = all[prev + h]
  <2>1. \A h \in prev + 1 .. Len(all) : all[h] \in Entry
    BY <1>0, <1>2
  <2>2. /\ entries \in Seq(Entry)
        /\ Len(entries) = IF prev + 1 <= Len(all) THEN Len(all) - (prev + 1) + 1 ELSE 0
        /\ \A h \in 1..Len(all) - (prev + 1) + 1 : entries[h] = all[prev + 1 + h - 1]
    BY <1>0, <1>1, <2>1, SubSeqProperties
  <2> HIDE DEF entries
  <2>3. QED
    BY <1>0, <1>1, <2>2
<1> HIDE DEF entries
<1>4. /\ rest \in Seq(Entry) /\ Len(rest) = IF k < Len(all) THEN Len(all) - k ELSE 0
      /\ \A h \in 1..Len(all) - k : rest[h] = entries[k - prev + h]
  <2>1. \A h \in k - prev + 1 .. Len(all) - prev : entries[h] \in Entry
    <3>1. \A h \in 1..Len(entries) : entries[h] \in Entry
      BY <1>3, ElementOfSeq
    <3>2. QED
      BY <1>0, <1>1, <1>3, <3>1
  <2>2. /\ rest \in Seq(Entry)
        /\ Len(rest) = IF k - prev + 1 <= Len(all) - prev
                       THEN (Len(all) - prev) - (k - prev + 1) + 1 ELSE 0
        /\ \A h \in 1..(Len(all) - prev) - (k - prev + 1) + 1 :
             rest[h] = entries[(k - prev + 1) + h - 1]
    BY <1>0, <1>1, <2>1, SubSeqProperties
  <2> HIDE DEF rest
  <2>3. Len(rest) = IF k < Len(all) THEN Len(all) - k ELSE 0
    BY <1>0, <1>1, <2>2
  <2>4. ASSUME NEW h \in 1..Len(all) - k PROVE rest[h] = entries[k - prev + h]
    <3>1. /\ h \in 1..(Len(all) - prev) - (k - prev + 1) + 1
          /\ (k - prev + 1) + h - 1 = k - prev + h
      BY <1>0, <1>1
    <3>2. QED
      BY <2>2, <3>1
  <2>5. QED
    BY <2>2, <2>3, <2>4
<1>5. /\ kept \in Seq(Entry) /\ Len(kept) = k
      /\ \A h \in 1..k : kept[h] = log[h]
  BY <1>0, SubSeqIsPrefix
<1> HIDE DEF rest, kept
<1>6. /\ joined \in Seq(Entry) /\ Len(joined) = k + Len(rest)
      /\ \A h \in 1..k + Len(rest) : joined[h] = IF h <= k THEN kept[h] ELSE rest[h - k]
  <2>1. kept \in Seq(Entry) /\ rest \in Seq(Entry)
    BY <1>4, <1>5
  <2>2. /\ joined \in Seq(Entry) /\ Len(joined) = Len(kept) + Len(rest)
        /\ \A h \in 1..Len(kept) + Len(rest) :
             joined[h] = IF h <= Len(kept) THEN kept[h] ELSE rest[h - Len(kept)]
    BY <2>1, ConcatProperties
  <2> HIDE DEF joined
  <2>3. QED
    BY <1>5, <2>2
<1> HIDE DEF joined
<1>7. ASSUME k <= Len(all) PROVE joined = all
  <2>1. Len(joined) = Len(all)
    BY <1>0, <1>1, <1>4, <1>6, <1>7
  <2>2. ASSUME NEW h \in 1..Len(joined) PROVE joined[h] = all[h]
    <3>1. CASE h <= k
      BY <1>0, <1>1, <1>5, <1>6, <1>7, <2>1, <3>1
    <3>2. CASE h > k
      <4>1. h - k \in 1..Len(all) - k /\ (k - prev) + (h - k) \in 1..Len(all) - prev
        BY <1>0, <1>1, <2>1, <3>2
      <4>2. joined[h] = rest[h - k] /\ rest[h - k] = entries[(k - prev) + (h - k)]
        BY <1>0, <1>1, <1>4, <1>6, <2>1, <3>2, <4>1
      <4>3. entries[(k - prev) + (h - k)] = all[prev + ((k - prev) + (h - k))]
        BY <1>3, <4>1
      <4>4. prev + ((k - prev) + (h - k)) = h
        BY <1>0, <1>1, <2>1
      <4>5. QED
        BY <4>2, <4>3, <4>4
    <3>3. QED
      BY <1>0, <1>1, <2>1, <3>1, <3>2
  <2>3. QED
    BY <1>6, <2>1, <2>2, SeqEqual
<1>8. ASSUME k = Len(log), k >= Len(all) PROVE joined = log
  <2>1. Len(joined) = Len(log)
    BY <1>0, <1>1, <1>4, <1>6, <1>8
  <2>2. \A h \in 1..Len(joined) : joined[h] = log[h]
    BY <1>0, <1>1, <1>5, <1>6, <1>8, <2>1
  <2>3. QED
    BY <1>6, <2>1, <2>2, SeqEqual
<1>9. QED
  BY <1>7, <1>8 DEF joined, kept, rest, entries

\* Two logs that agree up to any entry of one term that both have at one index.
Agree(log, all) ==
    \A k \in 1..Len(log) :
        k <= Len(all) /\ log[k].term = all[k].term => \A h \in 1..k : log[h] = all[h]

\* A peer that accepts is left with the leader's log, or with its own if that is
\* longer and begins with the leader's.
LEMMA MergeGives ==
    ASSUME NEW log \in Seq(Entry), NEW all \in Seq(Entry), Agree(log, all),
           NEW prev \in 0..Len(all), prev <= Len(log),
           prev = 0 \/ log[prev].term = all[prev].term
    PROVE  LET merged == MergeLog(log, prev, SubSeq(all, prev + 1, Len(all)))
           IN /\ merged \in {log, all}
              /\ Prefix(all, merged)
<1> DEFINE entries == SubSeq(all, prev + 1, Len(all))
           last == MinOf(prev + Len(entries), Len(log))
           conflicts == {k \in prev + 1 .. last : log[k].term # entries[k - prev].term}
           least == CHOOSE k \in conflicts : \A j \in conflicts : k <= j
           keep == IF conflicts = {} THEN Len(log) ELSE least - 1
           merged == MergeLog(log, prev, entries)
<1>1. Len(log) \in Nat /\ Len(all) \in Nat /\ prev \in Nat /\ prev <= Len(all)
  BY LenProperties
<1>2. \A h \in prev + 1 .. Len(all) : all[h] \in Entry
  BY <1>1, ElementOfSeq
<1>3. /\ Len(entries) = Len(all) - prev
      /\ \A k \in prev + 1 .. Len(all) : entries[k - prev] = all[k]
  <2>1. /\ Len(entries) = IF prev + 1 <= Len(all) THEN Len(all) - (prev + 1) + 1 ELSE 0
        /\ \A h \in 1..Len(all) - (prev + 1) + 1 : entries[h] = all[prev + 1 + h - 1]
    BY <1>1, <1>2, SubSeqProperties
  <2> HIDE DEF entries
  <2>2. Len(entries) = Len(all) - prev
    BY <1>1, <2>1
  <2>3. ASSUME NEW k \in prev + 1 .. Len(all) PROVE entries[k - prev] = all[k]
    <3>1. k - prev \in 1..Len(all) - (prev + 1) + 1 /\ prev + 1 + (k - prev) - 1 = k
      BY <1>1
    <3>2. QED
      BY <2>1, <3>1
  <2>4. QED
    BY <2>2, <2>3
<1>4. /\ last \in Nat /\ prev <= last /\ last <= Len(all) /\ last <= Len(log)
      /\ last = Len(log) \/ last = Len(all)
  BY <1>1, <1>3 DEF MinOf
<1> HIDE DEF entries
<1>5. merged = SubSeq(log, 1, keep) \o SubSeq(entries, keep - prev + 1, Len(all) - prev)
  <2>1. merged = SubSeq(log, 1, keep) \o SubSeq(entries, keep - prev + 1, Len(entries))
    BY DEF MergeLog
  <2> HIDE DEF keep, merged
  <2>2. QED
    BY <1>3, <2>1
<1> HIDE DEF last, merged
<1>6. conflicts = {k \in prev + 1 .. last : log[k].term # all[k].term}
  BY <1>1, <1>3, <1>4
<1> HIDE DEF conflicts
\* Up to an index without conflict, the two logs are equal.
<1>7. ASSUME NEW k \in prev..last, k = prev \/ k \notin conflicts
      PROVE  \A h \in 1..k : log[h] = all[h]
  <2>1. k \in Nat /\ k <= Len(log) /\ k <= Len(all)
    BY <1>1, <1>4
  <2>2. CASE k = 0
    BY <2>2
  <2>3. CASE k # 0
    <3>1. log[k].term = all[k].term
      BY <1>1, <1>4, <1>6, <1>7, <2>3
    <3>2. k \in 1..Len(log)
      BY <2>1, <2>3, <1>1
    <3>3. QED
      BY <2>1, <3>1, <3>2 DEF Agree
  <2>4. QED
    BY <2>2, <2>3
<1>8. CASE conflicts = {}
  <2>1. keep = Len(log) /\ keep \in prev..Len(log)
    BY <1>1, <1>8
  <2>2. last \in prev..last
    BY <1>1, <1>4
  <2>3. \A h \in 1..last : log[h] = all[h]
    BY <1>7, <1>8, <2>2
  <2>4. \A h \in 1..Len(log) : h <= Len(all) => log[h] = all[h]
    BY <1>1, <1>4, <2>3
  <2>5. /\ Len(log) <= Len(all) => merged = all
        /\ Len(log) >= Len(all) => merged = log
    <3> HIDE DEF keep
    <3>1. QED
      BY <1>1, <1>5, <2>1, <2>4, JoinGives DEF entries
  <2>6. QED
    BY <1>1, <2>4, <2>5, PrefixOfItself DEF Prefix, merged, entries
<1>9. CASE conflicts # {}
  <2>1. \E k \in conflicts : \A j \in conflicts : k <= j
    <3>1. conflicts \subseteq Nat
      BY <1>1, <1>4, <1>6
    <3>2. QED
      BY <1>9, <3>1, LeastIndex
  <2>2. least \in conflicts /\ \A j \in conflicts : least <= j
    BY <2>1
  <2> HIDE DEF least
  <2>3. least \in prev + 1 .. last
    BY <1>6, <2>2
  <2>4. keep = least - 1 /\ keep \in prev..last /\ keep \notin conflicts
    BY <1>1, <1>4, <1>9, <2>2, <2>3
  <2>5. keep \in prev..Len(log) /\ keep <= Len(all)
    BY <1>1, <1>4, <2>4
  <2>6. \A h \in 1..keep : log[h] = all[h]
    BY <1>7, <2>4
  <2>7. merged = all
    <3> HIDE DEF keep
    <3>1. \A h \in 1..keep : h <= Len(all) => log[h] = all[h]
      BY <2>6
    <3>2. LET joined == SubSeq(log, 1, keep)
                 \o SubSeq(SubSeq(all, prev + 1, Len(all)), keep - prev + 1, Len(all) - prev)
          IN /\ keep <= Len(all) => joined = all
             /\ keep = Len(log) /\ keep >= Len(all) => joined = log
      BY <2>5, <3>1, JoinGives, Zenon
    <3>3. QED
      BY <1>5, <2>5, <3>2 DEF entries
  <2>8. QED
    BY <2>7, PrefixOfItself DEF merged, entries
<1>10. QED
  BY <1>8, <1>9

\* The commit index and what is applied, at a peer that has taken the log.
Learned(l, r, s) ==
    IF l.commitIndex > r.commitIndex
    THEN /\ s.commitIndex = MinOf(l.commitIndex, Len(s.log))
         /\ s.applied = r.applied \o SubSeq(s.log, Len(r.applied) + 1,
                                            MinOf(l.commitIndex, Len(s.log)))
    ELSE s.commitIndex = r.commitIndex /\ s.applied = r.applied

\* Peer r, now s, takes the log of leader l.
TookLog(l, r, s) ==
    /\ s.log \in {l.log, r.log} /\ Prefix(l.log, s.log)
    /\ Learned(l, r, s)

\* Peer r, now s, differs from l at the end of the log of l and drops that much.
Cut(l, r, s) ==
    /\ Prefix(s.log, r.log)
    /\ \/ Len(s.log) = Len(r.log)
       \/ /\ Len(l.log) \in 1..Len(r.log) /\ Len(s.log) = Len(l.log) - 1
          /\ r.log[Len(l.log)].term # l.log[Len(l.log)].term
    /\ s.commitIndex = r.commitIndex /\ s.applied = r.applied

\* r becomes a follower of l.
Yields(l, r, s) ==
    /\ r.currentTerm <= l.currentTerm /\ s.currentTerm = l.currentTerm
    /\ s.state = "FOLLOWER"

LEMMA SendGives ==
    ASSUME NEW l, NodeOK(l), NEW r, NodeOK(r), NEW i, Agree(r.log, l.log),
           NEW prev \in 0..Len(l.log)
    PROVE  LET s == AppendEntries(r, i, l.currentTerm, prev, TermAt(l.log, prev),
                                  SubSeq(l.log, prev + 1, Len(l.log)), l.commitIndex)
           IN IF r.currentTerm > l.currentTerm THEN s = r
              ELSE /\ Yields(l, r, s)
                   /\ IF Matches(r.log, prev, TermAt(l.log, prev)) THEN TookLog(l, r, s)
                      ELSE prev = Len(l.log) => Cut(l, r, s)
<1> DEFINE t == l.currentTerm
           entries == SubSeq(l.log, prev + 1, Len(l.log))
           s == AppendEntries(r, i, t, prev, TermAt(l.log, prev), entries, l.commitIndex)
           f == [r EXCEPT !.currentTerm = t, !.leaderId = i, !.state = "FOLLOWER",
                          !.votedFor = IF t > r.currentTerm THEN None ELSE @]
           merged == MergeLog(r.log, prev, entries)
<1>1. /\ l.log \in Seq(Entry) /\ Len(l.log) \in Nat /\ r.log \in Seq(Entry)
      /\ Len(r.log) \in Nat /\ t \in Nat /\ r.currentTerm \in Nat
      /\ l.commitIndex \in Nat /\ r.commitIndex \in Nat
      /\ prev \in Nat /\ prev <= Len(l.log)
  BY LenProperties, ConstantsOK DEF NodeOK, NodeRecord
<1>2. CASE r.currentTerm > t
  BY <1>1, <1>2 DEF AppendEntries
<1>3. ASSUME NEW log
      PROVE  LET g == [f EXCEPT !.log = log]
             IN /\ g.log = log /\ g.currentTerm = t /\ g.state = "FOLLOWER"
                /\ g.commitIndex = r.commitIndex /\ g.applied = r.applied
                /\ DOMAIN g = DOMAIN r
  BY DEF NodeOK, NodeRecord
<1>4. r \in NodeRecord
  BY DEF NodeOK
<1>5. CASE r.currentTerm <= t /\ Matches(r.log, prev, TermAt(l.log, prev))
  <2> DEFINE g == [f EXCEPT !.log = merged]
  <2>1. s = FollowCommit(g, l.commitIndex)
    BY <1>1, <1>5 DEF AppendEntries, Accepts
  <2>2. prev <= Len(r.log) /\ (prev = 0 \/ r.log[prev].term = l.log[prev].term)
    BY <1>1, <1>5 DEF Matches, TermAt
  <2>3. merged \in {r.log, l.log} /\ Prefix(l.log, merged)
    BY <1>1, <2>2, MergeGives
  <2>4. /\ g.log = merged /\ g.currentTerm = t /\ g.state = "FOLLOWER"
        /\ g.commitIndex = r.commitIndex /\ g.applied = r.applied /\ DOMAIN g = DOMAIN r
    BY <1>3
  <2> HIDE DEF g, merged, s, entries, f
  <2> DEFINE n == MinOf(l.commitIndex, Len(g.log))
  <2>5. CASE l.commitIndex > r.commitIndex
    <3> DEFINE more == SubSeq(g.log, Len(g.applied) + 1, n)
               all == g.applied \o more
    <3>1. s = [g EXCEPT !.commitIndex = n, !.applied = all]
      BY <2>1, <2>4, <2>5 DEF FollowCommit, CommitTo
    <3> HIDE DEF all, n
    <3>2. /\ s.log = g.log /\ s.currentTerm = t /\ s.state = "FOLLOWER"
          /\ s.commitIndex = n /\ s.applied = all
      BY <1>4, <2>4, <3>1 DEF NodeRecord
    <3>3. Learned(l, r, s)
      BY <2>4, <2>5, <3>2 DEF Learned, n, all
    <3>4. QED
      BY <1>1, <1>5, <2>3, <2>4, <3>2, <3>3 DEF Yields, TookLog, s, entries
  <2>6. CASE ~(l.commitIndex > r.commitIndex)
    <3>1. s = g
      BY <2>1, <2>4, <2>6 DEF FollowCommit
    <3>2. Learned(l, r, s)
      BY <2>4, <2>6, <3>1 DEF Learned
    <3>3. QED
      BY <1>1, <1>5, <2>3, <2>4, <3>1, <3>2 DEF Yields, TookLog, s, entries
  <2>7. QED
    BY <2>5, <2>6
<1>6. CASE r.currentTerm <= t /\ ~Matches(r.log, prev, TermAt(l.log, prev))
  <2> DEFINE n == MinOf(prev - 1, Len(r.log))
             log == SubSeq(r.log, 1, n)
             g == [f EXCEPT !.log = log]
  <2>1. s = g
    BY <1>1, <1>6 DEF AppendEntries, Accepts
  <2>2. /\ g.log = log /\ g.currentTerm = t /\ g.state = "FOLLOWER"
        /\ g.commitIndex = r.commitIndex /\ g.applied = r.applied
    BY <1>3
  <2>3. prev # 0 /\ (prev > Len(r.log) \/ r.log[prev].term # l.log[prev].term)
    BY <1>1, <1>6 DEF Matches, TermAt
  <2>4. n \in Nat /\ n <= Len(r.log) /\ (n = Len(r.log) \/ (n = prev - 1 /\ prev <= Len(r.log)))
    BY <1>1, <2>3 DEF MinOf
  <2> HIDE DEF n
  <2>5. Len(log) = n /\ Prefix(log, r.log)
    BY <1>1, <2>4, SubSeqIsPrefix
  <2> HIDE DEF log, g, s, f
  <2>6. Yields(l, r, s)
    BY <1>6, <2>1, <2>2 DEF Yields
  <2>7. prev = Len(l.log) => Cut(l, r, s)
    BY <1>1, <2>1, <2>2, <2>3, <2>4, <2>5 DEF Cut
  <2>8. QED
    BY <1>1, <1>6, <2>6, <2>7 DEF s
<1>7. QED
  BY <1>1, <1>2, <1>5, <1>6

\* Where the leader's retries stop, the two logs agree.
LEMMA AgreeAtAgrees ==
    ASSUME NEW l, NodeOK(l), NEW r, NodeOK(r), NEW j \in Node,
           \A k \in 1..Len(r.log) : r.log[k].term >= 1
    PROVE  /\ AgreeAt(l, r, j) \in 0..Len(l.log)
           /\ Matches(r.log, AgreeAt(l, r, j), TermAt(l.log, AgreeAt(l, r, j)))
<1> DEFINE last == MinOf(l.nextIndex[j] - 1, Len(r.log))
           agree == {k \in 1 .. last : r.log[k].term = TermAt(l.log, k)}
           top == CHOOSE k \in agree : \A h \in agree : k >= h
<1>1. Len(r.log) \in Nat /\ l.nextIndex[j] \in Nat /\ Len(l.log) \in Nat
  BY LenProperties DEF NodeOK, NodeRecord
<1>2. last \in Int /\ last <= Len(r.log)
  BY <1>1, MinOfType
<1>3. AgreeAt(l, r, j) = IF agree = {} THEN 0 ELSE top
  BY DEF AgreeAt
<1> HIDE DEF last
<1>4. agree \subseteq 0 .. Len(r.log)
  BY <1>1, <1>2
<1>5. \A k \in agree : /\ k \in 1..Len(l.log) /\ k \in 1..Len(r.log)
                       /\ r.log[k].term = TermAt(l.log, k)
  BY <1>1, <1>2 DEF TermAt
<1> HIDE DEF agree
<1>6. agree # {} => top \in agree
  BY <1>1, <1>4, GreatestIndex
<1> HIDE DEF top
<1>7. CASE agree = {}
  BY <1>1, <1>3, <1>7 DEF Matches
<1>8. CASE agree # {}
  <2>1. AgreeAt(l, r, j) = top /\ top \in agree
    BY <1>3, <1>6, <1>8
  <2>2. QED
    BY <1>1, <1>5, <2>1 DEF Matches
<1>9. QED
  BY <1>7, <1>8

\* A send ends with the peer having taken the log, a heartbeat may only cut it.
LEMMA SendToPeerGives ==
    ASSUME NEW l, NodeOK(l), NEW r, NodeOK(r), NEW i, NEW j \in Node,
           Agree(r.log, l.log), \A k \in 1..Len(r.log) : r.log[k].term >= 1
    PROVE  LET s == SendToPeer(l, i, r, j)
           IN IF r.currentTerm > l.currentTerm THEN s = r
              ELSE Yields(l, r, s) /\ TookLog(l, r, s)
<1> DEFINE prev == AgreeAt(l, r, j)
<1>1. prev \in 0..Len(l.log) /\ Matches(r.log, prev, TermAt(l.log, prev))
  BY AgreeAtAgrees
<1>2. SendToPeer(l, i, r, j) = AppendEntries(r, i, l.currentTerm, prev, TermAt(l.log, prev),
                                 SubSeq(l.log, prev + 1, Len(l.log)), l.commitIndex)
  BY DEF SendToPeer
<1> HIDE DEF prev
<1>3. QED
  BY <1>1, <1>2, SendGives

LEMMA HeartbeatGives ==
    ASSUME NEW l, NodeOK(l), NEW r, NodeOK(r), NEW i, Agree(r.log, l.log)
    PROVE  LET s == Heartbeat(l, i, r)
           IN IF r.currentTerm > l.currentTerm THEN s = r
              ELSE Yields(l, r, s) /\ (TookLog(l, r, s) \/ Cut(l, r, s))
<1> DEFINE prev == Len(l.log)
<1>1. prev \in 0..Len(l.log) /\ l.log \in Seq(Entry) /\ prev \in Nat
  BY LenProperties DEF NodeOK, NodeRecord
<1>2. SubSeq(l.log, prev + 1, Len(l.log)) = <<>>
  BY <1>1, SubSeqEmpty
<1>3. Heartbeat(l, i, r) = AppendEntries(r, i, l.currentTerm, prev, TermAt(l.log, prev),
                             SubSeq(l.log, prev + 1, Len(l.log)), l.commitIndex)
  BY <1>2 DEF Heartbeat, LastTerm
<1>4. prev = Len(l.log)
  OBVIOUS
<1> HIDE DEF prev
<1>5. QED
  BY <1>1, <1>3, <1>4, SendGives

-----------------------------------------------------------------------------
(* A leader sends to its peers.                                            *)

LEMMA PrefixIsBeginning ==
    ASSUME NEW s \in Seq(Entry), NEW t \in Seq(Entry), Prefix(s, t)
    PROVE  SubSeq(t, 1, Len(s)) = s
<1>1. Len(s) \in Nat /\ Len(s) <= Len(t)
  BY LenProperties DEF Prefix
<1>2. /\ SubSeq(t, 1, Len(s)) \in Seq(Entry) /\ Len(SubSeq(t, 1, Len(s))) = Len(s)
      /\ \A k \in 1..Len(s) : SubSeq(t, 1, Len(s))[k] = t[k]
  BY <1>1, SubSeqIsPrefix
<1>3. \A k \in 1..Len(s) : SubSeq(t, 1, Len(s))[k] = s[k]
  BY <1>2 DEF Prefix
<1>4. QED
  BY <1>2, <1>3, SeqEqual

\* What _apply_committed_entries hands over: the log, up to the commit index.
LEMMA HandsOver ==
    ASSUME NEW s \in Seq(Entry), NEW t \in Seq(Entry), Prefix(s, t),
           NEW c \in Nat, Len(s) <= c, c <= Len(t)
    PROVE  s \o SubSeq(t, Len(s) + 1, c) = SubSeq(t, 1, c)
<1> DEFINE a == Len(s)
<1>1. Len(s) \in Nat /\ Len(t) \in Nat
  BY LenProperties
<1>2. SubSeq(t, 1, a) = s
  BY PrefixIsBeginning
<1> HIDE DEF a
<1>3. a \in Nat /\ a <= c /\ c <= Len(t)
  BY <1>1 DEF a
<1>4. SubSeq(t, 1, a) \o SubSeq(t, a + 1, c) = SubSeq(t, 1, c)
  BY <1>1, <1>3, ConcatAdjacentSubSeq
<1>5. QED
  BY <1>2, <1>4 DEF a

Takes(n, n2, i, j) ==
    Yields(n[i], n[j], n2[j]) /\ TookLog(n[i], n[j], n2[j])

\* Leader i sends to some peers, each of which takes its log or cuts its own, and
\* keeps track of what those that took it have.
Pushes(n, n2, i) ==
    /\ n[i].state = "LEADER"
    /\ \A j \in Peers(i) :
         \/ n2[j] = n[j]
         \/ Takes(n, n2, i, j)
         \/ Yields(n[i], n[j], n2[j]) /\ Cut(n[i], n[j], n2[j])
    /\ n2[i].currentTerm = n[i].currentTerm /\ n2[i].state = n[i].state
    /\ n2[i].log = n[i].log
    /\ n2[i].commitIndex = n[i].commitIndex /\ n2[i].applied = n[i].applied
    /\ \A j \in Node : \/ n2[i].matchIndex[j] = n[i].matchIndex[j]
                       \/ /\ n2[i].matchIndex[j] = Len(n[i].log)
                          /\ j \in Peers(i) => Takes(n, n2, i, j)

LEMMA PushFollows ==
    ASSUME NEW n, WellFormed(n), NEW n2, WellFormed(n2), NEW el, MatchInv(n, el),
           NEW i \in Node, Pushes(n, n2, i)
    PROVE  Follows(n, n2)
<1>1. \A j \in Node :
        /\ n[j].currentTerm \in Nat /\ n[j].log \in Seq(Entry) /\ Len(n[j].log) \in Nat
        /\ \A k \in Node : n[j].matchIndex[k] \in Nat
        /\ n[j].state = "LEADER" => \A k \in Node : n[j].matchIndex[k] <= Len(n[j].log)
  BY FieldTypes DEF MatchInv, LeadersWon
<1>2. ASSUME NEW j \in Node, n2[j] = n[j] \/ j = i
      PROVE  /\ n2[j].currentTerm >= n[j].currentTerm
             /\ \E h \in Node : /\ Prefix(n2[j].log, n[h].log)
                                /\ n[h].currentTerm <= n2[j].currentTerm
             /\ n2[j].state = "LEADER" =>
                  /\ n[j].state = "LEADER"
                  /\ n2[j].currentTerm = n[j].currentTerm /\ n2[j].log = n[j].log
                  /\ \A k \in Node : n2[j].matchIndex[k] <= Len(n2[j].log)
  <2>1. /\ n2[j].currentTerm = n[j].currentTerm /\ n2[j].log = n[j].log
        /\ n2[j].state = n[j].state
    BY <1>2 DEF Pushes
  <2>2. Prefix(n[j].log, n[j].log)
    BY <1>1, PrefixOfItself
  <2>3. n[j].state = "LEADER" => \A k \in Node : n2[j].matchIndex[k] <= Len(n2[j].log)
    BY <1>1, <1>2, <2>1 DEF Pushes
  <2>4. QED
    BY <1>1, <2>1, <2>2, <2>3
<1>3. ASSUME NEW j \in Peers(i), Yields(n[i], n[j], n2[j]),
             TookLog(n[i], n[j], n2[j]) \/ Cut(n[i], n[j], n2[j])
      PROVE  /\ n2[j].currentTerm >= n[j].currentTerm
             /\ \E h \in Node : /\ Prefix(n2[j].log, n[h].log)
                                /\ n[h].currentTerm <= n2[j].currentTerm
             /\ n2[j].state # "LEADER"
  <2>1. j \in Node
    BY DEF Peers
  <2>2. /\ n[j].currentTerm <= n2[j].currentTerm /\ n[i].currentTerm <= n2[j].currentTerm
        /\ n2[j].state = "FOLLOWER"
    BY <1>1, <1>3, <2>1 DEF Yields
  <2>3. CASE n2[j].log = n[i].log
    BY <1>1, <2>2, <2>3, PrefixOfItself
  <2>4. CASE n2[j].log = n[j].log
    BY <1>1, <2>1, <2>2, <2>4, PrefixOfItself
  <2>5. CASE Cut(n[i], n[j], n2[j])
    BY <1>1, <2>1, <2>2, <2>5 DEF Cut
  <2>6. QED
    BY <1>3, <2>3, <2>4, <2>5 DEF TookLog
<1>4. \A j \in Node : j = i \/ j \in Peers(i)
  BY DEF Peers
<1>5. QED
  BY <1>2, <1>3, <1>4 DEF Follows, Pushes, Takes

\* What is safe and a peer has is not lost by what it takes or cuts.
LEMMA PushKeeps ==
    ASSUME NEW n, WellFormed(n), NEW n2, WellFormed(n2), NEW el, MatchInv(n, el),
           NEW i \in Node, Pushes(n, n2, i),
           NEW P \in Seq(Entry), Len(P) > 0, Safe(n, P), NEW h \in Node, Prefix(P, n[h].log)
    PROVE  Prefix(P, n2[h].log)
<1>1. Len(P) \in Nat \ {0} /\ P[Len(P)].term \in Nat
  BY LastTermType
<1>2. CASE n2[h] = n[h] \/ h = i
  BY <1>2 DEF Pushes
<1>3. CASE h \in Peers(i) /\ Yields(n[i], n[h], n2[h])
  <2>1. /\ n[h].log \in Seq(Entry) /\ n2[h].log \in Seq(Entry) /\ n[i].log \in Seq(Entry)
        /\ Len(n[h].log) \in Nat /\ Len(n2[h].log) \in Nat /\ Len(n[i].log) \in Nat
        /\ n[h].currentTerm \in Nat /\ n[i].currentTerm \in Nat
    BY FieldTypes
  <2>2. h \in Holders(n, P)
    BY DEF Holders
  <2>3. P[Len(P)].term <= n[i].currentTerm
    <3>1. P[Len(P)].term <= n[h].currentTerm
      BY <2>2, HeldTerm
    <3>2. QED
      BY <1>1, <1>3, <2>1, <3>1 DEF Yields
  <2>4. Prefix(P, n[i].log)
    BY <2>2, <2>3, LeaderHolds DEF Pushes
  <2>5. CASE TookLog(n[i], n[h], n2[h])
    BY <2>1, <2>4, <2>5, PrefixIsTransitive DEF TookLog
  <2>6. CASE Cut(n[i], n[h], n2[h])
    <3>1. Len(P) <= Len(n2[h].log)
      <4>1. CASE Len(n2[h].log) = Len(n[h].log)
        BY <4>1 DEF Prefix
      <4>2. CASE /\ Len(n2[h].log) = Len(n[i].log) - 1
                 /\ n[h].log[Len(n[i].log)].term # n[i].log[Len(n[i].log)].term
        <5>1. Len(P) <= Len(n[i].log) /\ Len(P) # Len(n[i].log)
          BY <1>1, <2>4, <4>2 DEF Prefix
        <5>2. QED
          BY <1>1, <2>1, <4>2, <5>1
      <4>3. QED
        BY <2>6, <4>1, <4>2 DEF Cut
    <3>2. Prefix(n2[h].log, n[h].log)
      BY <2>6 DEF Cut
    <3>3. QED
      BY <1>1, <2>1, <3>1, <3>2, PrefixesCompare
  <2>7. Takes(n, n2, i, h) \/ Cut(n[i], n[h], n2[h]) \/ n2[h] = n[h]
    BY <1>3 DEF Pushes
  <2>8. QED
    BY <1>2, <2>5, <2>6, <2>7 DEF Takes
<1>4. QED
  BY <1>2, <1>3 DEF Pushes, Takes, Peers

\* A peer that takes the log has applied what the leader has, or more of it already.
LEMMA TakerApplies ==
    ASSUME NEW n, WellFormed(n), NEW n2, WellFormed(n2), NEW i \in Node, NEW j \in Node,
           AppliedIsOfLog(n), Prefix(n[j].applied, n2[j].log),
           TookLog(n[i], n[j], n2[j])
    PROVE  /\ n2[j].commitIndex = Len(n2[j].applied)
           /\ Prefix(n2[j].applied, n2[j].log)
           /\ IF n[i].commitIndex > n[j].commitIndex
              THEN n2[j].applied = n[i].applied /\ n2[j].commitIndex = n[i].commitIndex
              ELSE n2[j].applied = n[j].applied /\ n2[j].commitIndex = n[j].commitIndex
<1> DEFINE l == n[i]
           r == n[j]
           s == n2[j]
<1>1. /\ l.log \in Seq(Entry) /\ s.log \in Seq(Entry) /\ l.applied \in Seq(Entry)
      /\ r.applied \in Seq(Entry) /\ Len(l.log) \in Nat /\ Len(s.log) \in Nat
      /\ Len(l.applied) \in Nat /\ Len(r.applied) \in Nat
  BY FieldTypes
<1>2. /\ l.commitIndex = Len(l.applied) /\ Prefix(l.applied, l.log)
      /\ r.commitIndex = Len(r.applied)
  BY DEF AppliedIsOfLog
<1>3. Prefix(l.log, s.log) /\ Learned(l, r, s)
  BY DEF TookLog
<1>4. Prefix(l.applied, s.log)
  BY <1>1, <1>2, <1>3, PrefixIsTransitive
<1>5. Prefix(r.applied, s.log)
  OBVIOUS
<1> HIDE DEF l, r, s
<1>6. CASE l.commitIndex > r.commitIndex
  <2>1. MinOf(l.commitIndex, Len(s.log)) = Len(l.applied) /\ Len(l.applied) <= Len(s.log)
    BY <1>1, <1>2, <1>4 DEF MinOf, Prefix
  <2>2. /\ s.commitIndex = Len(l.applied)
        /\ s.applied = r.applied \o SubSeq(s.log, Len(r.applied) + 1, Len(l.applied))
    BY <1>3, <1>6, <2>1 DEF Learned
  <2>3. s.applied = SubSeq(s.log, 1, Len(l.applied))
    <3>1. Len(r.applied) <= Len(l.applied)
      BY <1>1, <1>2, <1>6
    <3>2. r.applied \o SubSeq(s.log, Len(r.applied) + 1, Len(l.applied))
            = SubSeq(s.log, 1, Len(l.applied))
      BY <1>1, <1>5, <2>1, <3>1, HandsOver
    <3>3. QED
      BY <2>2, <3>2
  <2>4. s.applied = l.applied
    BY <1>1, <1>4, <2>3, PrefixIsBeginning
  <2>5. QED
    BY <1>2, <1>4, <1>6, <2>2, <2>4 DEF l, r, s
<1>7. CASE ~(l.commitIndex > r.commitIndex)
  BY <1>2, <1>3, <1>5, <1>7 DEF Learned, l, r, s
<1>8. QED
  BY <1>6, <1>7

\* One round of sends keeps the second part of the invariant.
LEMMA PushCommits ==
    ASSUME NEW n, WellFormed(n), NEW n2, WellFormed(n2), NEW el, MatchInv(n, el),
           CommitInv(n), NEW i \in Node, Pushes(n, n2, i)
    PROVE  /\ CommitInv(n2)
           /\ \A j \in Node :
                \/ n2[j].applied = n[j].applied /\ n2[j].commitIndex = n[j].commitIndex
                \/ n2[j].applied = n[i].applied /\ n[i].commitIndex > n[j].commitIndex
           /\ \A j \in Peers(i) : Takes(n, n2, i, j) => n2[j].commitIndex >= n[i].commitIndex
<1>1. AppliedIsOfLog(n)
  BY DEF CommitInv
<1>2. Follows(n, n2)
  BY PushFollows
<1>3. ASSUME NEW j \in Node PROVE Prefix(n[j].applied, n2[j].log)
  <2>1. /\ n[j].applied \in Seq(Entry) /\ Prefix(n[j].applied, n[j].log)
        /\ Len(n[j].applied) \in Nat /\ Len(n2[j].log) \in Nat
    BY <1>1, FieldTypes DEF AppliedIsOfLog
  <2>2. CASE Len(n[j].applied) > 0
    <3>1. Safe(n, n[j].applied)
      BY <2>2 DEF CommitInv, AppliedIsSafe
    <3>2. QED
      BY <2>1, <2>2, <3>1, PushKeeps
  <2>3. CASE Len(n[j].applied) = 0
    BY <2>1, <2>3 DEF Prefix
  <2>4. QED
    BY <2>1, <2>2, <2>3
<1>4. ASSUME NEW j \in Node
      PROVE  /\ n2[j].commitIndex = Len(n2[j].applied) /\ Prefix(n2[j].applied, n2[j].log)
             /\ \/ n2[j].applied = n[j].applied /\ n2[j].commitIndex = n[j].commitIndex
                \/ n2[j].applied = n[i].applied /\ n[i].commitIndex > n[j].commitIndex
             /\ j \in Peers(i) /\ Takes(n, n2, i, j) => n2[j].commitIndex >= n[i].commitIndex
  <2>1. n[i].commitIndex \in Nat /\ n[j].commitIndex \in Nat
    BY FieldTypes
  <2>2. CASE Takes(n, n2, i, j)
    BY <1>1, <1>3, <2>1, <2>2, TakerApplies DEF Takes
  <2>3. CASE ~Takes(n, n2, i, j)
    <3>1. n2[j].applied = n[j].applied /\ n2[j].commitIndex = n[j].commitIndex
      BY <2>3 DEF Pushes, Cut, Peers
    <3>2. QED
      BY <1>1, <1>3, <2>3, <3>1 DEF AppliedIsOfLog
  <2>4. QED
    BY <2>2, <2>3
<1>5. AppliedIsOfLog(n2)
  BY <1>4 DEF AppliedIsOfLog
<1>6. Keeps(n, n2)
  <2>1. \A P \in Seq(Entry), h \in Node :
          Len(P) > 0 /\ Safe(n, P) /\ Prefix(P, n[h].log) => Prefix(P, n2[h].log)
    BY PushKeeps
  <2>2. \A j \in Node : \E h \in Node : n2[j].applied = n[h].applied
    BY <1>4
  <2>3. ASSUME NEW l \in Node, n2[l].state = "LEADER", NEW h \in Peers(l)
        PROVE  \/ n2[l].matchIndex[h] = n[l].matchIndex[h]
               \/ n[h].currentTerm <= n[l].currentTerm /\ Prefix(n2[l].log, n2[h].log)
    <3>1. CASE l = i
      BY <2>3, <3>1 DEF Pushes, Takes, Yields, TookLog, Peers
    <3>2. CASE l # i
      <4>1. n2[l] = n[l]
        BY <2>3, <3>2 DEF Pushes, Takes, Yields, Peers
      <4>2. QED
        BY <4>1
    <3>3. QED
      BY <3>1, <3>2
  <2>4. QED
    BY <2>1, <2>2, <2>3 DEF Keeps
<1>7. CommitInv(n2)
  BY <1>2, <1>5, <1>6, FollowingCommits
<1>8. QED
  BY <1>4, <1>7 DEF Peers

-----------------------------------------------------------------------------
(* Votes, terms and roles change; logs, commits and leaders do not.        *)

Quiet(n, n2) ==
    \A j \in Node :
        /\ n2[j].log = n[j].log
        /\ n2[j].applied = n[j].applied /\ n2[j].commitIndex = n[j].commitIndex
        /\ n2[j].currentTerm >= n[j].currentTerm
        /\ n2[j].state = "LEADER" =>
             /\ n[j].state = "LEADER" /\ n2[j].currentTerm = n[j].currentTerm
             /\ n2[j].matchIndex = n[j].matchIndex

LEMMA QuietFollows ==
    ASSUME NEW n, WellFormed(n), NEW n2, WellFormed(n2), NEW el, MatchInv(n, el), Quiet(n, n2)
    PROVE  Follows(n, n2)
<1> SUFFICES ASSUME NEW j \in Node
             PROVE  /\ n2[j].currentTerm >= n[j].currentTerm
                    /\ \E h \in Node : /\ Prefix(n2[j].log, n[h].log)
                                       /\ n[h].currentTerm <= n2[j].currentTerm
                    /\ n2[j].state = "LEADER" =>
                         /\ n[j].state = "LEADER"
                         /\ n2[j].currentTerm = n[j].currentTerm /\ n2[j].log = n[j].log
                         /\ \A k \in Node : n2[j].matchIndex[k] <= Len(n2[j].log)
  BY DEF Follows
<1>1. /\ n2[j].log = n[j].log /\ n[j].log \in Seq(Entry)
      /\ n[j].currentTerm \in Nat /\ n2[j].currentTerm \in Nat
      /\ n2[j].currentTerm >= n[j].currentTerm
  BY FieldTypes DEF Quiet
<1>2. Prefix(n2[j].log, n[j].log)
  BY <1>1, PrefixOfItself
<1>3. n2[j].state = "LEADER" =>
        /\ n[j].state = "LEADER" /\ n2[j].currentTerm = n[j].currentTerm
        /\ \A k \in Node : n2[j].matchIndex[k] <= Len(n2[j].log)
  BY <1>1 DEF Quiet, MatchInv, LeadersWon
<1>4. QED
  BY <1>1, <1>2, <1>3

LEMMA QuietCommits ==
    ASSUME NEW n, WellFormed(n), NEW n2, WellFormed(n2), NEW el, MatchInv(n, el), Quiet(n, n2),
           CommitInv(n)
    PROVE  CommitInv(n2)
<1>1. Follows(n, n2)
  BY QuietFollows
<1>2. Keeps(n, n2)
  BY DEF Keeps, Quiet
<1>3. AppliedIsOfLog(n2)
  BY DEF AppliedIsOfLog, CommitInv, Quiet
<1>4. QED
  BY <1>1, <1>2, <1>3, FollowingCommits

-----------------------------------------------------------------------------
(* A leader appends an entry of its term.                                  *)

\* No two nodes won one term.
Unique(el) == \A won, other \in el : won[1] = other[1] => won = other

Appends(n, n2, i, e) ==
    /\ n[i].state = "LEADER" /\ e.term = n[i].currentTerm
    /\ n2[i].log = Append(n[i].log, e)
    /\ n2[i].currentTerm = n[i].currentTerm /\ n2[i].state = n[i].state
    /\ n2[i].applied = n[i].applied /\ n2[i].commitIndex = n[i].commitIndex
    /\ n2[i].matchIndex = n[i].matchIndex
    /\ \A j \in Peers(i) : n2[j] = n[j]

\* What an append leaves alone.
LEMMA AppendFrame ==
    ASSUME NEW n, NEW n2, NEW i \in Node, NEW e, Appends(n, n2, i, e)
    PROVE  /\ \A j \in Node : j # i => n2[j] = n[j]
           /\ \A j \in Node :
                /\ n2[j].currentTerm = n[j].currentTerm /\ n2[j].state = n[j].state
                /\ n2[j].applied = n[j].applied /\ n2[j].commitIndex = n[j].commitIndex
                /\ n2[j].matchIndex = n[j].matchIndex
<1>1. \A j \in Node : j # i => n2[j] = n[j]
  BY DEF Appends, Peers
<1>2. QED
  BY <1>1 DEF Appends

\* The leader's log after it.
LEMMA AppendedLog ==
    ASSUME NEW n, WellFormed(n), NEW n2, NEW i \in Node, NEW e \in Entry, Appends(n, n2, i, e)
    PROVE  /\ Len(n2[i].log) = Len(n[i].log) + 1
           /\ n2[i].log[Len(n[i].log) + 1] = e
           /\ \A k \in 1..Len(n[i].log) : n2[i].log[k] = n[i].log[k]
           /\ Prefix(n[i].log, n2[i].log)
<1>1. n[i].log \in Seq(Entry) /\ Len(n[i].log) \in Nat
  BY FieldTypes
<1>2. n2[i].log = Append(n[i].log, e)
  BY DEF Appends
<1>3. /\ Len(n2[i].log) = Len(n[i].log) + 1
      /\ n2[i].log[Len(n[i].log) + 1] = e
      /\ \A k \in 1..Len(n[i].log) : n2[i].log[k] = n[i].log[k]
  BY <1>1, <1>2, AppendProperties
<1>4. Len(n[i].log) <= Len(n2[i].log)
  BY <1>1, <1>3
<1>5. Prefix(n[i].log, n2[i].log)
  BY <1>3, <1>4 DEF Prefix
<1>6. QED
  BY <1>3, <1>5

LEMMA AppendedGrows ==
    ASSUME NEW n, WellFormed(n), NEW n2, NEW i \in Node, NEW e \in Entry, Appends(n, n2, i, e),
           NEW j \in Node
    PROVE  Prefix(n[j].log, n2[j].log)
<1>1. CASE j = i
  BY <1>1, AppendedLog
<1>2. CASE j # i
  BY <1>2, AppendFrame, FieldTypes, PrefixOfItself
<1>3. QED
  BY <1>1, <1>2

\* Any entry after it is an old one or the new one.
LEMMA AppendedEntry ==
    ASSUME NEW n, WellFormed(n), NEW n2, NEW i \in Node, NEW e \in Entry, Appends(n, n2, i, e),
           NEW j \in Node, NEW k \in 1..Len(n2[j].log)
    PROVE  \/ k \in 1..Len(n[j].log) /\ n2[j].log[k] = n[j].log[k]
           \/ j = i /\ k = Len(n[i].log) + 1 /\ n2[j].log[k] = e
<1>1. CASE j = i
  <2>1. Len(n[i].log) \in Nat
    BY FieldTypes
  <2>2. /\ Len(n2[i].log) = Len(n[i].log) + 1
        /\ n2[i].log[Len(n[i].log) + 1] = e
        /\ \A x \in 1..Len(n[i].log) : n2[i].log[x] = n[i].log[x]
    BY AppendedLog
  <2>3. k \in 1..Len(n[i].log) \/ k = Len(n[i].log) + 1
    BY <1>1, <2>1, <2>2
  <2>4. QED
    BY <1>1, <2>2, <2>3
<1>2. CASE j # i
  <2>1. n2[j] = n[j]
    BY <1>2, AppendFrame
  <2>2. QED
    BY <2>1
<1>3. QED
  BY <1>1, <1>2

LEMMA AppendMatches ==
    ASSUME NEW n, WellFormed(n), NEW n2, WellFormed(n2),
           NEW el \in SUBSET ((1..MaxTerm) \X Node), Unique(el), MatchInv(n, el),
           NEW i \in Node, NEW e \in Entry, Appends(n, n2, i, e)
    PROVE  MatchInv(n2, el)
<1> DEFINE T == n[i].currentTerm
           top == Len(n[i].log) + 1
<1>1. \A j \in Node :
        /\ Len(n[j].log) \in Nat /\ Len(n2[j].log) \in Nat
        /\ n[j].currentTerm \in Nat /\ n2[j].currentTerm = n[j].currentTerm
        /\ n2[j].state = n[j].state
        /\ \A k \in 1..Len(n[j].log) : n[j].log[k].term \in Nat
  BY FieldTypes, AppendFrame
<1>2. ASSUME NEW j \in Node, NEW k \in 1..Len(n2[j].log)
      PROVE  \/ k \in 1..Len(n[j].log) /\ n2[j].log[k] = n[j].log[k]
             \/ j = i /\ k = top /\ n2[j].log[k] = e
  BY AppendedEntry
<1>3. n[i].state = "LEADER" /\ e.term = T
  BY DEF Appends
<1>4. <<T, i>> \in el /\ 1 <= T
  <2>1. <<T, i>> \in el
    BY <1>3 DEF MatchInv, LeadersWon
  <2>2. <<T, i>> \in (1..MaxTerm) \X Node
    BY <2>1
  <2>3. T \in 1..MaxTerm
    BY <2>2
  <2>4. QED
    BY <2>1, <2>3
<1> HIDE DEF top, T
<1>5. EntriesAreWon(n2, el)
  <2> SUFFICES ASSUME NEW j \in Node, NEW k \in 1..Len(n2[j].log)
               PROVE  /\ 1 <= n2[j].log[k].term /\ n2[j].log[k].term <= n2[j].currentTerm
                      /\ \E x \in Node : <<n2[j].log[k].term, x>> \in el
    BY DEF EntriesAreWon
  <2>1. CASE k \in 1..Len(n[j].log) /\ n2[j].log[k] = n[j].log[k]
    BY <1>1, <2>1 DEF MatchInv, EntriesAreWon
  <2>2. CASE j = i /\ n2[j].log[k] = e
    BY <1>1, <1>3, <1>4, <2>2 DEF T
  <2>3. QED
    BY <1>2, <2>1, <2>2
\* Only leader i has entries of its term this far.
<1>6. ASSUME NEW j \in Node, NEW k \in 1..Len(n2[j].log), n2[j].log[k].term = T
      PROVE  k <= top /\ (j # i => k < top)
  <2>1. CASE k \in 1..Len(n[j].log) /\ n2[j].log[k] = n[j].log[k]
    <3>1. k <= Len(n[i].log)
      BY <1>3, <1>6, <2>1 DEF MatchInv, LeadersHaveTheirTerm, T
    <3>2. QED
      BY <1>1, <2>1, <3>1 DEF top
  <2>2. CASE j = i /\ k = top
    BY <1>1, <2>2
  <2>3. QED
    BY <1>2, <2>1, <2>2
<1>7. TermsRise(n2)
  <2> SUFFICES ASSUME NEW j \in Node, NEW a \in 1..Len(n2[j].log), NEW b \in 1..Len(n2[j].log),
                      a <= b
               PROVE  n2[j].log[a].term <= n2[j].log[b].term
    BY DEF TermsRise
  <2>1. CASE b \in 1..Len(n[j].log) /\ n2[j].log[b] = n[j].log[b]
    <3>1. a \in 1..Len(n[j].log)
      BY <1>1, <2>1
    <3>2. n2[j].log[a] = n[j].log[a]
      BY <1>1, <1>2, <3>1 DEF top
    <3>3. QED
      BY <2>1, <3>1, <3>2 DEF MatchInv, TermsRise
  <2>2. CASE j = i /\ b = top /\ n2[j].log[b] = e
    <3>1. CASE a = top
      BY <1>1, <1>3, <2>2, <3>1 DEF T
    <3>2. CASE a \in 1..Len(n[i].log) /\ n2[i].log[a] = n[i].log[a]
      BY <1>3, <2>2, <3>2 DEF MatchInv, EntriesAreWon, T
    <3>3. QED
      BY <1>2, <2>2, <3>1, <3>2
  <2>3. QED
    BY <1>2, <2>1, <2>2
<1>8. LogsMatch(n2)
  <2> SUFFICES ASSUME NEW g \in Node, NEW h \in Node, NEW k \in 1..Len(n2[g].log),
                      k <= Len(n2[h].log), n2[g].log[k].term = n2[h].log[k].term,
                      NEW a \in 1..k
               PROVE  n2[g].log[a] = n2[h].log[a]
    BY DEF LogsMatch
  <2>1. /\ k \in 1..Len(n2[g].log) /\ k \in 1..Len(n2[h].log) /\ k \in Nat
        /\ a \in 1..Len(n2[g].log) /\ a \in 1..Len(n2[h].log) /\ a \in Nat /\ a <= k
    BY <1>1
  <2>2. CASE g = h
    BY <2>2
  <2>3. CASE /\ k \in 1..Len(n[g].log) /\ n2[g].log[k] = n[g].log[k]
             /\ k \in 1..Len(n[h].log) /\ n2[h].log[k] = n[h].log[k]
    <3>1. n[g].log[a] = n[h].log[a]
      BY <1>1, <2>3 DEF MatchInv, LogsMatch
    <3>2. a \in 1..Len(n[g].log) /\ a \in 1..Len(n[h].log)
      BY <1>1, <2>1, <2>3
    <3>3. n2[g].log[a] = n[g].log[a] /\ n2[h].log[a] = n[h].log[a]
      BY <1>1, <1>2, <2>1, <3>2 DEF top
    <3>4. QED
      BY <3>1, <3>3
  <2>4. CASE k = top /\ g # h /\ ((g = i /\ n2[g].log[k] = e) \/ (h = i /\ n2[h].log[k] = e))
    <3>1. n2[g].log[k].term = T /\ n2[h].log[k].term = T
      BY <1>3, <2>4
    <3>2. top \in Nat
      BY <1>1 DEF top
    <3>3. QED
      BY <1>6, <2>1, <2>4, <3>1, <3>2
  <2>5. QED
    BY <1>2, <2>1, <2>2, <2>3, <2>4
<1>9. LeadersWon(n2, el)
  <2> SUFFICES ASSUME NEW j \in Node, n2[j].state = "LEADER"
               PROVE  /\ <<n2[j].currentTerm, j>> \in el
                      /\ \A k \in Node : n2[j].matchIndex[k] <= Len(n2[j].log)
    BY DEF LeadersWon
  <2>1. n2[j].matchIndex = n[j].matchIndex /\ Len(n[j].log) <= Len(n2[j].log)
    BY AppendFrame, AppendedGrows DEF Prefix
  <2>2. /\ <<n2[j].currentTerm, j>> \in el
        /\ \A k \in Node : n[j].matchIndex[k] <= Len(n[j].log)
    BY <1>1 DEF MatchInv, LeadersWon
  <2>3. \A k \in Node : n[j].matchIndex[k] \in Nat
    BY FieldTypes
  <2>4. QED
    BY <1>1, <2>1, <2>2, <2>3
<1>10. TermsWereReached(n2, el)
  <2> SUFFICES ASSUME NEW t \in 1..MaxTerm, NEW x \in Node, <<t, x>> \in el
               PROVE  n2[x].currentTerm >= t /\ Majority({k \in Node : n2[k].currentTerm >= t})
    BY DEF TermsWereReached
  <2>1. {k \in Node : n2[k].currentTerm >= t} = {k \in Node : n[k].currentTerm >= t}
    BY <1>1
  <2>2. QED
    BY <1>1, <2>1 DEF MatchInv, TermsWereReached
<1>11. LeadersHaveTheirTerm(n2)
  <2> SUFFICES ASSUME NEW j \in Node, n2[j].state = "LEADER",
                      NEW g \in Node, NEW k \in 1..Len(n2[g].log),
                      n2[g].log[k].term = n2[j].currentTerm
               PROVE  k <= Len(n2[j].log) /\ n2[j].log[k].term = n2[j].currentTerm
    BY DEF LeadersHaveTheirTerm
  <2>1. n[j].state = "LEADER" /\ n2[j].currentTerm = n[j].currentTerm
    BY <1>1
  <2>2. CASE k \in 1..Len(n[g].log) /\ n2[g].log[k] = n[g].log[k]
    <3>1. k <= Len(n[j].log) /\ n[j].log[k].term = n[j].currentTerm
      BY <2>1, <2>2 DEF MatchInv, LeadersHaveTheirTerm
    <3>2. k \in 1..Len(n[j].log) /\ k \in 1..Len(n2[j].log)
      <4>1. Len(n[j].log) <= Len(n2[j].log)
        BY AppendedGrows DEF Prefix
      <4>2. QED
        BY <1>1, <2>2, <3>1, <4>1
    <3>3. n2[j].log[k] = n[j].log[k]
      BY <1>1, <1>2, <3>2 DEF top
    <3>4. QED
      BY <1>1, <2>1, <3>1, <3>2, <3>3
  <2>3. CASE g = i /\ n2[g].log[k] = e
    <3>1. <<n[j].currentTerm, j>> \in el /\ n[j].currentTerm = T
      BY <1>3, <2>1, <2>3 DEF MatchInv, LeadersWon
    <3>2. <<T, j>> = <<T, i>>
      BY <1>4, <3>1 DEF Unique
    <3>3. j = i
      BY <3>2
    <3>4. QED
      BY <1>1, <2>1, <2>3, <3>3
  <2>4. QED
    BY <1>2, <2>2, <2>3
<1>12. QED
  BY <1>5, <1>7, <1>8, <1>9, <1>10, <1>11 DEF MatchInv

LEMMA AppendKeepsSafe ==
    ASSUME NEW n, WellFormed(n), NEW n2, WellFormed(n2), NEW el, MatchInv(n, el),
           NEW i \in Node, NEW e \in Entry, Appends(n, n2, i, e),
           NEW P \in Seq(Entry), Len(P) > 0, Safe(n, P), NEW h \in Holders(n, P)
    PROVE  Safe(n2, P) /\ Holders(n, P) \subseteq Holders(n2, P)
<1> DEFINE t == P[Len(P)].term
<1>1. Len(P) \in Nat \ {0} /\ t \in Nat
  BY LastTermType
<1>2. \A j \in Node : n[j].log \in Seq(Entry) /\ n2[j].log \in Seq(Entry)
        /\ Len(n[j].log) \in Nat /\ Len(n2[j].log) \in Nat /\ n[j].currentTerm \in Nat
  BY FieldTypes
<1>0. /\ \A j \in Node : j # i => n2[j] = n[j]
      /\ \A j \in Node : n2[j].currentTerm = n[j].currentTerm /\ n2[j].state = n[j].state
  BY AppendFrame
<1>3. ASSUME NEW j \in Node, Prefix(P, n[j].log) PROVE Prefix(P, n2[j].log)
  <2>1. CASE j = i
    <3>1. Prefix(n[i].log, n2[i].log)
      BY AppendedLog
    <3>2. QED
      BY <1>2, <1>3, <2>1, <3>1, PrefixIsTransitive
  <2>2. CASE j # i
    BY <1>0, <1>3, <2>2
  <2>3. QED
    BY <2>1, <2>2
<1>4. Holders(n, P) \subseteq Holders(n2, P)
  BY <1>3 DEF Holders
<1>5. ASSUME NEW j \in Node, NEW k \in 1..Len(n2[j].log),
             \/ n2[j].log[k].term > t
             \/ n2[j].log[k].term = t /\ k >= Len(P)
      PROVE  k >= Len(P) /\ Prefix(P, n2[j].log)
  <2>1. CASE k \in 1..Len(n[j].log) /\ n2[j].log[k] = n[j].log[k]
    <3>1. k >= Len(P) /\ Prefix(P, n[j].log)
      BY <1>5, <2>1, SafeLog
    <3>2. QED
      BY <1>3, <3>1
  <2>2. CASE j = i /\ k = Len(n[i].log) + 1 /\ n2[j].log[k] = e
    <3>1. n[i].state = "LEADER" /\ t <= n[i].currentTerm
      <4>1. n[i].state = "LEADER" /\ n2[j].log[k].term = n[i].currentTerm
        BY <2>2 DEF Appends
      <4>2. n[i].currentTerm > t \/ n[i].currentTerm = t
        BY <1>5, <4>1
      <4>3. QED
        BY <1>1, <1>2, <4>1, <4>2
    <3>2. Prefix(P, n[i].log)
      BY <3>1, LeaderHolds
    <3>3. Len(P) <= Len(n[i].log)
      BY <3>2 DEF Prefix
    <3>4. QED
      BY <1>1, <1>2, <1>3, <2>2, <3>2, <3>3
  <2>3. QED
    BY <2>1, <2>2, AppendedEntry
<1>6. ASSUME NEW j \in Node, n2[j].state = "LEADER", n2[j].currentTerm > t
      PROVE  Prefix(P, n2[j].log)
  <2>1. n[j].state = "LEADER" /\ n[j].currentTerm > t
    BY <1>0, <1>6
  <2>2. QED
    BY <1>3, <2>1, SafeLeader
<1>7. Safe(n2, P)
  BY <1>5, <1>6 DEF Safe
<1>8. QED
  BY <1>4, <1>7

\* A leader that a majority would still listen to is of the latest term won.
LEMMA LatestTerm ==
    ASSUME NEW n, WellFormed(n), NEW el, MatchInv(n, el), NEW i \in Node,
           Majority({i} \union {j \in Peers(i) : n[j].currentTerm <= n[i].currentTerm}),
           NEW t \in 1..MaxTerm, NEW x \in Node, <<t, x>> \in el
    PROVE  t <= n[i].currentTerm
<1> DEFINE P == {i} \union {j \in Peers(i) : n[j].currentTerm <= n[i].currentTerm}
           Q == {k \in Node : n[k].currentTerm >= t}
<1>1. P \in SUBSET Node /\ Q \in SUBSET Node
  BY DEF Peers
<1>2. Majority(Q)
  BY DEF MatchInv, TermsWereReached
<1>3. PICK k \in P \intersect Q : TRUE
  BY <1>1, <1>2, MajoritiesMeet
<1>4. k \in Node /\ n[k].currentTerm >= t /\ n[k].currentTerm <= n[i].currentTerm
  BY <1>3, FieldTypes DEF Peers
<1>5. n[k].currentTerm \in Nat /\ n[i].currentTerm \in Nat /\ t \in Nat
  BY <1>4, FieldTypes, ConstantsOK
<1>6. QED
  BY <1>4, <1>5

LEMMA SameBeginning ==
    ASSUME NEW s \in Seq(Entry), NEW t \in Seq(Entry), Prefix(s, t), NEW m \in 0..Len(s)
    PROVE  SubSeq(t, 1, m) = SubSeq(s, 1, m)
<1>1. Len(s) \in Nat /\ Len(t) \in Nat /\ m \in Nat /\ m <= Len(s) /\ m <= Len(t)
  BY LenProperties DEF Prefix
<1>2. /\ SubSeq(t, 1, m) \in Seq(Entry) /\ Len(SubSeq(t, 1, m)) = m
      /\ \A k \in 1..m : SubSeq(t, 1, m)[k] = t[k]
  BY <1>1, SubSeqIsPrefix
<1>3. /\ SubSeq(s, 1, m) \in Seq(Entry) /\ Len(SubSeq(s, 1, m)) = m
      /\ \A k \in 1..m : SubSeq(s, 1, m)[k] = s[k]
  BY <1>1, SubSeqIsPrefix
<1>4. \A k \in 1..m : SubSeq(t, 1, m)[k] = SubSeq(s, 1, m)[k]
  BY <1>1, <1>2, <1>3 DEF Prefix
<1>5. QED
  BY <1>2, <1>3, <1>4, SeqEqual

LEMMA AppendCommits ==
    ASSUME NEW n, WellFormed(n), NEW n2, WellFormed(n2),
           NEW el \in SUBSET ((1..MaxTerm) \X Node), Unique(el), MatchInv(n, el),
           CommitInv(n), NEW i \in Node, NEW e \in Entry, Appends(n, n2, i, e)
    PROVE  CommitInv(n2)
<1> DEFINE T == n[i].currentTerm
           top == Len(n[i].log) + 1
<1>1. \A j \in Node :
        /\ n[j].log \in Seq(Entry) /\ n2[j].log \in Seq(Entry) /\ n[j].applied \in Seq(Entry)
        /\ Len(n[j].log) \in Nat /\ Len(n2[j].log) \in Nat
        /\ n[j].currentTerm \in Nat /\ n2[j].currentTerm = n[j].currentTerm
        /\ n2[j].state = n[j].state
        /\ n2[j].applied = n[j].applied /\ n2[j].commitIndex = n[j].commitIndex
        /\ n2[j].matchIndex = n[j].matchIndex
        /\ Prefix(n[j].log, n2[j].log)
  <2>1. \A j \in Node : n[j].log \in Seq(Entry) /\ n2[j].log \in Seq(Entry)
          /\ n[j].applied \in Seq(Entry)
          /\ Len(n[j].log) \in Nat /\ Len(n2[j].log) \in Nat /\ n[j].currentTerm \in Nat
    BY FieldTypes
  <2>2. \A j \in Node :
          /\ n2[j].currentTerm = n[j].currentTerm /\ n2[j].state = n[j].state
          /\ n2[j].applied = n[j].applied /\ n2[j].commitIndex = n[j].commitIndex
          /\ n2[j].matchIndex = n[j].matchIndex
    BY AppendFrame
  <2>3. \A j \in Node : Prefix(n[j].log, n2[j].log)
    BY AppendedGrows
  <2>4. QED
    BY <2>1, <2>2, <2>3
<1>0. ASSUME NEW j \in Node, NEW k \in 1..Len(n2[j].log)
      PROVE  \/ k \in 1..Len(n[j].log) /\ n2[j].log[k] = n[j].log[k]
             \/ j = i /\ k = top /\ n2[j].log[k] = e
  BY AppendedEntry
<1>2. AppliedIsOfLog(n2)
  <2>1. AppliedIsOfLog(n)
    BY DEF CommitInv
  <2>2. QED
    BY <1>1, <2>1, PrefixIsTransitive DEF AppliedIsOfLog
<1>3. AppliedIsSafe(n2)
  <2> SUFFICES ASSUME NEW j \in Node, Len(n2[j].applied) > 0
               PROVE  Majority(Holders(n2, n2[j].applied)) /\ Safe(n2, n2[j].applied)
    BY DEF AppliedIsSafe
  <2> DEFINE P == n[j].applied
  <2>1. P \in Seq(Entry) /\ Len(P) > 0 /\ n2[j].applied = P
    BY <1>1
  <2>2. Majority(Holders(n, P)) /\ Safe(n, P)
    BY <2>1 DEF CommitInv, AppliedIsSafe
  <2> HIDE DEF P
  <2>3. Holders(n, P) \in SUBSET Node /\ Holders(n2, P) \in SUBSET Node
    BY DEF Holders
  <2>4. PICK h \in Holders(n, P) : TRUE
    BY <2>2, <2>3, MajorityIsSome
  <2>5. Safe(n2, P) /\ Holders(n, P) \subseteq Holders(n2, P)
    BY <2>1, <2>2, <2>4, AppendKeepsSafe
  <2>6. QED
    BY <2>1, <2>2, <2>3, <2>5, MajorityGrows
<1>4. ASSUME NEW l \in Node, n2[l].state = "LEADER", NEW m \in 1..Len(n[l].log),
             n2[l].log[m].term = n2[l].currentTerm, Choosable(n2, l, m)
      PROVE  /\ Safe(n2, SubSeq(n2[l].log, 1, m))
             /\ \A h \in Peers(l) : n2[l].matchIndex[h] >= m
                  => h \in Holders(n2, SubSeq(n2[l].log, 1, m))
  <2> DEFINE P == SubSeq(n[l].log, 1, m)
  <2>1. SubSeq(n2[l].log, 1, m) = P
    <3>1. m \in 0..Len(n[l].log)
      BY <1>1
    <3>2. QED
      BY <1>1, <3>1, SameBeginning
  <2>2. n[l].log[m].term = n[l].currentTerm
    BY <1>1, <1>4 DEF Prefix
  <2>3. Choosable(n, l, m)
    <3>1. {j \in Peers(l) : \/ n2[l].matchIndex[j] >= m
                            \/ n2[j].currentTerm <= n2[l].currentTerm}
            = {j \in Peers(l) : \/ n[l].matchIndex[j] >= m
                                \/ n[j].currentTerm <= n[l].currentTerm}
      BY <1>1 DEF Peers
    <3>2. QED
      BY <1>4, <3>1 DEF Choosable
  <2>4. /\ Safe(n, P)
        /\ \A h \in Peers(l) : n[l].matchIndex[h] >= m => h \in Holders(n, P)
    BY <1>1, <1>4, <2>2, <2>3 DEF CommitInv, ChoosableIsSafe
  <2>5. P \in Seq(Entry) /\ Len(P) > 0 /\ l \in Holders(n, P)
    BY Beginning
  <2> HIDE DEF P
  <2>6. Safe(n2, P) /\ Holders(n, P) \subseteq Holders(n2, P)
    BY <2>4, <2>5, AppendKeepsSafe
  <2>7. QED
    BY <1>1, <2>1, <2>4, <2>6
<1>5. ASSUME Choosable(n2, i, top)
      PROVE  /\ Safe(n2, SubSeq(n2[i].log, 1, top))
             /\ \A h \in Peers(i) : ~(n2[i].matchIndex[h] >= top)
  <2>1. n[i].state = "LEADER"
    BY DEF Appends
  <2>2. \A h \in Peers(i) : ~(n2[i].matchIndex[h] >= top)
    <3>1. \A h \in Peers(i) : n[i].matchIndex[h] <= Len(n[i].log) /\ n[i].matchIndex[h] \in Nat
      BY <2>1, FieldTypes DEF MatchInv, LeadersWon, Peers
    <3>2. QED
      BY <1>1, <3>1
  <2>3. {j \in Peers(i) : \/ n2[i].matchIndex[j] >= top
                          \/ n2[j].currentTerm <= n2[i].currentTerm}
          = {j \in Peers(i) : n[j].currentTerm <= n[i].currentTerm}
    BY <1>1, <2>2 DEF Peers
  <2>4. Majority({i} \union {j \in Peers(i) : n[j].currentTerm <= n[i].currentTerm})
    BY <1>5, <2>3 DEF Choosable
  <2> HIDE DEF top, T
  <2> DEFINE P == SubSeq(n2[i].log, 1, top)
  <2>5. top \in 1..Len(n2[i].log) /\ top \in Nat /\ n2[i].log[top] = e /\ e.term = T
    BY <1>1, AppendedLog DEF top, T, Appends
  <2>6. P \in Seq(Entry) /\ Len(P) = top /\ P[Len(P)] = e /\ Prefix(P, n2[i].log)
    BY <2>5, Beginning
  <2>7. T \in Nat
    BY <1>1 DEF T
  <2> HIDE DEF P
  <2>8. MatchInv(n2, el)
    BY AppendMatches
  <2>9. ASSUME NEW j \in Node, NEW k \in 1..Len(n2[j].log),
               \/ n2[j].log[k].term > T
               \/ n2[j].log[k].term = T /\ k >= top
        PROVE  k >= top /\ Prefix(P, n2[j].log)
    <3>1. PICK x \in Node : <<n2[j].log[k].term, x>> \in el
      BY <2>8 DEF MatchInv, EntriesAreWon
    <3>2. n2[j].log[k].term \in 1..MaxTerm
      <4>1. <<n2[j].log[k].term, x>> \in (1..MaxTerm) \X Node
        BY <3>1
      <4>2. QED
        BY <4>1
    <3>3. n2[j].log[k].term <= T
      BY <2>4, <3>1, <3>2, LatestTerm DEF T
    <3>4. n2[j].log[k].term = T /\ k >= top
      BY <2>7, <2>9, <3>2, <3>3, ConstantsOK
    <3>5. j = i
      <4>1. CASE k \in 1..Len(n[j].log) /\ n2[j].log[k] = n[j].log[k]
        <5>1. k <= Len(n[i].log)
          BY <2>1, <3>4, <4>1 DEF MatchInv, LeadersHaveTheirTerm, T
        <5>2. QED
          BY <1>1, <3>4, <4>1, <5>1 DEF top
      <4>2. QED
        BY <1>0, <4>1
    <3>6. QED
      BY <2>6, <3>4, <3>5
  <2>10. ASSUME NEW j \in Node, n2[j].state = "LEADER", n2[j].currentTerm > T
         PROVE  Prefix(P, n2[j].log)
    <3>1. <<n2[j].currentTerm, j>> \in el
      BY <2>8, <2>10 DEF MatchInv, LeadersWon
    <3>2. n2[j].currentTerm \in 1..MaxTerm
      <4>1. <<n2[j].currentTerm, j>> \in (1..MaxTerm) \X Node
        BY <3>1
      <4>2. QED
        BY <4>1
    <3>3. n2[j].currentTerm <= T
      BY <2>4, <3>1, <3>2, LatestTerm DEF T
    <3>4. QED
      BY <2>7, <2>10, <3>2, <3>3, ConstantsOK
  <2>11. Safe(n2, P)
    BY <2>5, <2>6, <2>9, <2>10 DEF Safe
  <2>12. QED
    BY <2>2, <2>11 DEF P
<1>6. ChoosableIsSafe(n2)
  <2> SUFFICES ASSUME NEW l \in Node, n2[l].state = "LEADER",
                      NEW m \in 1..Len(n2[l].log),
                      n2[l].log[m].term = n2[l].currentTerm, Choosable(n2, l, m)
               PROVE  /\ Safe(n2, SubSeq(n2[l].log, 1, m))
                      /\ \A h \in Peers(l) : n2[l].matchIndex[h] >= m
                           => h \in Holders(n2, SubSeq(n2[l].log, 1, m))
    BY DEF ChoosableIsSafe
  <2>1. m \in 1..Len(n[l].log) \/ (l = i /\ m = top)
    BY <1>0
  <2>2. QED
    BY <1>4, <1>5, <2>1
<1>7. QED
  BY <1>2, <1>3, <1>6 DEF CommitInv

-----------------------------------------------------------------------------
(* A candidate becomes leader.                                             *)

\* i, of term T, wins: nobody has before, and the nodes of a majority V are of
\* that term or a later one and had no better log than i.
Becomes(n, n2, i, el, el2, V) ==
    LET T == n[i].currentTerm
    IN /\ T \in 1..MaxTerm /\ \A x \in Node : <<T, x>> \notin el
       /\ el2 = el \union {<<T, i>>}
       /\ n2[i].log = n[i].log /\ n2[i].currentTerm = T
       /\ n2[i].applied = n[i].applied /\ n2[i].commitIndex = n[i].commitIndex
       /\ \A k \in Node : n2[i].matchIndex[k] = 0
       /\ \A j \in Peers(i) : n2[j] = n[j]
       /\ Majority(V)
       /\ \A v \in V : /\ n[v].currentTerm >= T
                       /\ v = i \/ UpToDate(n[v], Len(n[i].log), LastTerm(n[i]))

LEMMA BecomeFrame ==
    ASSUME NEW n, NEW n2, NEW i \in Node, NEW el, NEW el2, NEW V, Becomes(n, n2, i, el, el2, V)
    PROVE  /\ \A j \in Node : j # i => n2[j] = n[j]
           /\ \A j \in Node :
                /\ n2[j].currentTerm = n[j].currentTerm /\ n2[j].log = n[j].log
                /\ n2[j].applied = n[j].applied /\ n2[j].commitIndex = n[j].commitIndex
<1>1. \A j \in Node : j # i => n2[j] = n[j]
  BY DEF Becomes, Peers
<1>2. QED
  BY <1>1 DEF Becomes

LEMMA BecomeMatches ==
    ASSUME NEW n, WellFormed(n), NEW n2, WellFormed(n2),
           NEW el, NEW el2, MatchInv(n, el), NEW i \in Node, NEW V \in SUBSET Node,
           Becomes(n, n2, i, el, el2, V)
    PROVE  MatchInv(n2, el2)
<1> DEFINE T == n[i].currentTerm
<1>1. /\ T \in 1..MaxTerm /\ \A x \in Node : <<T, x>> \notin el
      /\ el2 = el \union {<<T, i>>}
  BY DEF Becomes
<1>2. \A j \in Node : /\ n2[j].currentTerm = n[j].currentTerm /\ n2[j].log = n[j].log
                      /\ j # i => n2[j] = n[j]
  BY BecomeFrame
<1>3. \A j \in Node : Len(n[j].log) \in Nat /\ n[j].currentTerm \in Nat
  BY FieldTypes
<1> HIDE DEF T
<1>4. EntriesAreWon(n2, el2) /\ TermsRise(n2) /\ LogsMatch(n2)
  <2>1. EntriesAreWon(n2, el2)
    BY <1>1, <1>2 DEF MatchInv, EntriesAreWon
  <2>2. TermsRise(n2)
    BY <1>2 DEF MatchInv, TermsRise
  <2>3. LogsMatch(n2)
    <3> SUFFICES ASSUME NEW g \in Node, NEW h \in Node, NEW k \in 1..Len(n2[g].log),
                        k <= Len(n2[h].log), n2[g].log[k].term = n2[h].log[k].term
                 PROVE  \A a \in 1..k : n2[g].log[a] = n2[h].log[a]
      BY DEF LogsMatch
    <3>1. n2[g].log = n[g].log /\ n2[h].log = n[h].log
      BY <1>2
    <3>2. \A a \in 1..k : n[g].log[a] = n[h].log[a]
      BY <3>1 DEF MatchInv, LogsMatch
    <3>3. QED
      BY <3>1, <3>2
  <2>4. QED
    BY <2>1, <2>2, <2>3
<1>5. LeadersWon(n2, el2)
  <2> SUFFICES ASSUME NEW j \in Node, n2[j].state = "LEADER"
               PROVE  /\ <<n2[j].currentTerm, j>> \in el2
                      /\ \A k \in Node : n2[j].matchIndex[k] <= Len(n2[j].log)
    BY DEF LeadersWon
  <2>1. CASE j = i
    <3>1. n2[i].currentTerm = T /\ \A k \in Node : n2[i].matchIndex[k] = 0
      BY DEF Becomes, T
    <3>2. QED
      BY <1>1, <1>2, <1>3, <2>1, <3>1
  <2>2. CASE j # i
    BY <1>1, <1>2, <2>2 DEF MatchInv, LeadersWon
  <2>3. QED
    BY <2>1, <2>2
<1>6. TermsWereReached(n2, el2)
  <2> SUFFICES ASSUME NEW t \in 1..MaxTerm, NEW x \in Node, <<t, x>> \in el2
               PROVE  n2[x].currentTerm >= t /\ Majority({k \in Node : n2[k].currentTerm >= t})
    BY DEF TermsWereReached
  <2> DEFINE Q == {k \in Node : n[k].currentTerm >= t}
  <2>1. {k \in Node : n2[k].currentTerm >= t} = Q
    BY <1>2
  <2>2. CASE <<t, x>> \in el
    BY <1>2, <2>1, <2>2 DEF MatchInv, TermsWereReached
  <2>3. CASE t = T /\ x = i
    <3>1. n[i].currentTerm >= t
      BY <1>3, <2>3 DEF T
    <3>2. V \subseteq Q /\ Majority(V)
      BY <2>3 DEF Becomes, T
    <3>3. QED
      BY <1>2, <2>1, <2>3, <3>1, <3>2, MajorityGrows
  <2>4. QED
    BY <1>1, <2>2, <2>3
<1>7. LeadersHaveTheirTerm(n2)
  <2> SUFFICES ASSUME NEW j \in Node, n2[j].state = "LEADER",
                      NEW g \in Node, NEW k \in 1..Len(n2[g].log),
                      n2[g].log[k].term = n2[j].currentTerm
               PROVE  k <= Len(n2[j].log) /\ n2[j].log[k].term = n2[j].currentTerm
    BY DEF LeadersHaveTheirTerm
  <2>1. CASE j = i
    <3>1. k \in 1..Len(n[g].log) /\ n[g].log[k].term = T
      BY <1>2, <2>1 DEF T
    <3>2. \E x \in Node : <<T, x>> \in el
      BY <3>1 DEF MatchInv, EntriesAreWon
    <3>3. QED
      BY <1>1, <3>2
  <2>2. CASE j # i
    BY <1>2, <2>2 DEF MatchInv, LeadersHaveTheirTerm
  <2>3. QED
    BY <2>1, <2>2
<1>8. QED
  BY <1>4, <1>5, <1>6, <1>7 DEF MatchInv

\* A voter has P and finds the candidate's log up to date: the candidate has P.
LEMMA CandidateHolds ==
    ASSUME NEW n, WellFormed(n), NEW el, MatchInv(n, el),
           NEW P \in Seq(Entry), Len(P) > 0, Safe(n, P), NEW v \in Holders(n, P),
           NEW i \in Node, UpToDate(n[v], Len(n[i].log), LastTerm(n[i]))
    PROVE  Prefix(P, n[i].log)
<1> DEFINE t == P[Len(P)].term
           mine == n[v].log[Len(n[v].log)].term
           last == n[i].log[Len(n[i].log)].term
<1>1. v \in Node /\ Prefix(P, n[v].log)
  BY DEF Holders
<1>2. /\ Len(P) \in Nat \ {0} /\ t \in Nat
      /\ Len(n[v].log) \in Nat /\ Len(n[i].log) \in Nat
  BY <1>1, LastTermType, FieldTypes
<1>3. Len(P) <= Len(n[v].log) /\ n[v].log[Len(P)].term = t
  BY <1>1, <1>2 DEF Prefix
<1>4. Len(P) \in 1..Len(n[v].log) /\ Len(n[v].log) \in 1..Len(n[v].log)
  BY <1>2, <1>3
<1>5. mine \in Nat /\ mine >= t /\ mine >= 1
  <2>1. t <= mine
    BY <1>1, <1>3, <1>4 DEF MatchInv, TermsRise
  <2>2. 1 <= mine
    BY <1>1, <1>4 DEF MatchInv, EntriesAreWon
  <2>3. mine \in Nat
    BY <1>1, <1>4, FieldTypes
  <2>4. QED
    BY <1>2, <2>1, <2>2, <2>3
<1>6. TermAt(n[v].log, Len(n[v].log)) = mine
  BY <1>4 DEF TermAt
<1> HIDE DEF mine, t
<1>7. \/ LastTerm(n[i]) > mine
      \/ LastTerm(n[i]) = mine /\ Len(n[i].log) >= Len(n[v].log)
  BY <1>6 DEF UpToDate
<1>8. Len(n[i].log) \in 1..Len(n[i].log)
  <2>1. CASE Len(n[i].log) = 0
    <3>1. LastTerm(n[i]) = 0
      BY <2>1 DEF LastTerm, TermAt
    <3>2. QED
      BY <1>5, <1>7, <3>1
  <2>2. QED
    BY <1>2, <2>1
<1>9. LastTerm(n[i]) = last /\ last \in Nat
  BY <1>8, FieldTypes DEF LastTerm, TermAt
<1> HIDE DEF last
<1>10. last > t \/ (last = t /\ Len(n[i].log) >= Len(P))
  <2>1. t \in Nat
    BY <1>2
  <2>2. last > mine \/ (last = mine /\ Len(n[i].log) >= Len(n[v].log))
    BY <1>7, <1>9
  <2>3. QED
    BY <1>2, <1>3, <1>5, <1>9, <2>1, <2>2
<1>11. QED
  BY <1>8, <1>10, SafeLog DEF last, t

LEMMA BecomeKeepsSafe ==
    ASSUME NEW n, WellFormed(n), NEW n2, NEW el, NEW el2, MatchInv(n, el),
           NEW i \in Node, NEW V \in SUBSET Node, Becomes(n, n2, i, el, el2, V),
           NEW P \in Seq(Entry), Len(P) > 0, Safe(n, P),
           P[Len(P)].term < n[i].currentTerm => V \intersect Holders(n, P) # {}
    PROVE  Safe(n2, P) /\ Holders(n2, P) = Holders(n, P)
<1>1. \A j \in Node : n2[j].log = n[j].log /\ n2[j].currentTerm = n[j].currentTerm
  BY BecomeFrame
<1>2. \A j \in Node : j # i => n2[j] = n[j]
  BY BecomeFrame
<1>3. P[Len(P)].term \in Nat /\ n[i].currentTerm \in Nat
  BY LastTermType, FieldTypes
<1>4. ASSUME NEW j \in Node, n2[j].state = "LEADER", n2[j].currentTerm > P[Len(P)].term
      PROVE  Prefix(P, n2[j].log)
  <2>1. CASE j # i
    BY <1>2, <1>4, <2>1, SafeLeader
  <2>2. CASE j = i
    <3>1. P[Len(P)].term < n[i].currentTerm
      BY <1>1, <1>3, <1>4, <2>2
    <3>2. PICK v \in V \intersect Holders(n, P) : TRUE
      BY <3>1
    <3>3. v = i \/ UpToDate(n[v], Len(n[i].log), LastTerm(n[i]))
      BY <3>2 DEF Becomes
    <3>4. CASE v = i
      BY <1>1, <2>2, <3>2, <3>4 DEF Holders
    <3>5. CASE UpToDate(n[v], Len(n[i].log), LastTerm(n[i]))
      <4>1. Prefix(P, n[i].log)
        BY <3>2, <3>5, CandidateHolds
      <4>2. QED
        BY <1>1, <2>2, <4>1
    <3>6. QED
      BY <3>3, <3>4, <3>5
  <2>3. QED
    BY <2>1, <2>2
<1>5. ASSUME NEW j \in Node, NEW k \in 1..Len(n2[j].log),
             \/ n2[j].log[k].term > P[Len(P)].term
             \/ n2[j].log[k].term = P[Len(P)].term /\ k >= Len(P)
      PROVE  k >= Len(P) /\ Prefix(P, n2[j].log)
  BY <1>1, <1>5, SafeLog
<1>6. Safe(n2, P)
  BY <1>4, <1>5 DEF Safe
<1>7. QED
  BY <1>1, <1>6 DEF Holders

LEMMA BecomeCommits ==
    ASSUME NEW n, WellFormed(n), NEW n2, WellFormed(n2),
           NEW el, NEW el2, MatchInv(n, el), CommitInv(n),
           NEW i \in Node, NEW V \in SUBSET Node, Becomes(n, n2, i, el, el2, V)
    PROVE  CommitInv(n2)
<1> DEFINE T == n[i].currentTerm
<1>1. \A j \in Node : /\ n2[j].currentTerm = n[j].currentTerm /\ n2[j].log = n[j].log
                      /\ n2[j].applied = n[j].applied /\ n2[j].commitIndex = n[j].commitIndex
                      /\ j # i => n2[j] = n[j]
  BY BecomeFrame
<1>2. T \in Nat
  BY FieldTypes
<1>3. Majority(V) /\ \A v \in V : n[v].currentTerm >= T
  BY DEF Becomes
<1>4. AppliedIsOfLog(n2)
  BY <1>1 DEF CommitInv, AppliedIsOfLog
<1>5. AppliedIsSafe(n2)
  <2> SUFFICES ASSUME NEW j \in Node, Len(n[j].applied) > 0
               PROVE  /\ Majority(Holders(n2, n[j].applied))
                      /\ Safe(n2, n[j].applied)
    BY <1>1 DEF AppliedIsSafe
  <2> DEFINE P == n[j].applied
  <2>1. P \in Seq(Entry) /\ Len(P) > 0
    BY FieldTypes
  <2>2. Majority(Holders(n, P)) /\ Safe(n, P)
    BY DEF CommitInv, AppliedIsSafe
  <2> HIDE DEF P
  <2>3. V \intersect Holders(n, P) # {}
    BY <1>3, <2>2, MajoritiesMeet DEF Holders
  <2>4. Safe(n2, P) /\ Holders(n2, P) = Holders(n, P)
    BY <2>1, <2>2, <2>3, BecomeKeepsSafe
  <2>5. QED
    BY <2>2, <2>4 DEF P
<1>6. ChoosableIsSafe(n2)
  <2> SUFFICES ASSUME NEW l \in Node, n2[l].state = "LEADER",
                      NEW m \in 1..Len(n2[l].log),
                      n2[l].log[m].term = n2[l].currentTerm, Choosable(n2, l, m)
               PROVE  /\ Safe(n2, SubSeq(n2[l].log, 1, m))
                      /\ \A h \in Peers(l) : n2[l].matchIndex[h] >= m
                           => h \in Holders(n2, SubSeq(n2[l].log, 1, m))
    BY DEF ChoosableIsSafe
  <2>1. l # i
    <3>1. ASSUME l = i PROVE FALSE
      <4>1. m \in 1..Len(n[i].log) /\ n[i].log[m].term = T
        BY <1>1, <3>1
      <4>2. \E x \in Node : <<T, x>> \in el
        BY <4>1 DEF MatchInv, EntriesAreWon
      <4>3. QED
        BY <4>2 DEF Becomes
    <3>2. QED
      BY <3>1
  <2>2. n2[l] = n[l]
    BY <1>1, <2>1
  <2> DEFINE P == SubSeq(n[l].log, 1, m)
             Q == {l} \union {j \in Peers(l) : \/ n[l].matchIndex[j] >= m
                                               \/ n[j].currentTerm <= n[l].currentTerm}
  <2>3. Majority(Q)
    <3>1. {j \in Peers(l) : \/ n2[l].matchIndex[j] >= m
                            \/ n2[j].currentTerm <= n2[l].currentTerm}
            = {j \in Peers(l) : \/ n[l].matchIndex[j] >= m
                                \/ n[j].currentTerm <= n[l].currentTerm}
      BY <1>1, <2>2 DEF Peers
    <3>2. QED
      BY <3>1 DEF Choosable
  <2>4. m \in 1..Len(n[l].log) /\ n[l].log[m].term = n[l].currentTerm
    BY <2>2
  <2>5. /\ Safe(n, P)
        /\ \A h \in Peers(l) : n[l].matchIndex[h] >= m => h \in Holders(n, P)
    BY <2>2, <2>3, <2>4 DEF CommitInv, ChoosableIsSafe, Choosable
  <2>6. /\ P \in Seq(Entry) /\ Len(P) > 0 /\ P[Len(P)] = n[l].log[m]
        /\ l \in Holders(n, P)
    BY <2>4, Beginning
  <2>7. ASSUME P[Len(P)].term < T PROVE V \intersect Holders(n, P) # {}
    <3>1. Q \in SUBSET Node
      BY DEF Peers
    <3>2. PICK v \in V \intersect Q : TRUE
      <4> HIDE DEF Q
      <4>1. QED
        BY <1>3, <2>3, <3>1, MajoritiesMeet
    <3>3. n[l].currentTerm < T /\ n[v].currentTerm >= T
      BY <1>3, <2>4, <2>6, <2>7, <3>2
    <3>4. n[l].currentTerm \in Nat /\ n[v].currentTerm \in Nat
      BY <3>2, FieldTypes
    <3>5. v = l \/ (v \in Peers(l) /\ n[l].matchIndex[v] >= m)
      BY <1>2, <3>2, <3>3, <3>4
    <3>6. v \in Holders(n, P)
      BY <2>5, <2>6, <3>5
    <3>7. QED
      BY <3>2, <3>6
  <2> HIDE DEF P
  <2>8. Safe(n2, P) /\ Holders(n2, P) = Holders(n, P)
    BY <2>5, <2>6, <2>7, BecomeKeepsSafe
  <2>9. QED
    BY <2>2, <2>5, <2>8 DEF P
<1>7. QED
  BY <1>4, <1>5, <1>6 DEF CommitInv

-----------------------------------------------------------------------------
(* A leader commits.                                                       *)

\* Leader i applies its log up to an entry of its term that a majority has.
Commits(n, n2, i, top) ==
    /\ n[i].state = "LEADER" /\ top \in Committable(n[i], i)
    /\ n2[i].log = n[i].log /\ n2[i].currentTerm = n[i].currentTerm
    /\ n2[i].state = n[i].state /\ n2[i].matchIndex = n[i].matchIndex
    /\ n2[i].commitIndex = top /\ n2[i].applied = SubSeq(n[i].log, 1, top)
    /\ \A j \in Peers(i) : n2[j] = n[j]

LEMMA CommitFrame ==
    ASSUME NEW n, NEW n2, NEW i \in Node, NEW top, Commits(n, n2, i, top)
    PROVE  SameLogs(n, n2) /\ \A j \in Node : j # i => n2[j] = n[j]
<1>1. \A j \in Node : j # i => n2[j] = n[j]
  BY DEF Commits, Peers
<1>2. QED
  BY <1>1 DEF Commits, SameLogs

LEMMA CommitKeeps ==
    ASSUME NEW n, WellFormed(n), NEW n2, WellFormed(n2), NEW el, MatchInv(n, el), CommitInv(n),
           NEW i \in Node, NEW top, Commits(n, n2, i, top)
    PROVE  CommitInv(n2)
<1> DEFINE P == SubSeq(n[i].log, 1, top)
<1>1. Follows(n, n2)
  BY CommitFrame, SameLogsFollow
<1>2. \A j \in Node : /\ n2[j].log = n[j].log /\ n2[j].currentTerm = n[j].currentTerm
                      /\ n2[j].state = n[j].state /\ n2[j].matchIndex = n[j].matchIndex
                      /\ j # i => n2[j] = n[j]
  BY CommitFrame DEF SameLogs
<1>3. /\ top \in 1..Len(n[i].log) /\ n[i].log[top].term = n[i].currentTerm
      /\ Majority({i} \union {j \in Peers(i) : n[i].matchIndex[j] >= top})
  <2>1. n[i].commitIndex \in Nat /\ Len(n[i].log) \in Nat
    BY FieldTypes
  <2>2. QED
    BY <2>1 DEF Commits, Committable
<1>4. Choosable(n, i, top)
  <2> DEFINE A == {i} \union {j \in Peers(i) : n[i].matchIndex[j] >= top}
             B == {i} \union {j \in Peers(i) : \/ n[i].matchIndex[j] >= top
                                               \/ n[j].currentTerm <= n[i].currentTerm}
  <2>1. A \subseteq B /\ B \in SUBSET Node /\ Majority(A)
    BY <1>3 DEF Peers
  <2> HIDE DEF A
  <2>2. Majority(B)
    BY <2>1, MajorityGrows
  <2>3. QED
    BY <2>2 DEF Choosable
<1>5. /\ Safe(n, P)
      /\ \A h \in Peers(i) : n[i].matchIndex[h] >= top => h \in Holders(n, P)
  BY <1>3, <1>4 DEF CommitInv, ChoosableIsSafe, Commits
<1>6. /\ P \in Seq(Entry) /\ Len(P) = top /\ Len(P) > 0 /\ i \in Holders(n, P)
      /\ Prefix(P, n[i].log)
  BY <1>3, Beginning
<1> HIDE DEF P
<1>7. Majority(Holders(n, P))
  <2>1. {i} \union {j \in Peers(i) : n[i].matchIndex[j] >= top} \subseteq Holders(n, P)
    BY <1>5, <1>6
  <2>2. QED
    BY <1>3, <2>1, MajorityGrows DEF Holders
<1>8. \A Q : Holders(n2, Q) = Holders(n, Q)
  BY <1>2 DEF Holders
<1>9. n2[i].applied = P /\ n2[i].commitIndex = top
  BY DEF Commits, P
<1>10. AppliedIsOfLog(n2)
  <2>1. AppliedIsOfLog(n)
    BY DEF CommitInv
  <2>2. QED
    BY <1>2, <1>6, <1>9, <2>1 DEF AppliedIsOfLog
<1>11. AppliedIsSafe(n2)
  <2> SUFFICES ASSUME NEW j \in Node, Len(n2[j].applied) > 0
               PROVE  Majority(Holders(n2, n2[j].applied)) /\ Safe(n2, n2[j].applied)
    BY DEF AppliedIsSafe
  <2>1. Majority(Holders(n, n2[j].applied)) /\ Safe(n, n2[j].applied)
    <3>1. CASE j = i
      BY <1>5, <1>7, <1>9, <3>1
    <3>2. CASE j # i
      BY <1>2, <3>2 DEF CommitInv, AppliedIsSafe
    <3>3. QED
      BY <3>1, <3>2
  <2>2. n2[j].applied \in Seq(Entry)
    BY FieldTypes
  <2>3. QED
    BY <1>1, <1>8, <2>1, <2>2, SafeStays
<1>12. ChoosableIsSafe(n2)
  <2> SUFFICES ASSUME NEW l \in Node, n2[l].state = "LEADER",
                      NEW m \in 1..Len(n2[l].log),
                      n2[l].log[m].term = n2[l].currentTerm, Choosable(n2, l, m)
               PROVE  /\ Safe(n2, SubSeq(n2[l].log, 1, m))
                      /\ \A h \in Peers(l) : n2[l].matchIndex[h] >= m
                           => h \in Holders(n2, SubSeq(n2[l].log, 1, m))
    BY DEF ChoosableIsSafe
  <2> DEFINE R == SubSeq(n[l].log, 1, m)
  <2>1. m \in 1..Len(n[l].log) /\ n[l].log[m].term = n[l].currentTerm
    BY <1>2
  <2>2. Choosable(n, l, m)
    <3>1. {j \in Peers(l) : \/ n2[l].matchIndex[j] >= m
                            \/ n2[j].currentTerm <= n2[l].currentTerm}
            = {j \in Peers(l) : \/ n[l].matchIndex[j] >= m
                                \/ n[j].currentTerm <= n[l].currentTerm}
      BY <1>2 DEF Peers
    <3>2. QED
      BY <3>1 DEF Choosable
  <2>3. /\ Safe(n, R)
        /\ \A h \in Peers(l) : n[l].matchIndex[h] >= m => h \in Holders(n, R)
    BY <1>2, <2>1, <2>2 DEF CommitInv, ChoosableIsSafe
  <2>4. R \in Seq(Entry) /\ Len(R) > 0
    BY <2>1, Beginning
  <2> HIDE DEF R
  <2>5. Safe(n2, R)
    BY <1>1, <2>3, <2>4, SafeStays
  <2>6. QED
    BY <1>2, <1>8, <2>3, <2>5 DEF R
<1>13. QED
  BY <1>10, <1>11, <1>12 DEF CommitInv

-----------------------------------------------------------------------------
(* What a leader counts stays so.                                          *)

\* The same, of leader i and node j.
HeldAt(n, i, j) ==
    n[i].matchIndex[j] > 0 =>
        /\ n[j].currentTerm >= n[i].currentTerm
        /\ n[j].currentTerm = n[i].currentTerm =>
             \A k \in 1..n[i].matchIndex[j] :
                 k <= Len(n[j].log) /\ n[j].log[k] = n[i].log[k]

LEMMA HeldAtBy ==
    ASSUME NEW n, NEW i \in Node, NEW j \in Node, NEW q, n[i].matchIndex[j] = q,
           q > 0 => n[j].currentTerm >= n[i].currentTerm,
           q > 0 /\ n[j].currentTerm = n[i].currentTerm =>
             \A k \in 1..q : k <= Len(n[j].log) /\ n[j].log[k] = n[i].log[k]
    PROVE  HeldAt(n, i, j)
BY DEF HeldAt

LEMMA HeldByPair ==
    ASSUME NEW n
    PROVE  Held(n) <=> \A i, j \in Node : n[i].state = "LEADER" => HeldAt(n, i, j)
BY DEF Held, HeldAt

\* Later terms, longer logs and new leaders leave it so.
LEMMA HeldStays ==
    ASSUME NEW n, WellFormed(n), NEW n2, WellFormed(n2), NEW el, MatchInv(n, el), Held(n),
           \A j \in Node :
             /\ n2[j].currentTerm >= n[j].currentTerm
             /\ Prefix(n[j].log, n2[j].log)
             /\ n2[j].state = "LEADER" =>
                  \/ \A k \in Node : n2[j].matchIndex[k] = 0
                  \/ /\ n[j].state = "LEADER" /\ n2[j].currentTerm = n[j].currentTerm
                     /\ n2[j].matchIndex = n[j].matchIndex
    PROVE  Held(n2)
<1> SUFFICES ASSUME NEW i \in Node, NEW j \in Node, n2[i].state = "LEADER",
                    n2[i].matchIndex[j] > 0
             PROVE  /\ n2[j].currentTerm >= n2[i].currentTerm
                    /\ n2[j].currentTerm = n2[i].currentTerm =>
                         \A k \in 1..n2[i].matchIndex[j] :
                             k <= Len(n2[j].log) /\ n2[j].log[k] = n2[i].log[k]
  BY DEF Held
<1>1. /\ n[i].state = "LEADER" /\ n2[i].currentTerm = n[i].currentTerm
      /\ n2[i].matchIndex = n[i].matchIndex
  OBVIOUS
<1>2. /\ n[i].currentTerm \in Nat /\ n[j].currentTerm \in Nat /\ n2[j].currentTerm \in Nat
      /\ Len(n[i].log) \in Nat /\ Len(n[j].log) \in Nat /\ Len(n2[j].log) \in Nat
      /\ Len(n2[i].log) \in Nat /\ n[i].matchIndex[j] \in Nat
  BY FieldTypes
<1>3. n[i].matchIndex[j] <= Len(n[i].log)
  BY <1>1 DEF MatchInv, LeadersWon
<1>4. /\ n[j].currentTerm >= n[i].currentTerm
      /\ n[j].currentTerm = n[i].currentTerm =>
           \A k \in 1..n[i].matchIndex[j] : k <= Len(n[j].log) /\ n[j].log[k] = n[i].log[k]
  BY <1>1 DEF Held
<1>5. n2[j].currentTerm >= n[j].currentTerm
  OBVIOUS
<1>6. ASSUME n2[j].currentTerm = n2[i].currentTerm, NEW k \in 1..n2[i].matchIndex[j]
      PROVE  k <= Len(n2[j].log) /\ n2[j].log[k] = n2[i].log[k]
  <2>1. n[j].currentTerm = n[i].currentTerm /\ k \in 1..n[i].matchIndex[j]
    BY <1>1, <1>2, <1>4, <1>5, <1>6
  <2>2. k <= Len(n[j].log) /\ n[j].log[k] = n[i].log[k]
    BY <1>4, <2>1
  <2>3. k \in 1..Len(n[i].log) /\ k \in 1..Len(n[j].log)
    BY <1>2, <1>3, <2>1, <2>2
  <2>4. /\ Len(n[j].log) <= Len(n2[j].log) /\ n2[j].log[k] = n[j].log[k]
        /\ n2[i].log[k] = n[i].log[k]
    BY <2>3 DEF Prefix
  <2>5. QED
    BY <1>2, <2>2, <2>3, <2>4
<1>7. QED
  BY <1>1, <1>2, <1>4, <1>5, <1>6

\* A round of sends does.
LEMMA PushHolds ==
    ASSUME NEW n, WellFormed(n), NEW n2, WellFormed(n2), NEW el, Unique(el), MatchInv(n, el),
           Held(n), NEW i \in Node, Pushes(n, n2, i)
    PROVE  Held(n2)
<1>1. ASSUME NEW j \in Node
      PROVE  /\ n[j].currentTerm \in Nat /\ n2[j].currentTerm \in Nat
             /\ Len(n[j].log) \in Nat /\ Len(n2[j].log) \in Nat
             /\ \A k \in Node : n[j].matchIndex[k] \in Nat
             /\ n[j].state = "LEADER" =>
                  /\ <<n[j].currentTerm, j>> \in el
                  /\ \A k \in Node : n[j].matchIndex[k] <= Len(n[j].log)
  BY FieldTypes DEF MatchInv, LeadersWon
<1>2. /\ n2[i].currentTerm = n[i].currentTerm /\ n2[i].state = n[i].state
      /\ n2[i].log = n[i].log /\ n[i].state = "LEADER"
  BY DEF Pushes
<1>3. ASSUME NEW j \in Node, j # i, n2[j] # n[j]
      PROVE  /\ n[j].currentTerm <= n[i].currentTerm /\ n2[j].currentTerm = n[i].currentTerm
             /\ n2[j].state = "FOLLOWER"
  BY <1>3 DEF Pushes, Takes, Yields, Peers
<1>4. ASSUME NEW j \in Node, j # i PROVE HeldAt(n2, i, j)
  <2> DEFINE q == n[i].matchIndex[j]
  <2>1. q \in Nat /\ q <= Len(n[i].log)
    BY <1>1, <1>2
  <2>2. CASE Takes(n, n2, i, j)
    <3>1. n2[j].currentTerm = n[i].currentTerm /\ Prefix(n[i].log, n2[j].log)
      BY <2>2 DEF Takes, Yields, TookLog
    <3>2. n2[i].matchIndex[j] = q \/ n2[i].matchIndex[j] = Len(n[i].log)
      BY DEF Pushes
    <3>3. \A k \in 1..n2[i].matchIndex[j] : k \in 1..Len(n[i].log)
      BY <1>1, <2>1, <3>2
    <3>4. \A k \in 1..n2[i].matchIndex[j] : k <= Len(n2[j].log) /\ n2[j].log[k] = n2[i].log[k]
      <4>1. /\ Len(n[i].log) \in Nat /\ Len(n2[j].log) \in Nat
            /\ Len(n[i].log) <= Len(n2[j].log)
            /\ \A k \in 1..Len(n[i].log) : n[i].log[k] = n2[j].log[k]
        BY <1>1, <3>1 DEF Prefix
      <4>2. QED
        BY <1>2, <3>3, <4>1
    <3>5. n2[j].currentTerm >= n2[i].currentTerm
      <4>1. n2[j].currentTerm = n2[i].currentTerm
        BY <1>2, <3>1
      <4>2. n2[j].currentTerm \in Nat
        BY <1>1
      <4>3. QED
        BY <4>1, <4>2
    <3>6. QED
      BY <3>4, <3>5, HeldAtBy
  <2>3. CASE ~Takes(n, n2, i, j)
    <3>1. n2[i].matchIndex[j] = q
      BY <1>4, <2>3 DEF Pushes, Peers
    <3>2. q > 0 =>
            /\ n[j].currentTerm >= n[i].currentTerm
            /\ n[j].currentTerm = n[i].currentTerm =>
                 \A k \in 1..q : k <= Len(n[j].log) /\ n[j].log[k] = n[i].log[k]
      BY <1>2 DEF Held
    <3>3. CASE n2[j] = n[j]
      BY <1>2, <3>1, <3>2, <3>3 DEF HeldAt
    <3>4. CASE n2[j] # n[j]
      <4>1. /\ n[j].currentTerm <= n[i].currentTerm /\ n2[j].currentTerm = n[i].currentTerm
            /\ Cut(n[i], n[j], n2[j])
        BY <1>3, <1>4, <2>3, <3>4 DEF Pushes, Peers
      <4>2. ASSUME q > 0, NEW k \in 1..q PROVE k <= Len(n2[j].log) /\ n2[j].log[k] = n[i].log[k]
        <5>1. \A h \in 1..q : h <= Len(n[j].log) /\ n[j].log[h] = n[i].log[h]
          <6>1. n[j].currentTerm = n[i].currentTerm
            <7>1. n[j].currentTerm \in Nat /\ n[i].currentTerm \in Nat
              BY <1>1
            <7>2. QED
              BY <3>2, <4>1, <4>2, <7>1
          <6>2. QED
            BY <3>2, <4>2, <6>1
        <5>2. q <= Len(n2[j].log)
          <6>1. q <= Len(n[j].log)
            BY <2>1, <4>2, <5>1
          <6>2. CASE Len(n2[j].log) = Len(n[j].log)
            BY <6>1, <6>2
          <6>3. CASE /\ Len(n[i].log) \in 1..Len(n[j].log)
                     /\ Len(n2[j].log) = Len(n[i].log) - 1
                     /\ n[j].log[Len(n[i].log)].term # n[i].log[Len(n[i].log)].term
            <7>1. q # Len(n[i].log)
              BY <2>1, <4>2, <5>1, <6>3
            <7>2. QED
              BY <1>1, <2>1, <6>3, <7>1
          <6>4. QED
            BY <4>1, <6>2, <6>3 DEF Cut
        <5>3. k \in 1..Len(n2[j].log)
          BY <1>1, <2>1, <5>2
        <5>4. n2[j].log[k] = n[j].log[k]
          BY <4>1, <5>3 DEF Cut, Prefix
        <5>5. QED
          BY <5>1, <5>3, <5>4
      <4>3. n2[j].currentTerm >= n2[i].currentTerm
        <5>1. n2[j].currentTerm = n2[i].currentTerm
          BY <1>2, <4>1
        <5>2. n2[j].currentTerm \in Nat
          BY <1>1
        <5>3. QED
          BY <5>1, <5>2
      <4>4. \A k \in 1..q : q > 0 => k <= Len(n2[j].log) /\ n2[j].log[k] = n2[i].log[k]
        BY <1>2, <4>2
      <4>5. QED
        BY <3>1, <4>3, <4>4, HeldAtBy
    <3>5. QED
      BY <3>3, <3>4
  <2>4. QED
    BY <2>2, <2>3
<1>5. HeldAt(n2, i, i)
  <2>1. n2[i].matchIndex[i] \in Nat /\ n2[i].matchIndex[i] <= Len(n2[i].log)
    <3>1. /\ n[i].matchIndex[i] \in Nat /\ n[i].matchIndex[i] <= Len(n[i].log)
          /\ Len(n[i].log) \in Nat /\ n2[i].log = n[i].log
      BY <1>1, <1>2
    <3>2. n2[i].matchIndex[i] = n[i].matchIndex[i] \/ n2[i].matchIndex[i] = Len(n[i].log)
      BY DEF Pushes
    <3>3. QED
      BY <3>1, <3>2
  <2>2. Len(n2[i].log) \in Nat /\ n2[i].currentTerm \in Nat
    BY <1>1
  <2>3. \A k \in 1..n2[i].matchIndex[i] : k <= Len(n2[i].log)
    BY <2>1, <2>2
  <2>4. QED
    BY <2>2, <2>3, HeldAtBy
<1>6. ASSUME NEW l \in Node, l # i, n2[l].state = "LEADER", NEW j \in Node
      PROVE  HeldAt(n2, l, j)
  <2>1. n2[l] = n[l] /\ HeldAt(n, l, j)
    BY <1>3, <1>6, HeldByPair
  <2>2. CASE j = i \/ n2[j] = n[j]
    BY <1>2, <2>1, <2>2 DEF HeldAt
  <2>3. CASE j # i /\ n2[j] # n[j]
    <3>1. n[j].currentTerm <= n[i].currentTerm /\ n2[j].currentTerm = n[i].currentTerm
      BY <1>3, <2>3
    <3>2. n[i].currentTerm # n[l].currentTerm
      BY <1>1, <1>2, <1>6, <2>1 DEF Unique
    <3>3. /\ n2[l].matchIndex[j] = n[l].matchIndex[j]
          /\ n2[l].currentTerm = n[l].currentTerm
          /\ n[l].matchIndex[j] > 0 => n[j].currentTerm >= n[l].currentTerm
      BY <2>1 DEF HeldAt
    <3>4. /\ n[i].currentTerm \in Nat /\ n[j].currentTerm \in Nat
          /\ n[l].currentTerm \in Nat
      BY <1>1
    <3>5. n[l].matchIndex[j] > 0 => n2[j].currentTerm > n2[l].currentTerm
      BY <3>1, <3>2, <3>3, <3>4
    <3>6. /\ n[l].matchIndex[j] > 0 => n2[j].currentTerm >= n2[l].currentTerm
          /\ n[l].matchIndex[j] > 0 => n2[j].currentTerm # n2[l].currentTerm
      BY <3>1, <3>3, <3>4, <3>5
    <3>7. QED
      BY <3>3, <3>6, HeldAtBy
  <2>4. QED
    BY <2>2, <2>3
<1>7. QED
  BY <1>4, <1>5, <1>6, HeldByPair

LEMMA QuietHolds ==
    ASSUME NEW n, WellFormed(n), NEW n2, WellFormed(n2), NEW el, MatchInv(n, el), Held(n),
           Quiet(n, n2)
    PROVE  Held(n2)
<1>1. \A j \in Node : Prefix(n[j].log, n2[j].log)
  BY FieldTypes, PrefixOfItself DEF Quiet
<1>2. \A j \in Node :
        /\ n2[j].currentTerm >= n[j].currentTerm
        /\ n2[j].state = "LEADER" =>
             /\ n[j].state = "LEADER" /\ n2[j].currentTerm = n[j].currentTerm
             /\ n2[j].matchIndex = n[j].matchIndex
  BY DEF Quiet
<1>3. QED
  BY <1>1, <1>2, HeldStays

LEMMA SameLogsHold ==
    ASSUME NEW n, WellFormed(n), NEW n2, WellFormed(n2), NEW el, MatchInv(n, el), Held(n),
           SameLogs(n, n2)
    PROVE  Held(n2)
<1>1. \A j \in Node : Prefix(n[j].log, n2[j].log) /\ n[j].currentTerm \in Nat
  BY FieldTypes, PrefixOfItself DEF SameLogs
<1>2. \A j \in Node :
        /\ n2[j].currentTerm = n[j].currentTerm
        /\ n2[j].state = n[j].state /\ n2[j].matchIndex = n[j].matchIndex
  BY DEF SameLogs
<1>3. QED
  BY <1>1, <1>2, HeldStays

LEMMA AppendHolds ==
    ASSUME NEW n, WellFormed(n), NEW n2, WellFormed(n2), NEW el, MatchInv(n, el), Held(n),
           NEW i \in Node, NEW e \in Entry, Appends(n, n2, i, e)
    PROVE  Held(n2)
<1>1. \A j \in Node : Prefix(n[j].log, n2[j].log) /\ n[j].currentTerm \in Nat
  BY FieldTypes, PrefixOfItself, AppendFrame, AppendedLog
<1>2. \A j \in Node :
        /\ n2[j].currentTerm = n[j].currentTerm
        /\ n2[j].state = n[j].state /\ n2[j].matchIndex = n[j].matchIndex
  BY AppendFrame
<1>3. QED
  BY <1>1, <1>2, HeldStays

\* A new leader counts nothing.
LEMMA BecomeHolds ==
    ASSUME NEW n, WellFormed(n), NEW n2, WellFormed(n2), NEW el, MatchInv(n, el), Held(n),
           NEW i \in Node, NEW el2, NEW V, Becomes(n, n2, i, el, el2, V)
    PROVE  Held(n2)
<1>1. \A j \in Node : j # i => n2[j] = n[j]
  BY BecomeFrame
<1>2. /\ n2[i].log = n[i].log /\ n2[i].currentTerm = n[i].currentTerm
      /\ \A k \in Node : n2[i].matchIndex[k] = 0
  BY DEF Becomes
<1>3. \A j \in Node : n2[j].log = n[j].log /\ n2[j].currentTerm = n[j].currentTerm
  BY <1>1, <1>2
<1>4. \A j \in Node : Prefix(n[j].log, n2[j].log) /\ n2[j].currentTerm >= n[j].currentTerm
  BY <1>3, FieldTypes, PrefixOfItself
<1>5. \A j \in Node : n2[j].state = "LEADER" =>
        \/ \A k \in Node : n2[j].matchIndex[k] = 0
        \/ /\ n[j].state = "LEADER" /\ n2[j].currentTerm = n[j].currentTerm
           /\ n2[j].matchIndex = n[j].matchIndex
  BY <1>1, <1>2
<1>6. QED
  BY <1>4, <1>5, HeldStays

-----------------------------------------------------------------------------
(* The actions, as sequences of these changes.                             *)

\* In a step with any of these changes, a node other than i applies nothing but
\* what a node that had applied more had, and i goes on with its log.
AppliedMoves(n, n2, i) ==
    \A j \in Node :
        \/ n2[j].applied = n[j].applied
        \/ \E h \in Node : /\ n2[j].applied = n[h].applied
                           /\ Len(n[j].applied) <= Len(n[h].applied)
        \/ j = i /\ Prefix(n[j].applied, n2[j].applied)

LEMMA PushMoves ==
    ASSUME NEW n, WellFormed(n), NEW n2, WellFormed(n2), NEW el, MatchInv(n, el),
           CommitInv(n), NEW i \in Node, Pushes(n, n2, i)
    PROVE  /\ AppliedMoves(n, n2, i)
           /\ \A j \in Node :
                \/ n2[j].applied = n[j].applied
                \/ n2[j].applied = n[i].applied /\ Len(n[j].applied) <= Len(n[i].applied)
<1>1. \A j \in Node :
        \/ n2[j].applied = n[j].applied
        \/ n2[j].applied = n[i].applied /\ n[i].commitIndex > n[j].commitIndex
  BY PushCommits
<1>2. \A j \in Node : n[j].commitIndex = Len(n[j].applied) /\ Len(n[j].applied) \in Nat
  BY FieldTypes DEF CommitInv, AppliedIsOfLog
<1>3. \A j \in Node :
        \/ n2[j].applied = n[j].applied
        \/ n2[j].applied = n[i].applied /\ Len(n[j].applied) <= Len(n[i].applied)
  BY <1>1, <1>2
<1>4. QED
  BY <1>3 DEF AppliedMoves

\* One node of a quiet change.
QuietNode(r, s) ==
    /\ s.log = r.log /\ s.applied = r.applied /\ s.commitIndex = r.commitIndex
    /\ s.currentTerm >= r.currentTerm
    /\ s.state = "LEADER" =>
         r.state = "LEADER" /\ s.currentTerm = r.currentTerm /\ s.matchIndex = r.matchIndex

LEMMA QuietIsByNode ==
    ASSUME NEW n, NEW n2, \A j \in Node : QuietNode(n[j], n2[j]) PROVE Quiet(n, n2)
BY DEF Quiet, QuietNode

LEMMA QuietSelf == ASSUME NEW r, NodeOK(r) PROVE QuietNode(r, r)
BY ConstantsOK DEF QuietNode, NodeOK, NodeRecord

LEMMA VoteIsQuiet ==
    ASSUME NEW r, NodeOK(r), NEW i \in Node, NEW t \in 0..MaxTerm, NEW x, NEW y
    PROVE  QuietNode(r, RequestVote(r, i, t, x, y))
<1> DEFINE s == SeeTerm(r, t)
           v == RequestVote(r, i, t, x, y)
<1>1. r \in NodeRecord /\ r.currentTerm \in Nat /\ t \in Nat
  BY ConstantsOK DEF NodeOK, NodeRecord
<1>2. QuietNode(r, s) /\ DOMAIN s = DOMAIN r
  <2>1. CASE t <= r.currentTerm
    BY <1>1, <2>1 DEF SeeTerm, QuietNode
  <2>2. CASE t > r.currentTerm
    <3>1. s = [r EXCEPT !.currentTerm = t, !.state = "FOLLOWER",
                        !.votedFor = None, !.leaderId = None]
      BY <1>1, <2>2 DEF SeeTerm
    <3> HIDE DEF s
    <3>2. /\ s.log = r.log /\ s.applied = r.applied /\ s.commitIndex = r.commitIndex
          /\ s.currentTerm = t /\ s.state = "FOLLOWER" /\ DOMAIN s = DOMAIN r
      BY <1>1, <3>1 DEF NodeRecord
    <3>3. QED
      BY <1>1, <2>2, <3>2 DEF QuietNode
  <2>3. QED
    BY <1>1, <2>1, <2>2
<1>3. v = s \/ v = [s EXCEPT !.votedFor = i]
  BY DEF RequestVote
<1> HIDE DEF s, v
<1>4. CASE v = [s EXCEPT !.votedFor = i]
  <2>1. /\ v.log = s.log /\ v.applied = s.applied /\ v.commitIndex = s.commitIndex
        /\ v.currentTerm = s.currentTerm /\ v.state = s.state /\ v.matchIndex = s.matchIndex
    BY <1>4
  <2>2. QED
    BY <1>2, <2>1 DEF QuietNode, v
<1>5. QED
  BY <1>2, <1>3, <1>4 DEF v

\* What a candidate is, and a candidate made leader.
LEMMA CandidateIs ==
    ASSUME NEW r, NodeOK(r), NEW i \in Node, r.currentTerm + 1 <= MaxTerm
    PROVE  LET c == Candidate(r, i)
               l == Leader(c, i)
           IN /\ NodeOK(c) /\ NodeOK(l) /\ QuietNode(r, c)
              /\ QuietNode(r, [c EXCEPT !.state = "FOLLOWER"])
              /\ NodeOK([c EXCEPT !.state = "FOLLOWER"])
              /\ c.currentTerm = r.currentTerm + 1 /\ c.currentTerm \in 1..MaxTerm
              /\ c.state = "CANDIDATE" /\ c.log = r.log
              /\ l.log = c.log /\ l.currentTerm = c.currentTerm
              /\ l.applied = c.applied /\ l.commitIndex = c.commitIndex
              /\ l.state = "LEADER" /\ \A k \in Node : l.matchIndex[k] = 0
<1> DEFINE t == r.currentTerm + 1
           c == Candidate(r, i)
           d == [c EXCEPT !.state = "FOLLOWER"]
           l == Leader(c, i)
           first == [j \in Node |-> Len(c.log) + 1]
           none == [j \in Node |-> 0]
<1>1. r \in NodeRecord /\ r.currentTerm \in Nat
  BY ConstantsOK DEF NodeOK, NodeRecord
<1>2. NodeOK(c) /\ c.currentTerm = t
  BY CandidateOK
<1>3. NodeOK(l)
  <2> HIDE DEF c
  <2>1. QED
    BY <1>2, LeaderOK
<1>4. c = [r EXCEPT !.currentTerm = t, !.votedFor = i, !.state = "CANDIDATE"]
  BY DEF Candidate
<1>5. l = [c EXCEPT !.state = "LEADER", !.leaderId = i, !.nextIndex = first, !.matchIndex = none]
  BY DEF Leader
<1>6. \A k \in Node : none[k] = 0
  OBVIOUS
<1> HIDE DEF c, l, t, first, none
<1>7. /\ c.log = r.log /\ c.applied = r.applied /\ c.commitIndex = r.commitIndex
      /\ c.state = "CANDIDATE"
  BY <1>1, <1>4 DEF NodeRecord
<1>8. c \in NodeRecord
  BY <1>2 DEF NodeOK
<1>9. /\ l.log = c.log /\ l.currentTerm = c.currentTerm /\ l.applied = c.applied
      /\ l.commitIndex = c.commitIndex /\ l.state = "LEADER" /\ l.matchIndex = none
  BY <1>5, <1>8 DEF NodeRecord
<1>10. /\ d.log = c.log /\ d.currentTerm = c.currentTerm /\ d.applied = c.applied
       /\ d.commitIndex = c.commitIndex /\ d.state = "FOLLOWER" /\ d \in NodeRecord
  BY <1>8 DEF NodeRecord
<1> HIDE DEF d
<1>11. NodeOK(d)
  BY <1>2, <1>10 DEF NodeOK
<1>12. t \in 1..MaxTerm /\ t >= r.currentTerm
  BY <1>1, ConstantsOK DEF t
<1>13. QuietNode(r, c) /\ QuietNode(r, d)
  BY <1>2, <1>7, <1>10, <1>12 DEF QuietNode
<1>14. QED
  BY <1>2, <1>3, <1>6, <1>7, <1>9, <1>11, <1>12, <1>13 DEF c, d, l, t

\* What every step below keeps.
Kept(n2, el2, i) ==
    /\ MatchInv(n2, el2)
    /\ Held(node) => Held(n2)
    /\ CommitInv(node) => CommitInv(n2) /\ AppliedMoves(node, n2, i)

LEMMA QuietKeeps ==
    ASSUME TypeOK, MatchInv(node, elected), NEW i \in Node,
           NEW n2, WellFormed(n2), Quiet(node, n2)
    PROVE  Kept(n2, elected, i)
<1>1. WellFormed(node)
  BY TypeIsNodesOK DEF WellFormed, NodesOK
<1>2. MatchInv(n2, elected)
  BY <1>1, QuietFollows, FollowingMatches
<1>3. CommitInv(node) => CommitInv(n2)
  BY <1>1, QuietCommits
<1>4. AppliedMoves(node, n2, i)
  BY DEF AppliedMoves, Quiet
<1>5. Held(node) => Held(n2)
  BY <1>1, QuietHolds
<1>6. QED
  BY <1>2, <1>3, <1>4, <1>5 DEF Kept

LEMMA ElectionKeeps ==
    ASSUME TypeOK, MatchInv(node, elected), NEW i \in Node, StartElection(i),
           LeadersAreUnique'
    PROVE  Kept(node', elected', i)
<1> DEFINE c == Candidate(node[i], i)
           T == c.currentTerm
           asked == Reachable(i)
           Says(k) == Grants(node[k], i, T, Len(c.log), LastTerm(c))
           Votes(k) == RequestVote(node[k], i, T, Len(c.log), LastTerm(c))
           granted == {j \in asked : Says(j)}
           voted == [j \in Node |-> IF j \in asked THEN Votes(j) ELSE node[j]]
           l == Leader(c, i)
           d == [c EXCEPT !.state = "FOLLOWER"]
<1>1. WellFormed(node) /\ \A k \in Node : NodeOK(node[k])
  BY TypeIsNodesOK DEF WellFormed, NodesOK
<1>2. asked \subseteq Peers(i) /\ Peers(i) \subseteq Node /\ i \notin Peers(i)
  BY DEF Reachable, Peers
<1>3. T <= MaxTerm /\ node[i].currentTerm + 1 <= MaxTerm
  <2>1. T <= MaxTerm
    BY DEF StartElection
  <2>2. T = node[i].currentTerm + 1
    BY <1>1 DEF Candidate, NodeOK, NodeRecord
  <2>3. QED
    BY <2>1, <2>2
<1>4. /\ NodeOK(c) /\ NodeOK(l) /\ QuietNode(node[i], c) /\ QuietNode(node[i], d) /\ NodeOK(d)
      /\ T = node[i].currentTerm + 1 /\ T \in 1..MaxTerm
      /\ c.state = "CANDIDATE" /\ c.log = node[i].log
      /\ l.log = c.log /\ l.currentTerm = T
      /\ l.applied = c.applied /\ l.commitIndex = c.commitIndex
      /\ l.state = "LEADER" /\ \A k \in Node : l.matchIndex[k] = 0
  BY <1>1, <1>3, CandidateIs
<1>5. T \in 0..MaxTerm /\ T \in Nat
  BY <1>4, ConstantsOK
<1> HIDE DEF c, T, l, d
<1>6. ASSUME NEW k \in Node
      PROVE  /\ NodeOK(voted[k]) /\ QuietNode(node[k], voted[k])
             /\ k \in granted => /\ voted[k].currentTerm >= T
                                 /\ UpToDate(node[k], Len(c.log), LastTerm(c))
  <2>1. /\ NodeOK(Votes(k)) /\ QuietNode(node[k], Votes(k))
        /\ Says(k) => Votes(k).currentTerm = T
    BY <1>1, <1>5, RequestVoteOK, VoteIsQuiet
  <2>2. Says(k) => UpToDate(node[k], Len(c.log), LastTerm(c))
    BY DEF Grants
  <2>3. QuietNode(node[k], node[k])
    BY <1>1, QuietSelf
  <2>4. voted[k] = IF k \in asked THEN Votes(k) ELSE node[k]
    OBVIOUS
  <2>5. k \in granted => k \in asked /\ Says(k)
    OBVIOUS
  <2> HIDE DEF Votes, Says, voted, granted, asked
  <2>6. QED
    BY <1>1, <1>5, <2>1, <2>2, <2>3, <2>4, <2>5
<1>7. granted \subseteq asked
  OBVIOUS
<1>8. \/ /\ Majority(granted \union {i})
         /\ node' = [j \in Node |-> IF j = i THEN l
                                    ELSE IF j \in asked THEN Heartbeat(l, i, voted[j])
                                    ELSE voted[j]]
         /\ elected' = elected \union {<<T, i>>}
      \/ /\ node' = [voted EXCEPT ![i] = d]
         /\ elected' = elected
  BY DEF StartElection, c, l, d, T
<1>9. \A k \in Node : voted[k] = IF k \in asked THEN Votes(k) ELSE node[k]
  OBVIOUS
<1>10. DOMAIN voted = Node
  OBVIOUS
<1> HIDE DEF voted, granted, asked
<1>11. CASE node' = [voted EXCEPT ![i] = d] /\ elected' = elected
  <2>1. \A k \in Node : node'[k] = IF k = i THEN d ELSE voted[k]
    BY <1>10, <1>11
  <2>2. \A k \in Node : NodeOK(node'[k]) /\ QuietNode(node[k], node'[k])
    BY <1>4, <1>6, <2>1
  <2>3. WellFormed(node') /\ Quiet(node, node')
    BY <2>2, QuietIsByNode DEF WellFormed
  <2>4. QED
    BY <1>11, <2>3, QuietKeeps
<1>12. CASE /\ Majority(granted \union {i})
            /\ node' = [j \in Node |-> IF j = i THEN l
                                       ELSE IF j \in asked THEN Heartbeat(l, i, voted[j])
                                       ELSE voted[j]]
            /\ elected' = elected \union {<<T, i>>}
  <2> DEFINE n1 == [j \in Node |-> IF j = i THEN c ELSE voted[j]]
             n2 == [j \in Node |-> IF j = i THEN l ELSE voted[j]]
             V == granted \union {i}
  <2>1. \A k \in Node : /\ n1[k] = IF k = i THEN c ELSE voted[k]
                        /\ n2[k] = IF k = i THEN l ELSE voted[k]
                        /\ node'[k] = IF k = i THEN l
                                      ELSE IF k \in asked THEN Heartbeat(l, i, voted[k])
                                      ELSE voted[k]
    BY <1>12
  <2> HIDE DEF n1, n2
  <2>2. WellFormed(n1) /\ Quiet(node, n1)
    <3>1. \A k \in Node : NodeOK(n1[k]) /\ QuietNode(node[k], n1[k])
      BY <1>4, <1>6, <2>1
    <3>2. QED
      BY <3>1, QuietIsByNode DEF WellFormed
  <2>3. WellFormed(n2)
    BY <1>4, <1>6, <2>1 DEF WellFormed
  <2>4. WellFormed(node')
    <3>1. NodesOK'
      BY ElectionStep, TypeIsNodesOK
    <3>2. QED
      BY <3>1 DEF NodesOK, WellFormed
  <2>5. Kept(n1, elected, i)
    BY <2>2, QuietKeeps
  <2>6. \A x \in Node : <<T, x>> \notin elected
    <3> SUFFICES ASSUME NEW x \in Node, <<T, x>> \in elected PROVE FALSE
      OBVIOUS
    <3>1. <<T, x>> \in elected' /\ <<T, i>> \in elected'
      BY <1>12
    <3>2. <<T, x>> = <<T, i>>
      BY <3>1 DEF LeadersAreUnique
    <3>3. node[i].currentTerm >= T
      BY <1>4, <3>2 DEF MatchInv, TermsWereReached
    <3>4. node[i].currentTerm \in Nat
      BY <1>1, FieldTypes
    <3>5. QED
      BY <1>4, <3>3, <3>4
  <2>7. Becomes(n1, n2, i, elected, elected', V)
    <3>1. n1[i] = c /\ n2[i] = l /\ c.currentTerm = T
      BY <2>1 DEF T
    <3>2. \A j \in Peers(i) : n2[j] = n1[j]
      BY <1>2, <2>1
    <3>3. ASSUME NEW v \in V
          PROVE  n1[v].currentTerm >= T /\ (v = i \/ UpToDate(n1[v], Len(c.log), LastTerm(c)))
      <4>1. CASE v = i
        BY <1>5, <3>1, <4>1
      <4>2. CASE v # i
        <5>1. v \in granted /\ v \in Node /\ n1[v] = voted[v]
          BY <1>2, <1>7, <2>1, <4>2
        <5>2. n1[v].log = node[v].log
          BY <1>6, <5>1 DEF QuietNode
        <5>3. QED
          BY <1>6, <5>1, <5>2 DEF UpToDate
      <4>3. QED
        BY <4>1, <4>2
    <3> HIDE DEF V
    <3>4. QED
      BY <1>4, <1>12, <2>6, <3>1, <3>2, <3>3 DEF Becomes, V
  <2>8. V \in SUBSET Node
    BY <1>2, <1>7
  <2> HIDE DEF V
  <2>9. MatchInv(n2, elected')
    BY <2>2, <2>3, <2>5, <2>7, <2>8, BecomeMatches DEF Kept
  <2>10. CommitInv(node) => CommitInv(n2)
    BY <2>2, <2>3, <2>5, <2>7, <2>8, BecomeCommits DEF Kept
  <2>11. Pushes(n2, node', i)
    <3>1. n2[i] = l /\ node'[i] = l
      BY <2>1
    <3>2. ASSUME NEW j \in Peers(i)
          PROVE  \/ node'[j] = n2[j]
                 \/ Takes(n2, node', i, j)
                 \/ Yields(n2[i], n2[j], node'[j]) /\ Cut(n2[i], n2[j], node'[j])
      <4>1. j \in Node /\ j # i
        BY <1>2
      <4>2. CASE j \notin asked
        BY <2>1, <4>1, <4>2
      <4>3. CASE j \in asked
        <5>1. n2[j] = voted[j] /\ node'[j] = Heartbeat(l, i, voted[j])
          BY <2>1, <4>1, <4>3
        <5>2. Agree(n2[j].log, l.log)
          BY <2>9, <3>1, <4>1 DEF MatchInv, LogsMatch, Agree
        <5>3. IF n2[j].currentTerm > l.currentTerm THEN node'[j] = n2[j]
              ELSE /\ Yields(l, n2[j], node'[j])
                   /\ TookLog(l, n2[j], node'[j]) \/ Cut(l, n2[j], node'[j])
          BY <1>4, <1>6, <4>1, <5>1, <5>2, HeartbeatGives
        <5>4. QED
          BY <3>1, <5>3 DEF Takes
      <4>4. QED
        BY <4>2, <4>3
    <3>3. QED
      BY <1>4, <3>1, <3>2 DEF Pushes
  <2>12. MatchInv(node', elected')
    BY <2>3, <2>4, <2>9, <2>11, PushFollows, FollowingMatches
  <2>13. ASSUME CommitInv(node) PROVE CommitInv(node') /\ AppliedMoves(node, node', i)
    <3>1. CommitInv(n2)
      BY <2>10, <2>13
    <3>2. CommitInv(node')
      BY <2>3, <2>4, <2>9, <2>11, <3>1, PushCommits
    <3>3. AppliedMoves(n2, node', i)
      BY <2>3, <2>4, <2>9, <2>11, <3>1, PushMoves
    <3>4. \A k \in Node : n2[k].applied = node[k].applied
      BY <1>4, <1>6, <2>1 DEF QuietNode
    <3>5. QED
      BY <3>2, <3>3, <3>4 DEF AppliedMoves
  <2>14. ASSUME Held(node) PROVE Held(node')
    <3>1. Held(n1) /\ MatchInv(n1, elected)
      BY <2>5, <2>14 DEF Kept
    <3>2. Held(n2)
      BY <2>2, <2>3, <2>7, <3>1, BecomeHolds
    <3>3. Unique(elected')
      BY DEF LeadersAreUnique, Unique
    <3>4. QED
      BY <2>3, <2>4, <2>9, <2>11, <3>2, <3>3, PushHolds
  <2>15. QED
    BY <2>12, <2>13, <2>14 DEF Kept
<1>13. QED
  BY <1>8, <1>11, <1>12

LEMMA AfterSendingIs ==
    ASSUME NEW l, NodeOK(l), NEW S, NEW n
    PROVE  LET a == AfterSending(l, S, n)
           IN /\ NodeOK(a) /\ a.log = l.log /\ a.currentTerm = l.currentTerm
              /\ a.state = l.state /\ a.commitIndex = l.commitIndex /\ a.applied = l.applied
              /\ \A j \in Node :
                   \/ a.matchIndex[j] = l.matchIndex[j]
                   \/ /\ a.matchIndex[j] = Len(l.log)
                      /\ j \in S /\ ~(n[j].currentTerm > l.currentTerm)
<1> DEFINE refused == {j \in S : n[j].currentTerm > l.currentTerm}
           sent == {j \in S \ refused : AgreeAt(l, n[j], j) < Len(l.log)}
           next == [j \in Node |-> IF j \in refused THEN 1
                                   ELSE IF j \in S THEN Len(l.log) + 1 ELSE l.nextIndex[j]]
           match == [j \in Node |-> IF j \in sent THEN Len(l.log) ELSE l.matchIndex[j]]
           a == AfterSending(l, S, n)
<1>1. a = [l EXCEPT !.nextIndex = next, !.matchIndex = match]
  BY DEF AfterSending
<1>2. \A j \in sent : j \in S /\ ~(n[j].currentTerm > l.currentTerm)
  OBVIOUS
<1>3. NodeOK(a) /\ l \in NodeRecord
  BY AfterSendingOK DEF NodeOK
<1> HIDE DEF sent, next, a
<1>4. \A j \in Node : match[j] = IF j \in sent THEN Len(l.log) ELSE l.matchIndex[j]
  OBVIOUS
<1> HIDE DEF match
<1>5. /\ a.log = l.log /\ a.currentTerm = l.currentTerm /\ a.state = l.state
      /\ a.commitIndex = l.commitIndex /\ a.applied = l.applied /\ a.matchIndex = match
  BY <1>1, <1>3 DEF NodeRecord
<1>6. QED
  BY <1>2, <1>3, <1>4, <1>5 DEF a

\* Leader l = n[i] sends to the peers of S, and n2 is what becomes of all nodes.
LEMMA SendsPush ==
    ASSUME NEW n, WellFormed(n), NEW n2, NEW el, MatchInv(n, el), NEW i \in Node,
           n[i].state = "LEADER", NEW S \in SUBSET Peers(i),
           NEW m, \A j \in S : m[j] = n[j],
           n2[i] = AfterSending(n[i], S, m),
           \A j \in Peers(i) : n2[j] = IF j \in S THEN SendToPeer(n[i], i, n[j], j) ELSE n[j]
    PROVE  /\ Pushes(n, n2, i)
           /\ \A j \in S : IF n[j].currentTerm > n[i].currentTerm THEN n2[j] = n[j]
                           ELSE Takes(n, n2, i, j)
<1>1. Peers(i) \subseteq Node /\ i \notin Peers(i)
  BY DEF Peers
<1>2. \A j \in Node : NodeOK(n[j])
  BY DEF WellFormed
<1>3. ASSUME NEW j \in S
      PROVE  IF n[j].currentTerm > n[i].currentTerm THEN n2[j] = n[j] ELSE Takes(n, n2, i, j)
  <2>1. j \in Node /\ j \in Peers(i) /\ n2[j] = SendToPeer(n[i], i, n[j], j)
    BY <1>1
  <2>2. Agree(n[j].log, n[i].log)
    BY <2>1 DEF MatchInv, LogsMatch, Agree
  <2>3. \A k \in 1..Len(n[j].log) : n[j].log[k].term >= 1
    BY <2>1, FieldTypes DEF MatchInv, EntriesAreWon
  <2>4. QED
    BY <1>2, <2>1, <2>2, <2>3, SendToPeerGives DEF Takes
<1>4. /\ n2[i].log = n[i].log /\ n2[i].currentTerm = n[i].currentTerm
      /\ n2[i].state = n[i].state /\ n2[i].commitIndex = n[i].commitIndex
      /\ n2[i].applied = n[i].applied
      /\ \A j \in Node : \/ n2[i].matchIndex[j] = n[i].matchIndex[j]
                         \/ /\ n2[i].matchIndex[j] = Len(n[i].log)
                            /\ j \in S /\ ~(m[j].currentTerm > n[i].currentTerm)
  BY <1>2, AfterSendingIs
<1>5. \A j \in Peers(i) : n2[j] = n[j] \/ Takes(n, n2, i, j)
  BY <1>3
<1>6. QED
  BY <1>3, <1>4, <1>5 DEF Pushes

LEMMA WriteKeeps ==
    ASSUME TypeOK, MatchInv(node, elected), NEW i \in Node, NEW x \in Message,
           ReceiveClientMessage(i, x), LeadersAreUnique
    PROVE  Kept(node', elected', i)
<1> DEFINE e == [term |-> node[i].currentTerm, message |-> x]
           log == Append(node[i].log, e)
           l == [node[i] EXCEPT !.log = Append(@, e)]
           to == Reachable(i)
           sent == AfterSending(l, to, node)
           n1 == [j \in Node |-> IF j = i THEN l ELSE node[j]]
           n2 == [j \in Node |-> IF j = i THEN sent
                                 ELSE IF j \in to THEN SendToPeer(l, i, node[j], j)
                                 ELSE node[j]]
<1>1. WellFormed(node) /\ \A k \in Node : NodeOK(node[k])
  BY TypeIsNodesOK DEF WellFormed, NodesOK
<1>2. to \in SUBSET Peers(i) /\ Peers(i) \subseteq Node /\ i \notin Peers(i)
  BY DEF Reachable, Peers
<1>3. e \in Entry /\ e.term = node[i].currentTerm
  BY <1>1 DEF NodeOK, NodeRecord, Entry
<1>4. node[i].state = "LEADER" /\ Len(l.log) <= MaxLog /\ elected' = elected
  BY DEF ReceiveClientMessage, history
<1>5. /\ NodeOK(l) /\ l.log = log /\ l.currentTerm = node[i].currentTerm
      /\ l.state = node[i].state /\ l.applied = node[i].applied
      /\ l.commitIndex = node[i].commitIndex /\ l.matchIndex = node[i].matchIndex
  <2>1. log \in Seq(Entry) /\ node[i] \in NodeRecord
    <3>1. node[i].log \in Seq(Entry) /\ node[i] \in NodeRecord
      BY <1>1 DEF NodeOK, NodeRecord
    <3> HIDE DEF e
    <3>2. QED
      BY <1>3, <3>1, AppendProperties
  <2>2. l = [node[i] EXCEPT !.log = log]
    OBVIOUS
  <2> HIDE DEF log, e, l
  <2>3. /\ l \in NodeRecord /\ l.log = log /\ l.currentTerm = node[i].currentTerm
        /\ l.state = node[i].state /\ l.applied = node[i].applied
        /\ l.commitIndex = node[i].commitIndex /\ l.matchIndex = node[i].matchIndex
    BY <2>1, <2>2 DEF NodeRecord
  <2>4. QED
    BY <1>1, <1>4, <2>3 DEF NodeOK
<1>6. node' = [j \in Node |-> IF j = i THEN CommitEntries(sent, i)
                             ELSE IF j \in to THEN SendToPeer(l, i, node[j], j)
                             ELSE node[j]]
  BY DEF ReceiveClientMessage
<1> HIDE DEF e, l
<1>7. \A k \in Node : /\ n1[k] = IF k = i THEN l ELSE node[k]
                      /\ n2[k] = IF k = i THEN sent
                                 ELSE IF k \in to THEN SendToPeer(l, i, node[k], k) ELSE node[k]
                      /\ node'[k] = IF k = i THEN CommitEntries(sent, i) ELSE n2[k]
  BY <1>6
<1>8. /\ NodeOK(sent) /\ sent.log = l.log /\ sent.currentTerm = l.currentTerm
      /\ sent.state = l.state /\ sent.commitIndex = l.commitIndex /\ sent.applied = l.applied
  BY <1>5, AfterSendingIs
<1> HIDE DEF sent, n1, n2, to
<1>9. WellFormed(n1)
  BY <1>1, <1>5, <1>7 DEF WellFormed
<1>10. WellFormed(n2)
  <2>1. ASSUME NEW k \in Node PROVE NodeOK(n2[k])
    <3>1. NodeOK(SendToPeer(l, i, node[k], k))
      BY <1>1, <1>5, SendToPeerOK
    <3>2. QED
      BY <1>1, <1>7, <1>8, <3>1
  <2>2. QED
    BY <2>1 DEF WellFormed
<1>11. WellFormed(node')
  <2>1. NodesOK'
    BY WriteStep, TypeIsNodesOK
  <2>2. QED
    BY <2>1 DEF NodesOK, WellFormed
<1>12. Appends(node, n1, i, e)
  BY <1>2, <1>3, <1>4, <1>5, <1>7 DEF Appends
<1>13. elected \in SUBSET ((1..MaxTerm) \X Node) /\ Unique(elected)
  BY TypeIsNodesOK DEF LeadersAreUnique, Unique
<1>14. MatchInv(n1, elected)
  BY <1>1, <1>3, <1>9, <1>12, <1>13, AppendMatches
<1>15. /\ Pushes(n1, n2, i)
       /\ \A j \in to : IF n1[j].currentTerm > n1[i].currentTerm THEN n2[j] = n1[j]
                        ELSE Takes(n1, n2, i, j)
  <2>1. n1[i] = l /\ n1[i].state = "LEADER"
    BY <1>4, <1>5, <1>7
  <2>2. \A j \in Peers(i) : n1[j] = node[j]
    BY <1>2, <1>7
  <2>3. n2[i] = AfterSending(n1[i], to, node)
    BY <1>7, <2>1 DEF sent
  <2>4. \A j \in Peers(i) : n2[j] = IF j \in to THEN SendToPeer(n1[i], i, n1[j], j) ELSE n1[j]
    BY <1>2, <1>7, <2>1, <2>2
  <2>5. \A j \in to : node[j] = n1[j]
    BY <1>2, <2>2
  <2>6. QED
    BY <1>2, <1>9, <1>14, <2>1, <2>3, <2>4, <2>5, SendsPush
<1>16. MatchInv(n2, elected)
  BY <1>9, <1>10, <1>14, <1>15, PushFollows, FollowingMatches
<1>17. n2[i] = sent /\ sent.state = "LEADER"
  BY <1>4, <1>5, <1>7, <1>8
<1> DEFINE ready == Committable(sent, i)
           top == CHOOSE k \in ready : \A h \in ready : k >= h
<1>18. CommitEntries(sent, i) = IF ready = {} THEN sent ELSE CommitTo(sent, top)
  BY DEF CommitEntries
<1>19. Len(sent.log) \in Nat /\ sent.commitIndex \in Nat
  BY <1>8, LenProperties DEF NodeOK, NodeRecord
<1>20. ready \subseteq 0..Len(sent.log)
  BY <1>19 DEF Committable
<1>21. ready # {} => top \in ready
  <2> HIDE DEF ready
  <2>1. QED
    BY <1>19, <1>20, GreatestIndex
<1> HIDE DEF ready, top
<1>22. /\ NodeOK(node'[i]) /\ \A k \in Node : k # i => node'[k] = n2[k]
       /\ node'[i] = CommitEntries(sent, i)
  BY <1>7, <1>11 DEF WellFormed
<1>23. ASSUME ready = {}
       PROVE  /\ SameLogs(n2, node')
              /\ CommitInv(n2) => CommitInv(node')
              /\ node'[i].applied = n2[i].applied
  <2>1. \A k \in Node : node'[k] = n2[k]
    BY <1>17, <1>18, <1>22, <1>23
  <2>2. Quiet(n2, node') /\ SameLogs(n2, node')
    <3>1. \A k \in Node : QuietNode(n2[k], node'[k])
      BY <1>10, <2>1, QuietSelf DEF WellFormed
    <3>2. QED
      BY <2>1, <3>1, QuietIsByNode DEF SameLogs
  <2>3. ASSUME CommitInv(n2) PROVE CommitInv(node')
    BY <1>10, <1>11, <1>16, <2>2, <2>3, QuietCommits
  <2>4. QED
    BY <2>1, <2>2, <2>3
<1>24. ASSUME ready # {}
       PROVE  /\ SameLogs(n2, node')
              /\ CommitInv(n2) => CommitInv(node') /\ Prefix(n2[i].applied, node'[i].applied)
  <2>1. /\ top \in Nat /\ top <= Len(sent.log) /\ top > sent.commitIndex
        /\ top \in Committable(sent, i)
    <3>1. top \in Committable(sent, i)
      BY <1>21, <1>24 DEF ready
    <3>2. top \in sent.commitIndex + 1 .. Len(sent.log)
      BY <3>1 DEF Committable
    <3>3. QED
      BY <1>19, <3>1, <3>2
  <2> DEFINE all == sent.applied \o SubSeq(sent.log, Len(sent.applied) + 1, top)
  <2>2. node'[i] = [sent EXCEPT !.commitIndex = top, !.applied = all]
    BY <1>18, <1>22, <1>24 DEF CommitTo
  <2> HIDE DEF all
  <2>3. /\ node'[i].log = sent.log /\ node'[i].currentTerm = sent.currentTerm
        /\ node'[i].state = sent.state /\ node'[i].matchIndex = sent.matchIndex
        /\ node'[i].commitIndex = top /\ node'[i].applied = all
    BY <1>8, <2>2 DEF NodeOK, NodeRecord
  <2>4. SameLogs(n2, node')
    BY <1>17, <1>22, <2>3 DEF SameLogs
  <2>5. ASSUME CommitInv(n2)
        PROVE  CommitInv(node') /\ Prefix(n2[i].applied, node'[i].applied)
    <3>1. sent.commitIndex = Len(sent.applied) /\ Prefix(sent.applied, sent.log)
      BY <1>17, <2>5 DEF CommitInv, AppliedIsOfLog
    <3>2. /\ sent.applied \in Seq(Entry) /\ sent.log \in Seq(Entry)
          /\ Len(sent.applied) \in Nat
      BY <1>10, <1>17, FieldTypes
    <3>3. Len(sent.applied) <= top
      BY <2>1, <3>1, <3>2
    <3>4. all = SubSeq(sent.log, 1, top)
      BY <2>1, <3>1, <3>2, <3>3, HandsOver DEF all
    <3>5. Commits(n2, node', i, top)
      BY <1>2, <1>17, <1>22, <2>1, <2>3, <3>4 DEF Commits
    <3>6. CommitInv(node')
      BY <1>10, <1>11, <1>16, <2>5, <3>5, CommitKeeps
    <3>7. Prefix(node'[i].applied, sent.log)
      BY <2>1, <2>3, <3>2, <3>4, SubSeqIsPrefix
    <3>8. Len(node'[i].applied) = top /\ node'[i].applied \in Seq(Entry)
      BY <2>1, <2>3, <3>2, <3>4, SubSeqIsPrefix
    <3>9. Prefix(sent.applied, node'[i].applied)
      BY <3>1, <3>2, <3>3, <3>7, <3>8, PrefixesCompare
    <3>10. QED
      BY <1>17, <3>6, <3>9
  <2>6. QED
    BY <2>4, <2>5
<1>25. /\ SameLogs(n2, node')
       /\ CommitInv(n2) => /\ CommitInv(node')
                           /\ \/ node'[i].applied = n2[i].applied
                              \/ Prefix(n2[i].applied, node'[i].applied)
  BY <1>23, <1>24
<1>26. MatchInv(node', elected')
  BY <1>4, <1>10, <1>11, <1>16, <1>25, SameLogsFollow, FollowingMatches
<1>27. ASSUME CommitInv(node) PROVE CommitInv(node') /\ AppliedMoves(node, node', i)
  <2>1. CommitInv(n1)
    BY <1>1, <1>3, <1>9, <1>12, <1>13, <1>27, AppendCommits
  <2>2. CommitInv(n2) /\ AppliedMoves(n1, n2, i)
    BY <1>9, <1>10, <1>14, <1>15, <2>1, PushCommits, PushMoves
  <2>3. \A k \in Node : n1[k].applied = node[k].applied
    BY <1>5, <1>7
  <2>4. n2[i].applied = n1[i].applied
    BY <1>5, <1>7, <1>8
  <2>5. \A k \in Node : k # i => node'[k].applied = n2[k].applied
    BY <1>22
  <2>6. AppliedMoves(node, node', i)
    BY <1>25, <2>2, <2>3, <2>4, <2>5 DEF AppliedMoves
  <2>7. QED
    BY <1>25, <2>2, <2>6
<1>28. ASSUME Held(node) PROVE Held(node')
  <2>1. Held(n1)
    BY <1>1, <1>3, <1>9, <1>12, <1>28, AppendHolds
  <2>2. Held(n2)
    BY <1>9, <1>10, <1>13, <1>14, <1>15, <2>1, PushHolds
  <2>3. QED
    BY <1>10, <1>11, <1>16, <1>25, <2>2, SameLogsHold
<1>29. QED
  BY <1>26, <1>27, <1>28 DEF Kept

\* sync_from_leader is a round of sends to one node, after which the commit index
\* is followed again: to no effect, unless the leader's entries were refused.
LEMMA SyncKeeps ==
    ASSUME TypeOK, MatchInv(node, elected), NEW i \in Node, NEW j \in Node,
           SyncFromLeader(i, j), LeadersAreUnique
    PROVE  /\ MatchInv(node', elected')
           /\ Held(node) => Held(node')
           /\ CommitInv(node) /\ ~unchecked' =>
                CommitInv(node') /\ AppliedMoves(node, node', j)
<1> DEFINE l == node[j]
           r == SendToPeer(l, j, node[i], i)
           s == FollowCommit(r, l.commitIndex)
           sent == AfterSending(l, {i}, node)
           n1 == [k \in Node |-> IF k = j THEN sent ELSE IF k = i THEN r ELSE node[k]]
<1>1. WellFormed(node) /\ \A k \in Node : NodeOK(node[k])
  BY TypeIsNodesOK DEF WellFormed, NodesOK
<1>2. /\ i # j /\ l.state = "LEADER" /\ elected' = elected
      /\ node' = [node EXCEPT ![i] = s, ![j] = sent]
      /\ ~unchecked' => r.currentTerm <= l.currentTerm \/ l.commitIndex <= r.commitIndex
  <2>1. /\ i # j /\ l.state = "LEADER" /\ elected' = elected
        /\ node' = [node EXCEPT ![i] = s, ![j] = sent]
    BY DEF SyncFromLeader
  <2>2. unchecked' = (unchecked \/ /\ l.currentTerm < r.currentTerm
                                   /\ l.commitIndex > r.commitIndex)
    BY DEF SyncFromLeader
  <2>3. NodeOK(l) /\ NodeOK(r)
    BY <1>1, SendToPeerOK
  <2> HIDE DEF l, r, s, sent
  <2>4. /\ l.currentTerm \in Nat /\ r.currentTerm \in Nat
        /\ l.commitIndex \in Nat /\ r.commitIndex \in Nat
    BY <2>3, ConstantsOK DEF NodeOK, NodeRecord
  <2>5. ~unchecked' => ~(l.currentTerm < r.currentTerm /\ l.commitIndex > r.commitIndex)
    BY <2>2, Zenon
  <2>6. ~unchecked' => r.currentTerm <= l.currentTerm \/ l.commitIndex <= r.commitIndex
    BY <2>4, <2>5
  <2>7. QED
    BY <2>1, <2>6
<1>3. NodeOK(r) /\ NodeOK(s) /\ NodeOK(sent)
  <2>1. l.commitIndex \in Nat /\ NodeOK(l)
    BY <1>1 DEF NodeOK, NodeRecord
  <2>2. NodeOK(r)
    BY <1>1, SendToPeerOK
  <2>3. NodeOK(s)
    <3> HIDE DEF r
    <3>1. QED
      BY <2>1, <2>2, FollowCommitOK
  <2>4. QED
    BY <2>1, <2>2, <2>3, AfterSendingIs
<1>4. r.commitIndex \in Nat /\ l.commitIndex \in Nat
  BY <1>1, <1>3 DEF NodeOK, NodeRecord
<1>5. /\ s.log = r.log /\ s.currentTerm = r.currentTerm /\ s.state = r.state
      /\ s.matchIndex = r.matchIndex
      /\ ~(l.commitIndex > r.commitIndex) => s = r
  <2> DEFINE top == MinOf(l.commitIndex, Len(r.log))
             all == r.applied \o SubSeq(r.log, Len(r.applied) + 1, top)
  <2>1. s = r \/ s = [r EXCEPT !.commitIndex = top, !.applied = all]
    BY DEF FollowCommit, CommitTo
  <2>2. ~(l.commitIndex > r.commitIndex) => s = r
    BY DEF FollowCommit
  <2> HIDE DEF r, s, top, all
  <2>3. QED
    BY <1>3, <2>1, <2>2 DEF NodeOK, NodeRecord
<1>6. DOMAIN node = Node
  BY DEF TypeOK
<1> HIDE DEF s, sent, r
<1>7. \A k \in Node : /\ n1[k] = IF k = j THEN sent ELSE IF k = i THEN r ELSE node[k]
                      /\ node'[k] = IF k = i THEN s ELSE n1[k]
  BY <1>2, <1>6
<1>8. n1[i] = r /\ n1[j] = sent
  BY <1>2, <1>7
<1> HIDE DEF n1
<1>9. WellFormed(n1) /\ WellFormed(node')
  BY <1>1, <1>3, <1>7 DEF WellFormed
<1>10. /\ Pushes(node, n1, j)
       /\ IF node[i].currentTerm > l.currentTerm THEN n1[i] = node[i]
          ELSE Takes(node, n1, j, i)
  <2>1. {i} \in SUBSET Peers(j)
    BY <1>2 DEF Peers
  <2>2. n1[j] = AfterSending(node[j], {i}, node)
    BY <1>8 DEF sent
  <2>3. \A k \in Peers(j) :
          n1[k] = IF k \in {i} THEN SendToPeer(node[j], j, node[k], k) ELSE node[k]
    BY <1>7 DEF r, Peers
  <2>4. node[j].state = "LEADER"
    BY <1>2
  <2>5. \A k \in {i} : node[k] = node[k]
    OBVIOUS
  <2>6. /\ Pushes(node, n1, j)
        /\ \A k \in {i} : IF node[k].currentTerm > node[j].currentTerm THEN n1[k] = node[k]
                          ELSE Takes(node, n1, j, k)
    BY <1>1, <2>1, <2>2, <2>3, <2>4, <2>5, SendsPush
  <2>7. QED
    BY <2>6
<1>11. MatchInv(n1, elected)
  BY <1>1, <1>9, <1>10, PushFollows, FollowingMatches
<1>12. SameLogs(n1, node')
  BY <1>5, <1>7, <1>8 DEF SameLogs
<1>13. MatchInv(node', elected')
  BY <1>2, <1>9, <1>11, <1>12, SameLogsFollow, FollowingMatches
<1>14. ASSUME CommitInv(node), ~unchecked'
       PROVE  CommitInv(node') /\ AppliedMoves(node, node', j)
  <2>1. /\ CommitInv(n1) /\ AppliedMoves(node, n1, j)
        /\ Takes(node, n1, j, i) => n1[i].commitIndex >= l.commitIndex
    <3>1. /\ CommitInv(n1)
          /\ \A k \in Peers(j) : Takes(node, n1, j, k) =>
               n1[k].commitIndex >= node[j].commitIndex
      BY <1>1, <1>9, <1>10, <1>14, PushCommits
    <3>2. AppliedMoves(node, n1, j)
      BY <1>1, <1>9, <1>10, <1>14, PushMoves
    <3>3. i \in Peers(j)
      BY <1>2 DEF Peers
    <3>4. QED
      BY <3>1, <3>2, <3>3
  <2>2. ~(l.commitIndex > r.commitIndex)
    <3>1. CASE Takes(node, n1, j, i)
      BY <1>4, <1>8, <2>1, <3>1
    <3>2. CASE node[i].currentTerm > l.currentTerm /\ n1[i] = node[i]
      <4>1. node[i].currentTerm \in Nat /\ l.currentTerm \in Nat
        BY <1>1, FieldTypes
      <4>2. r.currentTerm > l.currentTerm
        BY <1>8, <3>2
      <4>3. l.commitIndex <= r.commitIndex
        BY <1>2, <1>8, <1>14, <3>2, <4>1, <4>2
      <4>4. QED
        BY <1>4, <4>3
    <3>3. QED
      BY <1>10, <3>1, <3>2
  <2>3. \A k \in Node : node'[k] = n1[k]
    BY <1>5, <1>7, <1>8, <2>2
  <2>4. Quiet(n1, node')
    <3>1. \A k \in Node : QuietNode(n1[k], node'[k])
      BY <1>9, <2>3, QuietSelf DEF WellFormed
    <3>2. QED
      BY <3>1, QuietIsByNode
  <2>5. CommitInv(node')
    BY <1>9, <1>11, <2>1, <2>4, QuietCommits
  <2>6. AppliedMoves(node, node', j)
    BY <2>1, <2>3 DEF AppliedMoves
  <2>7. QED
    BY <2>5, <2>6
<1>15. ASSUME Held(node) PROVE Held(node')
  <2>1. elected \in SUBSET ((1..MaxTerm) \X Node) /\ Unique(elected)
    BY TypeIsNodesOK DEF LeadersAreUnique, Unique
  <2>2. Held(n1)
    BY <1>1, <1>9, <1>10, <1>15, <2>1, PushHolds
  <2>3. QED
    BY <1>9, <1>11, <1>12, <2>2, SameLogsHold
<1>16. QED
  BY <1>13, <1>14, <1>15

LEMMA RecoverIsQuiet ==
    ASSUME TypeOK, NEW i \in Node, Recover(i)
    PROVE  WellFormed(node') /\ Quiet(node, node')
<1>1. WellFormed(node) /\ \A k \in Node : NodeOK(node[k])
  BY TypeIsNodesOK DEF WellFormed, NodesOK
<1>2. node' = [node EXCEPT ![i] = Recovered(node[i])] /\ DOMAIN node = Node
  BY DEF Recover, TypeOK
<1> DEFINE s == Recovered(node[i])
<1>3. NodeOK(s) /\ QuietNode(node[i], s)
  <2>1. NodeOK(node[i]) /\ node[i] \in NodeRecord
    BY <1>1 DEF NodeOK
  <2>2. NodeOK(s) /\ s.currentTerm = node[i].currentTerm
    BY <2>1, RecoveredOK
  <2>3. /\ s.log = node[i].log /\ s.applied = node[i].applied
        /\ s.commitIndex = node[i].commitIndex /\ s.state = "FOLLOWER"
    BY <2>1 DEF Recovered, NodeRecord
  <2>4. node[i].currentTerm \in Nat
    BY <1>1, FieldTypes
  <2> HIDE DEF s
  <2>5. QED
    BY <2>2, <2>3, <2>4 DEF QuietNode
<1> HIDE DEF s
<1>4. \A k \in Node : node'[k] = IF k = i THEN s ELSE node[k]
  BY <1>2 DEF s
<1>5. \A k \in Node : NodeOK(node'[k]) /\ QuietNode(node[k], node'[k])
  BY <1>1, <1>3, <1>4, QuietSelf
<1>6. QED
  BY <1>5, QuietIsByNode DEF WellFormed

\* Steps that leave the nodes' fields alone.
LEMMA NothingIsQuiet ==
    ASSUME TypeOK, UNCHANGED node PROVE WellFormed(node') /\ Quiet(node, node')
<1>1. \A k \in Node : NodeOK(node[k])
  BY TypeIsNodesOK DEF NodesOK
<1>2. \A k \in Node : NodeOK(node'[k]) /\ QuietNode(node[k], node'[k])
  BY <1>1, QuietSelf
<1>3. QED
  BY <1>2, QuietIsByNode DEF WellFormed

-----------------------------------------------------------------------------
\* The invariant of the specification.
MatchingInv == LeadersAreUnique => MatchInv(node, elected) /\ Held(node)
CommittingInv == Sound => CommitInv(node)

LEMMA ProvisosStay ==
    ASSUME [Next]_vars
    PROVE  /\ elected \subseteq elected'
           /\ ~unchecked' => ~unchecked
           /\ LeadersAreUnique' => LeadersAreUnique
           /\ Sound' => Sound /\ LeadersAreUnique' /\ ~unchecked'
<1>1. elected \subseteq elected'
  BY DEF Next, vars, history, StartElection, SimulateCrash, Recover, HealPartition,
     PartitionFrom, ReceiveClientMessage, SyncFromLeader
<1>2. ~unchecked' => ~unchecked
  <2>1. CASE \E i, j \in Node : SyncFromLeader(i, j)
    <3>1. PICK i \in Node, j \in Node : SyncFromLeader(i, j)
      BY <2>1
    <3>2. unchecked' = (unchecked \/ /\ node[j].currentTerm
                                          < SendToPeer(node[j], j, node[i], i).currentTerm
                                     /\ node[j].commitIndex
                                          > SendToPeer(node[j], j, node[i], i).commitIndex)
      BY <3>1 DEF SyncFromLeader
    <3>3. QED
      BY <3>2, Zenon
  <2>2. CASE UNCHANGED unchecked
    BY <2>2
  <2>3. QED
    BY <2>1, <2>2 DEF Next, vars, history, StartElection, SimulateCrash, Recover,
       HealPartition, PartitionFrom, ReceiveClientMessage
<1>3. QED
  BY <1>1, <1>2 DEF LeadersAreUnique, Sound

\* Every step keeps both parts, and what nodes have applied moves as AppliedMoves says.
LEMMA InvariantNext ==
    ASSUME TypeOK, MatchingInv, CommittingInv, [Next]_vars
    PROVE  /\ MatchingInv' /\ CommittingInv'
           /\ Sound' => UNCHANGED node \/ \E i \in Node : AppliedMoves(node, node', i)
<1>1. /\ LeadersAreUnique' => LeadersAreUnique /\ MatchInv(node, elected) /\ Held(node)
      /\ Sound' => LeadersAreUnique' /\ CommitInv(node) /\ ~unchecked'
  BY ProvisosStay DEF MatchingInv, CommittingInv
<1> DEFINE Goal == /\ LeadersAreUnique' => MatchInv(node', elected') /\ Held(node')
                   /\ Sound' => /\ CommitInv(node')
                                /\ UNCHANGED node \/ \E i \in Node : AppliedMoves(node, node', i)
<1>2. ASSUME NEW i \in Node, LeadersAreUnique' => Kept(node', elected', i) PROVE Goal
  BY <1>1, <1>2 DEF Kept
<1>3. ASSUME NEW i \in Node, WellFormed(node'), Quiet(node, node'), elected' = elected
      PROVE  Goal
  <2>1. LeadersAreUnique' => Kept(node', elected', i)
    BY <1>1, <1>3, QuietKeeps
  <2>2. QED
    BY <1>2, <2>1
<1>4. ASSUME NEW i \in Node, StartElection(i) PROVE Goal
  <2>1. LeadersAreUnique' => Kept(node', elected', i)
    BY <1>1, <1>4, ElectionKeeps
  <2>2. QED
    BY <1>2, <2>1
<1>5. ASSUME NEW i \in Node, NEW x \in Message, ReceiveClientMessage(i, x) PROVE Goal
  <2>1. LeadersAreUnique' => Kept(node', elected', i)
    BY <1>1, <1>5, WriteKeeps
  <2>2. QED
    BY <1>2, <2>1
<1>6. ASSUME NEW i \in Node, NEW j \in Node, SyncFromLeader(i, j) PROVE Goal
  <2>1. LeadersAreUnique' =>
          /\ MatchInv(node', elected') /\ Held(node')
          /\ CommitInv(node) /\ ~unchecked' => CommitInv(node') /\ AppliedMoves(node, node', j)
    BY <1>1, <1>6, SyncKeeps
  <2>2. QED
    BY <1>1, <2>1
<1>7. ASSUME NEW i \in Node, Recover(i) PROVE Goal
  <2>1. elected' = elected
    BY <1>7 DEF Recover
  <2>2. QED
    BY <1>3, <1>7, <2>1, RecoverIsQuiet
<1>8. ASSUME UNCHANGED node, UNCHANGED elected PROVE Goal
  <2>1. WellFormed(node') /\ Quiet(node, node') /\ WellFormed(node)
    BY <1>8, NothingIsQuiet, TypeIsNodesOK DEF WellFormed, NodesOK
  <2>2. LeadersAreUnique' => MatchInv(node', elected') /\ Held(node')
    BY <1>1, <1>8
  <2>3. Sound' => CommitInv(node')
    BY <1>1, <1>8
  <2>4. QED
    BY <1>8, <2>2, <2>3
<1> HIDE DEF Goal
<1>9. ASSUME NEW i \in Node, SimulateCrash(i) \/ HealPartition(i) PROVE Goal
  BY <1>8, <1>9 DEF SimulateCrash, HealPartition, history
<1>10. ASSUME NEW i \in Node, NEW others, PartitionFrom(i, others) PROVE Goal
  BY <1>8, <1>10 DEF PartitionFrom, history
<1>11. ASSUME UNCHANGED vars PROVE Goal
  BY <1>8, <1>11 DEF vars, history
<1>12. Goal
  BY <1>4, <1>5, <1>6, <1>7, <1>9, <1>10, <1>11 DEF Next
<1>13. QED
  BY <1>12 DEF Goal, MatchingInv, CommittingInv

LEMMA InvariantInit == Init => MatchingInv /\ CommittingInv
<1> SUFFICES ASSUME Init PROVE MatchInv(node, elected) /\ Held(node) /\ CommitInv(node)
  BY DEF MatchingInv, CommittingInv
<1>1. \A j \in Node :
        /\ node[j].log = <<>> /\ node[j].applied = <<>> /\ node[j].commitIndex = 0
        /\ node[j].state = "FOLLOWER"
  BY DEF Init, InitialNode
<1>2. Len(<<>>) = 0
  OBVIOUS
<1>3. elected = {}
  BY DEF Init
<1>4. EntriesAreWon(node, elected) /\ TermsRise(node)
  BY <1>1, <1>2 DEF EntriesAreWon, TermsRise
<1>5. LogsMatch(node)
  BY <1>1, <1>2 DEF LogsMatch
<1>6. LeadersWon(node, elected) /\ LeadersHaveTheirTerm(node)
  BY <1>1 DEF LeadersWon, LeadersHaveTheirTerm
<1>7. TermsWereReached(node, elected)
  BY <1>3 DEF TermsWereReached
<1>8. CommitInv(node)
  BY <1>1, <1>2 DEF CommitInv, AppliedIsOfLog, AppliedIsSafe, ChoosableIsSafe, Prefix
<1>9. Held(node)
  BY <1>1 DEF Held
<1>10. QED
  BY <1>4, <1>5, <1>6, <1>7, <1>8, <1>9 DEF MatchInv

\* Entries come from elections that were won, logs agree below an entry they
\* share, what a leader counts at a peer is there, and what is committed or may
\* still be stands in every later leader's log: the inductive invariant of
\* consensus.py's log.
THEOREM InvariantHolds == Spec => [](TypeOK /\ MatchingInv /\ CommittingInv)
<1>1. Init => TypeOK /\ MatchingInv /\ CommittingInv
  BY InitType, InvariantInit
<1>2. TypeOK /\ MatchingInv /\ CommittingInv /\ [Next]_vars
        => (TypeOK /\ MatchingInv /\ CommittingInv)'
  BY TypeNext, InvariantNext
<1>3. QED
  BY <1>1, <1>2, PTL DEF Spec

-----------------------------------------------------------------------------
(* What the invariant says of any reachable state.                         *)

LEMMA LogsMatchBySubSeq == ASSUME TypeOK, MatchingInv PROVE LogMatching
<1> SUFFICES ASSUME LeadersAreUnique, NEW i \in Node, NEW j \in Node,
                    NEW k \in 1..MinOf(Len(node[i].log), Len(node[j].log)),
                    node[i].log[k].term = node[j].log[k].term
             PROVE  SubSeq(node[i].log, 1, k) = SubSeq(node[j].log, 1, k)
  BY DEF LogMatching
<1> DEFINE P == SubSeq(node[i].log, 1, k)
<1>1. WellFormed(node) /\ LogsMatch(node)
  BY TypeIsNodesOK DEF WellFormed, NodesOK, MatchingInv, MatchInv
<1>2. /\ node[i].log \in Seq(Entry) /\ Len(node[i].log) \in Nat
      /\ node[j].log \in Seq(Entry) /\ Len(node[j].log) \in Nat
  BY <1>1, FieldTypes
<1>3. k \in Nat /\ k \in 1..Len(node[i].log) /\ k <= Len(node[i].log) /\ k <= Len(node[j].log)
  <2> DEFINE least == MinOf(Len(node[i].log), Len(node[j].log))
  <2>1. /\ least \in Nat /\ least <= Len(node[i].log) /\ least <= Len(node[j].log)
        /\ k \in 1..least
    BY <1>2 DEF MinOf
  <2> HIDE DEF least
  <2>2. QED
    BY <1>2, <2>1
<1>4. \A h \in 1..k : node[i].log[h] = node[j].log[h]
  BY <1>1, <1>3 DEF LogsMatch
<1>5. P \in Seq(Entry) /\ Len(P) = k /\ \A h \in 1..k : P[h] = node[i].log[h]
  BY <1>2, <1>3, SubSeqIsPrefix
<1> HIDE DEF P
<1>6. Prefix(P, node[j].log)
  BY <1>3, <1>4, <1>5 DEF Prefix
<1>7. SubSeq(node[j].log, 1, k) = P
  BY <1>2, <1>5, <1>6, PrefixIsBeginning
<1>8. QED
  BY <1>7 DEF P

\* What a node applied begins its log, is in the logs of a majority and is safe.
LEMMA WhatIsApplied ==
    ASSUME NEW n, WellFormed(n), CommitInv(n), NEW i \in Node, Len(n[i].applied) > 0
    PROVE  /\ n[i].applied \in Seq(Entry) /\ i \in Holders(n, n[i].applied)
           /\ Majority(Holders(n, n[i].applied)) /\ Safe(n, n[i].applied)
<1>1. n[i].applied \in Seq(Entry) /\ Prefix(n[i].applied, n[i].log)
  BY FieldTypes DEF CommitInv, AppliedIsOfLog
<1>2. QED
  BY <1>1 DEF Holders, CommitInv, AppliedIsSafe

\* Any two nodes applied beginnings of one log.
LEMMA AppliedCompare ==
    ASSUME NEW n, WellFormed(n), CommitInv(n), NEW i \in Node, NEW j \in Node,
           Len(n[i].applied) <= Len(n[j].applied)
    PROVE  Prefix(n[i].applied, n[j].applied)
<1>1. /\ n[i].applied \in Seq(Entry) /\ Len(n[i].applied) \in Nat
      /\ n[j].applied \in Seq(Entry) /\ Len(n[j].applied) \in Nat
  BY FieldTypes
<1>2. CASE Len(n[i].applied) = 0
  BY <1>1, <1>2 DEF Prefix
<1>3. CASE Len(n[i].applied) > 0
  <2>1. Len(n[j].applied) > 0
    BY <1>1, <1>3
  <2>2. Majority(Holders(n, n[i].applied)) /\ Majority(Holders(n, n[j].applied))
    BY <1>3, <2>1, WhatIsApplied
  <2>3. /\ Holders(n, n[i].applied) \in SUBSET Node
        /\ Holders(n, n[j].applied) \in SUBSET Node
    BY DEF Holders
  <2>4. PICK h \in Node : Prefix(n[i].applied, n[h].log) /\ Prefix(n[j].applied, n[h].log)
    <3>1. Holders(n, n[i].applied) \intersect Holders(n, n[j].applied) # {}
      BY <2>2, <2>3, MajoritiesMeet
    <3>2. QED
      BY <3>1 DEF Holders
  <2>5. n[h].log \in Seq(Entry)
    BY FieldTypes
  <2>6. QED
    BY <1>1, <2>4, <2>5, PrefixesCompare
<1>4. QED
  BY <1>1, <1>2, <1>3

LEMMA LeadersAreComplete == ASSUME TypeOK, MatchingInv, CommittingInv PROVE LeaderCompleteness
<1> SUFFICES ASSUME Sound, NEW i \in Node, NEW j \in Node, node[j].state = "LEADER",
                    node[j].currentTerm >= node[i].currentTerm
             PROVE  Prefix(node[i].applied, node[j].log)
  BY DEF LeaderCompleteness
<1>1. WellFormed(node) /\ MatchInv(node, elected) /\ CommitInv(node)
  BY TypeIsNodesOK DEF WellFormed, NodesOK, MatchingInv, CommittingInv, Sound
<1>2. /\ Len(node[i].applied) \in Nat /\ Len(node[j].log) \in Nat
      /\ node[i].currentTerm \in Nat /\ node[j].currentTerm \in Nat
  BY <1>1, FieldTypes
<1>3. CASE Len(node[i].applied) = 0
  BY <1>2, <1>3 DEF Prefix
<1>4. CASE Len(node[i].applied) > 0
  <2> DEFINE P == node[i].applied
  <2>1. P \in Seq(Entry) /\ i \in Holders(node, P) /\ Safe(node, P) /\ Len(P) > 0
    BY <1>1, <1>4, WhatIsApplied
  <2> HIDE DEF P
  <2>2. P[Len(P)].term <= node[i].currentTerm /\ P[Len(P)].term \in Nat
    BY <1>1, <2>1, HeldTerm, LastTermType
  <2>3. P[Len(P)].term <= node[j].currentTerm
    BY <1>2, <2>2
  <2>4. Prefix(P, node[j].log)
    BY <1>1, <2>1, <2>3, LeaderHolds
  <2>5. QED
    BY <2>4 DEF P
<1>5. QED
  BY <1>2, <1>3, <1>4

LEMMA MajoritiesHoldWhatIsApplied ==
    ASSUME TypeOK, CommittingInv PROVE CommittedOnMajority
<1> SUFFICES ASSUME Sound, NEW i \in Node, NEW k \in 1..Len(node[i].applied)
             PROVE  Majority({j \in Node : /\ k <= Len(node[j].log)
                                           /\ node[j].log[k] = node[i].applied[k]})
  BY DEF CommittedOnMajority
<1> DEFINE P == node[i].applied
           have == {j \in Node : k <= Len(node[j].log) /\ node[j].log[k] = P[k]}
<1>1. WellFormed(node) /\ CommitInv(node)
  BY TypeIsNodesOK DEF WellFormed, NodesOK, CommittingInv
<1>2. Len(P) \in Nat /\ Len(P) > 0 /\ \A j \in Node : Len(node[j].log) \in Nat
  BY <1>1, FieldTypes
<1>3. Majority(Holders(node, P))
  BY <1>1, <1>2, WhatIsApplied
<1>4. Holders(node, P) \subseteq have /\ have \in SUBSET Node
  <2> HIDE DEF P
  <2>1. k \in 1..Len(P)
    BY DEF P
  <2>2. QED
    BY <1>2, <2>1 DEF Holders, Prefix
<1>5. Majority(have)
  <2> HIDE DEF have, P
  <2>1. QED
    BY <1>3, <1>4, MajorityGrows
<1>6. QED
  BY <1>5

-----------------------------------------------------------------------------
(* Theorems.                                                               *)

\* LogMatching, for any number of nodes, terms and entries: append_entries
\* compares the entry before and cuts what conflicts (consensus.py:264-306).
THEOREM LogsAgree == Spec => []LogMatching
<1>1. TypeOK /\ MatchingInv /\ CommittingInv => LogMatching
  BY LogsMatchBySubSeq
<1>2. QED
  BY <1>1, InvariantHolds, PTL

\* LeaderCompleteness: who is short of a committed entry loses the vote of
\* somebody who has it (consensus.py:209-221).
THEOREM NoLeaderLacksACommittedEntry == Spec => []LeaderCompleteness
<1>1. TypeOK /\ MatchingInv /\ CommittingInv => LeaderCompleteness
  BY LeadersAreComplete
<1>2. QED
  BY <1>1, InvariantHolds, PTL

\* StateMachineSafety: the replication layers of two nodes are never handed
\* different entries for one index.
THEOREM NodesApplyOneLog == Spec => []StateMachineSafety
<1>1. ASSUME TypeOK, CommittingInv PROVE StateMachineSafety
  <2> SUFFICES ASSUME Sound, NEW i \in Node, NEW j \in Node
               PROVE  \/ Prefix(node[i].applied, node[j].applied)
                      \/ Prefix(node[j].applied, node[i].applied)
    BY DEF StateMachineSafety
  <2>1. WellFormed(node) /\ CommitInv(node)
    BY <1>1, TypeIsNodesOK DEF WellFormed, NodesOK, CommittingInv
  <2>2. Len(node[i].applied) \in Nat /\ Len(node[j].applied) \in Nat
    BY <2>1, FieldTypes
  <2>3. CASE Len(node[i].applied) <= Len(node[j].applied)
    BY <2>1, <2>3, AppliedCompare
  <2>4. CASE Len(node[j].applied) <= Len(node[i].applied)
    BY <2>1, <2>4, AppliedCompare
  <2>5. QED
    BY <2>2, <2>3, <2>4
<1>2. QED
  BY <1>1, InvariantHolds, PTL

\* CommittedOnMajority: commit_entries counts only peers that have the entry, and
\* no later truncation takes it from them.
THEOREM CommittedStaysOnMajority == Spec => []CommittedOnMajority
<1>1. TypeOK /\ CommittingInv => CommittedOnMajority
  BY MajoritiesHoldWhatIsApplied
<1>2. QED
  BY <1>1, InvariantHolds, PTL

\* AppliedIsLogged: a node's last_applied is its commit_index, and its log still
\* begins with all it handed to the replication layer.
THEOREM NothingAppliedIsCutOff == Spec => []AppliedIsLogged
<1>1. TypeOK /\ CommittingInv => AppliedIsLogged
  BY DEF CommittingInv, CommitInv, AppliedIsOfLog, AppliedIsLogged
<1>2. QED
  BY <1>1, InvariantHolds, PTL

\* MatchIndexIsHeld: what commit_entries counts (consensus.py:624-627) is so, for as
\* long as the leader leads, over its rounds of sends, its syncs and everybody else's
\* elections, crashes and recoveries.
THEOREM MatchIndexIsTrue == Spec => []MatchIndexIsHeld
<1>1. TypeOK /\ MatchingInv /\ CommittingInv => MatchIndexIsHeld
  BY DEF MatchingInv, MatchIndexIsHeld, Held
<1>2. QED
  BY <1>1, InvariantHolds, PTL

-----------------------------------------------------------------------------
(* The layer implements ReplicatedLog.  The log is the longest that any    *)
(* node applied; it is stated for any fields n of the nodes, to speak of   *)
(* the state before a step and of the one after it.                        *)

LongestApplied(n) ==
    LET longest == CHOOSE i \in Node : \A j \in Node : Len(n[j].applied) <= Len(n[i].applied)
    IN n[longest].applied

LEMMA SomebodyAppliedMost ==
    ASSUME NEW n, WellFormed(n), CommitInv(n)
    PROVE  \E x \in Node : /\ LongestApplied(n) = n[x].applied
                           /\ \A j \in Node : Prefix(n[j].applied, n[x].applied)
<1> DEFINE longest == CHOOSE i \in Node :
                        \A j \in Node : Len(n[j].applied) <= Len(n[i].applied)
           lengths == {Len(n[j].applied) : j \in Node}
<1>1. \A j \in Node : Len(n[j].applied) \in 0..MaxLog
  <2> SUFFICES ASSUME NEW j \in Node PROVE Len(n[j].applied) \in 0..MaxLog
    OBVIOUS
  <2>1. Len(n[j].applied) \in Nat /\ Len(n[j].log) \in Nat
    BY FieldTypes
  <2>2. Len(n[j].applied) <= Len(n[j].log)
    BY DEF CommitInv, AppliedIsOfLog, Prefix
  <2>3. Len(n[j].log) <= MaxLog
    BY DEF WellFormed, NodeOK
  <2>4. QED
    BY <2>1, <2>2, <2>3, ConstantsOK
<1>2. \E i \in Node : \A j \in Node : Len(n[j].applied) <= Len(n[i].applied)
  <2>1. lengths # {} /\ lengths \subseteq 0..MaxLog
    BY <1>1, NodesAssumption DEF NodesAssumption
  <2>2. \A j \in Node : Len(n[j].applied) \in lengths
    OBVIOUS
  <2>3. \A k \in lengths : \E i \in Node : k = Len(n[i].applied)
    OBVIOUS
  <2> HIDE DEF lengths
  <2>4. PICK k \in lengths : \A h \in lengths : k >= h
    BY <2>1, ConstantsOK, GreatestIndex
  <2>5. PICK i \in Node : k = Len(n[i].applied)
    BY <2>3
  <2>6. ASSUME NEW j \in Node PROVE Len(n[j].applied) <= Len(n[i].applied)
    <3>1. Len(n[i].applied) >= Len(n[j].applied)
      BY <2>2, <2>4, <2>5
    <3>2. Len(n[i].applied) \in Nat /\ Len(n[j].applied) \in Nat
      BY FieldTypes
    <3>3. QED
      BY <3>1, <3>2
  <2>7. QED
    BY <2>6
<1>3. longest \in Node /\ \A j \in Node : Len(n[j].applied) <= Len(n[longest].applied)
  BY <1>2
<1>4. LongestApplied(n) = n[longest].applied
  BY DEF LongestApplied
<1> HIDE DEF longest
<1>5. \A j \in Node : Prefix(n[j].applied, n[longest].applied)
  BY <1>3, AppliedCompare
<1>6. QED
  BY <1>3, <1>4, <1>5

LEMMA PrefixesAreEqual ==
    ASSUME NEW s \in Seq(Entry), NEW t \in Seq(Entry), Prefix(s, t), Prefix(t, s)
    PROVE  s = t
<1>1. Len(s) \in Nat /\ Len(t) \in Nat
  BY LenProperties
<1>2. Len(s) = Len(t) /\ \A k \in 1..Len(s) : s[k] = t[k]
  BY <1>1 DEF Prefix
<1>3. QED
  BY <1>2, SeqEqual

\* The committed log grows at its end and whoever is not committing goes on within
\* what was committed before.
LEMMA LogMoves ==
    ASSUME NEW n, WellFormed(n), CommitInv(n), NEW n2, WellFormed(n2), CommitInv(n2),
           NEW i \in Node, AppliedMoves(n, n2, i)
    PROVE  LET C == LongestApplied(n)
               D == LongestApplied(n2)
               Goes(j) == Prefix(n[j].applied, n2[j].applied) /\ Prefix(n2[j].applied, C)
           IN /\ \A j \in Node \ {i} : Goes(j)
              /\ \/ D = C /\ Goes(i)
                 \/ Prefix(C, D) /\ Prefix(n[i].applied, n2[i].applied) /\ n2[i].applied = D
<1> DEFINE C == LongestApplied(n)
           D == LongestApplied(n2)
           Goes(j) == Prefix(n[j].applied, n2[j].applied) /\ Prefix(n2[j].applied, C)
<1>1. PICK x \in Node : C = n[x].applied /\ \A j \in Node : Prefix(n[j].applied, C)
  BY SomebodyAppliedMost
<1>2. PICK y \in Node : D = n2[y].applied /\ \A j \in Node : Prefix(n2[j].applied, D)
  BY SomebodyAppliedMost
<1> HIDE DEF C, D
<1>3. \A j \in Node : /\ n[j].applied \in Seq(Entry) /\ Len(n[j].applied) \in Nat
                      /\ n2[j].applied \in Seq(Entry) /\ Len(n2[j].applied) \in Nat
  BY FieldTypes
<1>4. C \in Seq(Entry) /\ D \in Seq(Entry) /\ Len(C) \in Nat /\ Len(D) \in Nat
  BY <1>1, <1>2, <1>3
<1>5. ASSUME NEW j \in Node PROVE Goes(j) \/ (j = i /\ Prefix(n[j].applied, n2[j].applied))
  <2>1. CASE n2[j].applied = n[j].applied
    <3>1. Prefix(n[j].applied, n[j].applied)
      BY <1>3, PrefixOfItself
    <3>2. QED
      BY <1>1, <2>1, <3>1
  <2>2. CASE \E h \in Node : /\ n2[j].applied = n[h].applied
                             /\ Len(n[j].applied) <= Len(n[h].applied)
    <3>1. PICK h \in Node : /\ n2[j].applied = n[h].applied
                            /\ Len(n[j].applied) <= Len(n[h].applied)
      BY <2>2
    <3>2. Prefix(n[j].applied, n[h].applied)
      BY <3>1, AppliedCompare
    <3>3. QED
      BY <1>1, <3>1, <3>2
  <2>3. QED
    BY <2>1, <2>2 DEF AppliedMoves
<1>6. Prefix(C, n2[x].applied)
  BY <1>1, <1>5
<1>7. Prefix(C, D)
  BY <1>2, <1>3, <1>4, <1>6, PrefixIsTransitive
<1>8. CASE Goes(i)
  <2>1. Prefix(D, C)
    BY <1>2, <1>5, <1>8
  <2>2. D = C
    BY <1>4, <1>7, <2>1, PrefixesAreEqual
  <2>3. QED
    BY <1>5, <1>8, <2>2 DEF C, D
<1>9. CASE ~Goes(i)
  <2>1. Prefix(n[i].applied, n2[i].applied) /\ ~Prefix(n2[i].applied, C)
    BY <1>5, <1>9
  <2>2. y = i
    <3>1. ASSUME y # i PROVE FALSE
      <4>1. Prefix(D, C)
        BY <1>2, <1>5, <3>1
      <4>2. Prefix(n2[i].applied, C)
        BY <1>2, <1>3, <1>4, <4>1, PrefixIsTransitive
      <4>3. QED
        BY <2>1, <4>2
    <3>2. QED
      BY <3>1
  <2>3. n2[i].applied = D
    BY <1>2, <2>2
  <2>4. QED
    BY <1>5, <1>7, <2>1, <2>3 DEF C, D
<1>10. QED
  BY <1>8, <1>9

LEMMA LogStep ==
    ASSUME TypeOK, MatchingInv, CommittingInv, [Next]_vars, Sound'
    PROVE  [Log!Next]_Applied
<1>1. /\ WellFormed(node) /\ CommitInv(node)
      /\ WellFormed(node') /\ CommitInv(node')
      /\ UNCHANGED node \/ \E i \in Node : AppliedMoves(node, node', i)
  <2>1. TypeOK' /\ CommittingInv' /\ Sound
    BY TypeNext, InvariantNext, ProvisosStay
  <2>2. NodesOK /\ NodesOK'
    BY TypeIsNodesOK, NodeStep
  <2>3. CommitInv(node) /\ CommitInv(node')
    BY <2>1 DEF CommittingInv
  <2>4. QED
    BY <2>2, <2>3, InvariantNext DEF WellFormed, NodesOK
<1>2. Committed = LongestApplied(node) /\ Committed' = LongestApplied(node')
  BY DEF Committed, LongestApplied
<1>3. \A j \in Node : Applied[j] = node[j].applied /\ Applied'[j] = node'[j].applied
  BY DEF Applied
<1>4. CASE UNCHANGED node
  BY <1>4 DEF Applied
<1>5. ASSUME NEW i \in Node, AppliedMoves(node, node', i) PROVE Log!Next
  <2> DEFINE C == LongestApplied(node)
             D == LongestApplied(node')
             Goes(j) == Prefix(node[j].applied, node'[j].applied) /\ Prefix(node'[j].applied, C)
  <2>1. /\ \A j \in Node \ {i} : Goes(j)
        /\ \/ D = C /\ Goes(i)
           \/ /\ Prefix(C, D) /\ Prefix(node[i].applied, node'[i].applied)
              /\ node'[i].applied = D
    BY <1>1, <1>5, LogMoves
  <2>2. \A s, t : Prefix(s, t) <=> Log!Prefix(s, t)
    BY DEF Prefix, Log!Prefix
  <2>3. \A j \in Node : Goes(j) => Log!Learns(j)
    BY <1>2, <1>3, <2>2 DEF Log!Learns
  <2>4. CASE D = C /\ Goes(i)
    <3>1. \A j \in Node : Log!Learns(j)
      BY <2>1, <2>3, <2>4
    <3>2. Log!Learn
      BY <1>2, <2>4, <3>1 DEF Log!Learn
    <3>3. QED
      BY <3>2 DEF Log!Next
  <2>5. CASE /\ Prefix(C, D) /\ Prefix(node[i].applied, node'[i].applied)
             /\ node'[i].applied = D
    <3>1. \A j \in Node \ {i} : Log!Learns(j)
      BY <2>1, <2>3
    <3>2. Log!Commit(i)
      BY <1>2, <1>3, <2>2, <2>5, <3>1 DEF Log!Commit
    <3>3. QED
      BY <3>2 DEF Log!Next
  <2>6. QED
    BY <2>1, <2>4, <2>5
<1>6. QED
  BY <1>1, <1>4, <1>5

LEMMA LogInit == Init => Log!Init
<1> SUFFICES ASSUME Init PROVE Log!Init
  OBVIOUS
<1>1. \A i \in Node : node[i].applied = <<>>
  BY DEF Init, InitialNode
<1>2. Applied = [i \in Node |-> <<>>]
  BY <1>1 DEF Applied
<1>3. Committed = <<>>
  <2> DEFINE longest == CHOOSE i \in Node : \A j \in Node :
                          Len(node[j].applied) <= Len(node[i].applied)
  <2>1. \E i \in Node : \A j \in Node : Len(node[j].applied) <= Len(node[i].applied)
    <3>1. Len(<<>>) = 0
      OBVIOUS
    <3>2. QED
      BY <1>1, <3>1, NodesAssumption DEF NodesAssumption
  <2>2. longest \in Node
    BY <2>1
  <2>3. QED
    BY <1>1, <2>2 DEF Committed
<1>4. QED
  BY <1>2, <1>3 DEF Log!Init

\* ImplementsLog: what the nodes hand to their replication layers is one log that
\* only grows, whatever elections, crashes and partitions happen on the way; the
\* proviso is that of StateMachineSafety, in every step taken so far.
THEOREM Refinement == Spec => ImplementsLog
<1>1. Init => Log!Init
  BY LogInit
<1>2. TypeOK /\ MatchingInv /\ CommittingInv /\ [Next]_vars => [Sound' => Log!Next]_Applied
  BY LogStep
<1>3. QED
  BY <1>1, <1>2, InvariantHolds, PTL DEF Spec, ImplementsLog
==============================================================================
