-------------------------- MODULE QuorumStoreProofs --------------------------
(***************************************************************************)
(* Proofs about QuorumStore, for any cluster and any two quorums: what a   *)
(* write committed stays on the disks of its quorum, and with quorums that *)
(* overlap on disks whole reads find it, and never go back.                *)
(***************************************************************************)
EXTENDS QuorumStore, FiniteSetTheorems, SequenceTheorems, TLAPS

-----------------------------------------------------------------------------
(* The peers of a node, in the order they are asked.                       *)

N == Cardinality(Node)

LEMMA ClusterOK ==
    /\ IsFiniteSet(Node) /\ N \in Nat \ {0}
    /\ QuorumW \in 1..N /\ QuorumR \in 1..N
<1>1. IsFiniteSet(Node) /\ Cardinality(Node) \in Nat
  BY NodeAssumption, FS_CardinalityType DEF NodeAssumption
<1>2. QED
  BY <1>1, QuorumAssumption DEF QuorumAssumption, N

LEMMA PeersOK ==
    ASSUME NEW n \in Node
    PROVE  IsFiniteSet(Peers(n)) /\ Cardinality(Peers(n)) = N - 1
BY ClusterOK, FS_RemoveElement DEF Peers, N

\* Every peer once, and the node itself never.
LEMMA PeersInOrder ==
    ASSUME NEW n \in Node
    PROVE  /\ PeerList[n] \in Seq(Node) /\ Len(PeerList[n]) = N - 1
           /\ \A k \in 1..N - 1 : PeerList[n][k] \in Peers(n)
           /\ \A j, k \in 1..N - 1 : PeerList[n][j] = PeerList[n][k] => j = k
<1> DEFINE list == PeerList[n]
           S == {k \in 1..N - 1 : list[k] \in Peers(n)}
           f == [k \in S |-> list[k]]
<1>1. list \in Seq(Node) /\ Len(list) = N - 1 /\ DOMAIN list = 1..N - 1
  BY PeersAssumption, LenProperties DEF PeersAssumption, N
<1>2. \A p \in Peers(n) : \E k \in 1..N - 1 : list[k] = p
  BY <1>1, PeersAssumption DEF PeersAssumption
<1>3. IsFiniteSet(1..N - 1) /\ Cardinality(1..N - 1) = N - 1
  <2>1. 1 \in Int /\ N - 1 \in Nat
    BY ClusterOK
  <2>2. QED
    BY <2>1, FS_Interval
<1>4. IsFiniteSet(S) /\ Cardinality(S) <= N - 1 /\ (Cardinality(S) = N - 1 => S = 1..N - 1)
  BY <1>3, FS_Subset
<1> HIDE DEF list
<1>5. f \in Surjection(S, Peers(n))
  BY <1>2 DEF Surjection
<1>6. /\ Cardinality(Peers(n)) <= Cardinality(S)
      /\ Cardinality(Peers(n)) = Cardinality(S) => f \in Injection(S, Peers(n))
  BY <1>4, <1>5, FS_Surjection
<1>7. S = 1..N - 1 /\ f \in Injection(S, Peers(n))
  BY <1>4, <1>6, PeersOK, ClusterOK, FS_CardinalityType
<1>8. \A j, k \in S : list[j] = list[k] => j = k
  BY <1>7 DEF Injection, IsInjective
<1>9. QED
  BY <1>1, <1>7, <1>8 DEF list

\* The first i peers of n, and what is left after them.
FirstPeers(n, i) == {PeerList[n][k] : k \in 1..i}

IsRest(n, i, left) ==
    /\ left \in Seq(Node) /\ i \in Nat /\ Len(left) = N - 1 - i
    /\ \A k \in 1..Len(left) : left[k] = PeerList[n][i + k]

LEMMA NobodyAsked ==
    ASSUME NEW n \in Node PROVE IsRest(n, 0, PeerList[n]) /\ FirstPeers(n, 0) = {}
<1>1. FirstPeers(n, 0) = {}
  BY DEF FirstPeers
<1>2. IsRest(n, 0, PeerList[n])
  BY PeersInOrder, ClusterOK DEF IsRest
<1>3. QED
  BY <1>1, <1>2

LEMMA FirstPeersOK ==
    ASSUME NEW n \in Node, NEW i \in 0..N - 1
    PROVE  FirstPeers(n, i) \in SUBSET Peers(n) /\ Cardinality(FirstPeers(n, i)) = i
<1> DEFINE S == 1..i
           T == FirstPeers(n, i)
           f == [k \in S |-> PeerList[n][k]]
<1>1. i \in Nat /\ S \subseteq 1..N - 1
  BY ClusterOK
<1>2. T \in SUBSET Peers(n)
  BY <1>1, PeersInOrder DEF FirstPeers
<1>3. IsFiniteSet(S) /\ Cardinality(S) = i
  BY <1>1, FS_Interval
<1>4. f \in Injection(S, T) /\ f \in Surjection(S, T)
  <2>1. f \in [S -> T] /\ \A t \in T : \E k \in S : f[k] = t
    BY DEF FirstPeers
  <2>2. \A j, k \in S : f[j] = f[k] => j = k
    BY <1>1, PeersInOrder
  <2>3. QED
    BY <2>1, <2>2 DEF Injection, IsInjective, Surjection
<1>5. Cardinality(T) = Cardinality(S)
  BY <1>3, <1>4, FS_Surjection
<1>6. QED
  BY <1>2, <1>3, <1>5

\* The peer asked next is none of those asked before.
LEMMA AskNext ==
    ASSUME NEW n \in Node, NEW i, NEW left, IsRest(n, i, left), left # <<>>
    PROVE  /\ Head(left) \in Peers(n) /\ Head(left) \notin FirstPeers(n, i)
           /\ IsRest(n, i + 1, Tail(left)) /\ i + 1 \in 0..N - 1
           /\ FirstPeers(n, i + 1) = FirstPeers(n, i) \union {Head(left)}
<1> DEFINE p == PeerList[n][i + 1]
<1>1. /\ left \in Seq(Node) /\ i \in Nat /\ Len(left) = N - 1 - i
      /\ \A k \in 1..Len(left) : left[k] = PeerList[n][i + k]
  BY DEF IsRest
<1>2. /\ Len(left) \in Nat \ {0} /\ Head(left) = left[1]
      /\ Tail(left) \in Seq(Node) /\ Len(Tail(left)) = Len(left) - 1
      /\ \A k \in 1..Len(Tail(left)) : Tail(left)[k] = left[k + 1]
  <2>1. Len(left) \in Nat \ {0} /\ Head(left) = left[1]
    BY <1>1, LenProperties, EmptySeq
  <2>2. QED
    BY <1>1, <2>1, HeadTailProperties
<1>3. i + 1 \in 1..N - 1 /\ Head(left) = p
  BY <1>1, <1>2, ClusterOK
<1>4. p \in Peers(n)
  BY <1>3, PeersInOrder
<1>5. p \notin FirstPeers(n, i)
  BY <1>1, <1>3, PeersInOrder DEF FirstPeers
<1>6. IsRest(n, i + 1, Tail(left))
  <2>1. Len(Tail(left)) = N - 1 - (i + 1) /\ i + 1 \in Nat
    BY <1>1, <1>2, ClusterOK
  <2>2. ASSUME NEW k \in 1..Len(Tail(left)) PROVE Tail(left)[k] = PeerList[n][i + 1 + k]
    <3>1. k + 1 \in 1..Len(left) /\ i + (k + 1) = i + 1 + k
      BY <1>1, <1>2
    <3>2. QED
      BY <1>1, <1>2, <3>1
  <2>3. QED
    BY <1>2, <2>1, <2>2 DEF IsRest
<1>7. FirstPeers(n, i + 1) = FirstPeers(n, i) \union {p}
  <2>1. 1..i + 1 = (1..i) \union {i + 1}
    BY <1>1
  <2>2. QED
    BY <2>1 DEF FirstPeers
<1>8. QED
  BY <1>3, <1>4, <1>5, <1>6, <1>7

-----------------------------------------------------------------------------
(* The invariant, for the fields of a write w of m and a read r at n, over *)
(* disks d, write calls ws and processes u.                                *)

\* m is on the disks of QuorumW - 1 peers of a.
OnQuorum(m, a, d) ==
    \E C \in SUBSET Peers(a) : Cardinality(C) >= QuorumW - 1 /\ \A p \in C : m \in d[p]

\* Whoever acknowledged has m on its disk.
WriterOK(m, w, d, u) ==
    /\ w \in WriterRecord
    /\ w.pc = "idle" => w.at = NoNode
    /\ w.pc # "idle" => w.at \in Node
    /\ w.pc = "forwarding" =>
         /\ u[w.at]
         /\ \E i \in 0..N - 1 :
              /\ IsRest(w.at, i, w.left)
              /\ w.acks \in 1..i + 1
              /\ \E A \in SUBSET FirstPeers(w.at, i) :
                   Cardinality(A) = w.acks - 1 /\ \A p \in A : m \in d[p]
    /\ w.pc = "committed" => OnQuorum(m, w.at, d)

\* n itself committed m, or a peer in S has it.
OwnOrHeld(m, n, S, d, ws) ==
    \/ ws[m].pc = "committed" /\ ws[m].at = n
    \/ \E p \in S : m \in d[p]

\* A whole read has found all that was committed and that a peer it asked had
\* when it began, and what the read before it returned.
WholeRead(n, r, i, d, ws, last) ==
    /\ \A m \in r.known : \E C \in SUBSET Peers(ws[m].at) :
         /\ Cardinality(C) >= QuorumW - 1
         /\ \A p \in C : m \in d[p] /\ (p \in FirstPeers(n, i) => m \in r.result)
    /\ \A m \in last :
         \/ m \in r.known /\ ws[m].at = n
         \/ \E p \in FirstPeers(n, QuorumR - 1) :
              m \in d[p] /\ (p \in FirstPeers(n, i) => m \in r.result)

Reading(n, r, i, d, ws, last) ==
    /\ IsRest(n, i, r.left) /\ i + 1 = r.reads /\ r.reads <= QuorumR
    /\ \A m \in r.known : ws[m].pc = "committed"
    /\ \A m \in r.result : OwnOrHeld(m, n, FirstPeers(n, i), d, ws)
    /\ r.whole => WholeRead(n, r, i, d, ws, last)

ReaderOK(n, r, d, ws, last) ==
    /\ r \in ReaderRecord
    /\ r.pc = "reading" => \E i \in 0..N - 1 : Reading(n, r, i, d, ws, last)
    /\ \A m \in last : OwnOrHeld(m, n, FirstPeers(n, QuorumR - 1), d, ws)

MemoryOK(mem, ws) ==
    \A n \in Node, m \in Message :
        /\ mem[n][m] \in {"pending", "committed"} => ws[m].at = n
        /\ mem[n][m] = "committed" => ws[m].pc = "committed"

DownOK == \A n \in Node : ~up[n] => memory[n] = Nothing /\ reader[n] = IdleReader

Shape ==
    /\ memory \in [Node -> [Message -> {"none", "pending", "committed", "replica"}]]
    /\ disk \in [Node -> SUBSET Message]
    /\ up \in [Node -> BOOLEAN]
    /\ writer \in [Message -> WriterRecord]
    /\ reader \in [Node -> ReaderRecord]
    /\ crashes \in 0..MaxCrashes /\ faults \in 0..MaxFaults
    /\ lastRead \in [Node -> SUBSET Message]

WritersOK == \A m \in Message : WriterOK(m, writer[m], disk, up)
ReadersOK == \A n \in Node : ReaderOK(n, reader[n], disk, writer, lastRead[n])

IInv == Shape /\ MemoryOK(memory, writer) /\ DownOK /\ WritersOK /\ ReadersOK

\* The invariant gives the types.
LEMMA Types == IInv => TypeOK
BY DEF IInv, Shape, MemoryOK, DownOK, TypeOK

-----------------------------------------------------------------------------
(* What a step does to the calls it is not about.                          *)

\* Disks keep what they have, and a committed write is over.
Grows(d, e) == \A p \in Node : d[p] \subseteq e[p]
CommitsStay(ws, xs) == \A m \in Message : ws[m].pc = "committed" => xs[m] = ws[m]

LEMMA WriterStays ==
    ASSUME NEW m, NEW w, NEW d, NEW u, WriterOK(m, w, d, u),
           NEW e, Grows(d, e),
           NEW v, w.pc = "forwarding" => v[w.at]
    PROVE  WriterOK(m, w, e, v)
<1>1. \A a \in Node : OnQuorum(m, a, d) => OnQuorum(m, a, e)
  BY DEF OnQuorum, Peers, Grows
<1>2. ASSUME w.pc = "forwarding"
      PROVE  \E i \in 0..N - 1 :
               /\ IsRest(w.at, i, w.left)
               /\ w.acks \in 1..i + 1
               /\ \E A \in SUBSET FirstPeers(w.at, i) :
                    Cardinality(A) = w.acks - 1 /\ \A p \in A : m \in e[p]
  <2>1. PICK i \in 0..N - 1 :
               /\ IsRest(w.at, i, w.left)
               /\ w.acks \in 1..i + 1
               /\ \E A \in SUBSET FirstPeers(w.at, i) :
                    Cardinality(A) = w.acks - 1 /\ \A p \in A : m \in d[p]
    BY <1>2 DEF WriterOK
  <2>2. FirstPeers(w.at, i) \subseteq Node
    BY <1>2, FirstPeersOK DEF WriterOK, Peers
  <2>3. QED
    BY <2>1, <2>2 DEF Grows
<1>3. QED
  BY <1>1, <1>2 DEF WriterOK

LEMMA OwnOrHeldStays ==
    ASSUME NEW m \in Message, NEW n \in Node, NEW S \in SUBSET Node, NEW d, NEW ws,
           OwnOrHeld(m, n, S, d, ws),
           NEW e, Grows(d, e), NEW xs, CommitsStay(ws, xs)
    PROVE  OwnOrHeld(m, n, S, e, xs)
BY DEF OwnOrHeld, Grows, CommitsStay

LEMMA FirstAreNodes == \A n \in Node, i \in 0..N - 1 : FirstPeers(n, i) \in SUBSET Node
BY FirstPeersOK DEF Peers

LEMMA ReadQuorum == QuorumR - 1 \in 0..N - 1
BY ClusterOK

LEMMA ReaderStays ==
    ASSUME NEW n \in Node, NEW r, NEW d, NEW ws, NEW last \in SUBSET Message,
           ReaderOK(n, r, d, ws, last),
           NEW e, Grows(d, e), NEW xs, CommitsStay(ws, xs)
    PROVE  ReaderOK(n, r, e, xs, last)
<1>1. r \in ReaderRecord /\ r.known \in SUBSET Message /\ r.result \in SUBSET Message
  BY DEF ReaderOK, ReaderRecord
<1>2. \A m \in last : OwnOrHeld(m, n, FirstPeers(n, QuorumR - 1), e, xs)
  BY FirstAreNodes, ReadQuorum, OwnOrHeldStays DEF ReaderOK
<1>3. ASSUME NEW i \in 0..N - 1, Reading(n, r, i, d, ws, last)
      PROVE  Reading(n, r, i, e, xs, last)
  <2>1. \A m \in r.known : ws[m].pc = "committed" /\ xs[m] = ws[m]
    BY <1>1, <1>3 DEF Reading, CommitsStay
  <2>2. \A m \in r.result : OwnOrHeld(m, n, FirstPeers(n, i), e, xs)
    BY <1>1, <1>3, FirstAreNodes, OwnOrHeldStays DEF Reading
  <2>3. ASSUME WholeRead(n, r, i, d, ws, last) PROVE WholeRead(n, r, i, e, xs, last)
    <3>1. \A p \in FirstPeers(n, QuorumR - 1) : d[p] \subseteq e[p]
      BY FirstAreNodes, ReadQuorum DEF Grows
    <3>2. ASSUME NEW m \in r.known
          PROVE  \E C \in SUBSET Peers(xs[m].at) :
                   /\ Cardinality(C) >= QuorumW - 1
                   /\ \A p \in C : m \in e[p] /\ (p \in FirstPeers(n, i) => m \in r.result)
      BY <2>1, <2>3 DEF WholeRead, Grows, Peers
    <3>3. ASSUME NEW m \in last
          PROVE  \/ m \in r.known /\ xs[m].at = n
                 \/ \E p \in FirstPeers(n, QuorumR - 1) :
                      m \in e[p] /\ (p \in FirstPeers(n, i) => m \in r.result)
      BY <2>1, <2>3, <3>1 DEF WholeRead
    <3>4. QED
      BY <3>2, <3>3 DEF WholeRead
  <2>4. QED
    BY <1>3, <2>1, <2>2, <2>3 DEF Reading
<1>4. QED
  BY <1>1, <1>2, <1>3 DEF ReaderOK

\* An action that moves the write of m only, to z.
LEMMA OneWriter ==
    ASSUME IInv, NEW m \in Message, NEW z,
           writer' = [writer EXCEPT ![m] = z], WriterOK(m, z, disk', up),
           up' = up, Grows(disk, disk')
    PROVE  WritersOK'
<1>1. \A x \in Message : writer'[x] = IF x = m THEN z ELSE writer[x]
  BY DEF IInv, Shape
<1>2. ASSUME NEW x \in Message PROVE WriterOK(x, writer'[x], disk', up)
  <2>1. WriterOK(x, writer[x], disk, up)
    BY DEF IInv, WritersOK
  <2>2. WriterOK(x, writer[x], disk', up)
    BY <2>1, WriterStays DEF WriterOK
  <2>3. QED
    BY <1>1, <2>2
<1>3. QED
  BY <1>2 DEF WritersOK

LEMMA WritersStay ==
    ASSUME IInv, writer' = writer, Grows(disk, disk'),
           \A m \in Message : writer[m].pc = "forwarding" => up'[writer[m].at]
    PROVE  WritersOK'
<1>1. ASSUME NEW m \in Message PROVE WriterOK(m, writer[m], disk', up')
  <2>1. WriterOK(m, writer[m], disk, up)
    BY DEF IInv, WritersOK
  <2>2. QED
    BY <2>1, WriterStays
<1>2. QED
  BY <1>1 DEF WritersOK

LEMMA ReadersStay ==
    ASSUME IInv, Grows(disk, disk'), CommitsStay(writer, writer'),
           UNCHANGED <<reader, lastRead>>
    PROVE  ReadersOK'
<1>1. ASSUME NEW n \in Node PROVE ReaderOK(n, reader[n], disk', writer', lastRead[n])
  <2>1. ReaderOK(n, reader[n], disk, writer, lastRead[n]) /\ lastRead[n] \in SUBSET Message
    BY DEF IInv, ReadersOK, Shape
  <2>2. QED
    BY <2>1, ReaderStays
<1>2. QED
  BY <1>1 DEF ReadersOK

\* An action that moves the read at n only, to z.
LEMMA OneReader ==
    ASSUME IInv, NEW n \in Node, NEW z, NEW last,
           reader' = [reader EXCEPT ![n] = z],
           lastRead' = [lastRead EXCEPT ![n] = last],
           ReaderOK(n, z, disk, writer, last), UNCHANGED <<disk, writer>>
    PROVE  ReadersOK'
<1>1. \A x \in Node : /\ reader'[x] = IF x = n THEN z ELSE reader[x]
                      /\ lastRead'[x] = IF x = n THEN last ELSE lastRead[x]
  BY DEF IInv, Shape
<1>2. \A x \in Node : ReaderOK(x, reader'[x], disk, writer, lastRead'[x])
  BY <1>1 DEF IInv, ReadersOK
<1>3. QED
  BY <1>2 DEF ReadersOK

LEMMA IdleRecord == IdleReader \in ReaderRecord /\ IdleReader.pc = "idle"
BY ClusterOK DEF IdleReader, ReaderRecord, N

LEMMA IdleOK ==
    ASSUME NEW n \in Node, NEW d, NEW ws, NEW last,
           \A m \in last : OwnOrHeld(m, n, FirstPeers(n, QuorumR - 1), d, ws)
    PROVE  ReaderOK(n, IdleReader, d, ws, last)
BY IdleRecord DEF ReaderOK

-----------------------------------------------------------------------------
(* Each action keeps the invariant.                                        *)

LEMMA SameDisks == Grows(disk, disk)
BY DEF Grows

LEMMA BeginWriteKeeps ==
    ASSUME IInv, NEW n \in Node, NEW m \in Message, BeginWrite(n, m) PROVE IInv'
<1> DEFINE z == [pc |-> "forwarding", at |-> n, left |-> PeerList[n], acks |-> 1]
<1>1. /\ up[n] /\ writer[m].pc = "idle" /\ writer[m].at = NoNode
      /\ memory' = [memory EXCEPT ![n][m] = "pending"]
      /\ writer' = [writer EXCEPT ![m] = z]
      /\ UNCHANGED <<disk, up, reader, crashes, faults, lastRead>>
  BY DEF BeginWrite, IInv, WritersOK, WriterOK
<1>2. /\ writer \in [Message -> WriterRecord]
      /\ memory \in [Node -> [Message -> {"none", "pending", "committed", "replica"}]]
  BY DEF IInv, Shape
<1>3. z \in WriterRecord
  BY ClusterOK, PeersInOrder DEF WriterRecord, N
<1>4. WriterOK(m, z, disk, up)
  <2>1. IsRest(n, 0, z.left) /\ 0 \in 0..N - 1 /\ z.acks \in 1..0 + 1
    BY NobodyAsked, ClusterOK
  <2>2. \E A \in SUBSET FirstPeers(n, 0) : Cardinality(A) = z.acks - 1 /\ \A p \in A : m \in disk[p]
    BY NobodyAsked, FS_EmptySet
  <2>3. QED
    BY <1>1, <1>3, <2>1, <2>2 DEF WriterOK
<1>5. \A x \in Message : writer'[x] = IF x = m THEN z ELSE writer[x]
  BY <1>1, <1>2
<1>6. \A a \in Node, x \in Message :
        memory'[a][x] = IF a = n /\ x = m THEN "pending" ELSE memory[a][x]
  BY <1>1, <1>2
<1>7. Shape'
  BY <1>1, <1>3 DEF IInv, Shape
<1>8. MemoryOK(memory', writer')
  <2>1. NoNode \notin Node
    BY NodeAssumption DEF NodeAssumption
  <2>2. QED
    BY <1>1, <1>5, <1>6, <2>1 DEF IInv, MemoryOK
<1>9. DownOK'
  BY <1>1, <1>2 DEF IInv, DownOK
<1>10. WritersOK'
  BY <1>1, <1>4, OneWriter, SameDisks
<1>11. ReadersOK'
  BY <1>1, <1>5, ReadersStay, SameDisks DEF CommitsStay
<1>12. QED
  BY <1>7, <1>8, <1>9, <1>10, <1>11 DEF IInv

\* A call to a node, whether it reached it or not.
LEMMA ReceiveKeeps ==
    ASSUME IInv, NEW p \in Node, NEW m \in Message,
           (up[p] /\ Receive(p, m)) \/ UNCHANGED <<memory, disk>>
    PROVE  /\ memory' \in [Node -> [Message -> {"none", "pending", "committed", "replica"}]]
           /\ disk' \in [Node -> SUBSET Message] /\ Grows(disk, disk')
           /\ \A a \in Node, x \in Message :
                memory'[a][x] \in {"pending", "committed"} => memory[a][x] = memory'[a][x]
           /\ \A a \in Node : ~up[a] => memory'[a] = memory[a]
<1>1. /\ memory \in [Node -> [Message -> {"none", "pending", "committed", "replica"}]]
      /\ disk \in [Node -> SUBSET Message]
  BY DEF IInv, Shape
<1>2. CASE up[p] /\ Receive(p, m)
  <2> DEFINE s == IF memory[p][m] = "none" THEN "replica" ELSE memory[p][m]
  <2>1. memory' = [memory EXCEPT ![p][m] = s] /\ disk' = [disk EXCEPT ![p] = @ \union {m}]
    BY <1>2 DEF Receive
  <2>2. /\ s \in {"none", "pending", "committed", "replica"}
        /\ s \in {"pending", "committed"} => s = memory[p][m]
    BY <1>1
  <2> HIDE DEF s
  <2>3. \A a \in Node, x \in Message :
          memory'[a][x] = IF a = p /\ x = m THEN s ELSE memory[a][x]
    BY <1>1, <2>1
  <2>4. \A a \in Node : a # p => memory'[a] = memory[a]
    BY <1>1, <2>1
  <2>5. memory' \in [Node -> [Message -> {"none", "pending", "committed", "replica"}]]
    BY <1>1, <2>1, <2>2
  <2>6. disk' \in [Node -> SUBSET Message] /\ Grows(disk, disk')
    BY <1>1, <2>1 DEF Grows
  <2>7. \A a \in Node, x \in Message :
          memory'[a][x] \in {"pending", "committed"} => memory[a][x] = memory'[a][x]
    BY <2>2, <2>3
  <2>8. QED
    BY <1>2, <2>4, <2>5, <2>6, <2>7
<1>3. CASE UNCHANGED <<memory, disk>>
  BY <1>1, <1>3 DEF Grows
<1>4. QED
  BY <1>2, <1>3

LEMMA ForwardKeeps ==
    ASSUME IInv, NEW m \in Message, Forward(m) PROVE IInv'
<1> DEFINE w == writer[m]
           p == Head(w.left)
<1>1. w.pc = "forwarding" /\ w.left # <<>> /\ UNCHANGED <<up, reader, crashes, lastRead>>
  BY DEF Forward
<1>2. WriterOK(m, w, disk, up) /\ w \in WriterRecord /\ w.at \in Node /\ up[w.at]
  BY <1>1 DEF IInv, WritersOK, WriterOK
<1>3. PICK i \in 0..N - 1 :
        /\ IsRest(w.at, i, w.left)
        /\ w.acks \in 1..i + 1
        /\ \E A \in SUBSET FirstPeers(w.at, i) :
             Cardinality(A) = w.acks - 1 /\ \A q \in A : m \in disk[q]
  BY <1>1, <1>2 DEF WriterOK
<1>4. PICK A \in SUBSET FirstPeers(w.at, i) :
             Cardinality(A) = w.acks - 1 /\ \A q \in A : m \in disk[q]
  BY <1>3
<1>5. PICK ok \in BOOLEAN :
        /\ IF ok THEN RpcOk(p) ELSE RpcFails(p)
        /\ \/ up[p] /\ Receive(p, m)
           \/ ~ok /\ UNCHANGED <<memory, disk>>
        /\ writer' = [writer EXCEPT ![m] = [w EXCEPT !.left = Tail(@), !.acks = Acks(@, ok)]]
  BY DEF Forward
<1> DEFINE a == IF ok THEN w.acks + 1 ELSE w.acks
           z == [w EXCEPT !.left = Tail(w.left), !.acks = a]
<1>6. writer' = [writer EXCEPT ![m] = z]
  BY <1>5, <1>2 DEF Acks, WriterRecord
<1>7. /\ p \in Peers(w.at) /\ p \notin FirstPeers(w.at, i)
      /\ IsRest(w.at, i + 1, Tail(w.left)) /\ i + 1 \in 0..N - 1
      /\ FirstPeers(w.at, i + 1) = FirstPeers(w.at, i) \union {p}
  BY <1>1, <1>2, <1>3, AskNext
<1>8. p \in Node
  BY <1>7 DEF Peers
<1>9. /\ memory' \in [Node -> [Message -> {"none", "pending", "committed", "replica"}]]
      /\ disk' \in [Node -> SUBSET Message] /\ Grows(disk, disk')
      /\ \A b \in Node, x \in Message :
           memory'[b][x] \in {"pending", "committed"} => memory[b][x] = memory'[b][x]
      /\ \A b \in Node : ~up[b] => memory'[b] = memory[b]
  BY <1>5, <1>8, ReceiveKeeps
<1>10. ok => m \in disk'[p]
  <2>1. ok => disk' = [disk EXCEPT ![p] = @ \union {m}]
    BY <1>5 DEF Receive
  <2>2. QED
    BY <1>8, <2>1 DEF IInv, Shape
<1>11. faults' \in 0..MaxFaults
  <2>1. faults \in 0..MaxFaults /\ MaxFaults \in Nat
    BY BoundAssumption DEF IInv, Shape, BoundAssumption
  <2>2. QED
    BY <1>5, <2>1 DEF RpcOk, RpcFails
<1> HIDE DEF w, p
<1>12. a \in 1..i + 2 /\ a \in 0..N /\ Tail(w.left) \in Seq(Node)
  BY <1>3, <1>7, ClusterOK DEF IsRest
<1>13. \E B \in SUBSET FirstPeers(w.at, i + 1) :
         Cardinality(B) = a - 1 /\ \A q \in B : m \in disk'[q]
  <2>1. A \subseteq FirstPeers(w.at, i + 1) /\ \A q \in A : m \in disk'[q]
    <3>1. A \subseteq Node
      BY <1>2, FirstAreNodes
    <3>2. QED
      BY <1>4, <1>7, <1>9, <3>1 DEF Grows
  <2>2. CASE ~ok
    BY <1>4, <2>1, <2>2
  <2>3. CASE ok
    <3>1. IsFiniteSet(A) /\ p \notin A
      BY <1>2, <1>7, FirstPeersOK, PeersOK, FS_Subset
    <3>2. Cardinality(A \union {p}) = Cardinality(A) + 1
      BY <3>1, FS_AddElement
    <3>3. Cardinality(A \union {p}) = a - 1
      BY <1>3, <1>4, <2>3, <3>2
    <3>4. QED
      BY <1>7, <1>10, <2>1, <2>3, <3>3
  <2>4. QED
    BY <2>2, <2>3
<1> HIDE DEF a
<1>14. /\ z \in WriterRecord /\ z.pc = "forwarding" /\ z.at = w.at
       /\ z.left = Tail(w.left) /\ z.acks = a
  BY <1>1, <1>2, <1>12 DEF WriterRecord, N
<1> HIDE DEF z
<1>15. WriterOK(m, z, disk', up)
  <2>1. z.acks \in 1..(i + 1) + 1
    BY <1>12, <1>14, <1>3
  <2>2. QED
    BY <1>2, <1>7, <1>13, <1>14, <2>1 DEF WriterOK
<1>16. \A x \in Message : writer'[x] = IF x = m THEN z ELSE writer[x]
  BY <1>6 DEF IInv, Shape
<1>17. Shape'
  BY <1>1, <1>6, <1>9, <1>11, <1>14 DEF IInv, Shape
<1>18. MemoryOK(memory', writer')
  BY <1>1, <1>9, <1>14, <1>16 DEF IInv, MemoryOK, w
<1>19. DownOK'
  BY <1>1, <1>9 DEF IInv, DownOK
<1>20. WritersOK'
  BY <1>1, <1>6, <1>9, <1>15, OneWriter
<1>21. ReadersOK'
  BY <1>1, <1>9, <1>16, ReadersStay DEF CommitsStay, w
<1>22. QED
  BY <1>17, <1>18, <1>19, <1>20, <1>21 DEF IInv

LEMMA EndWriteKeeps ==
    ASSUME IInv, NEW m \in Message, EndWrite(m) PROVE IInv'
<1> DEFINE w == writer[m]
           pc == IF w.acks >= QuorumW THEN "committed" ELSE "refused"
           z == [w EXCEPT !.pc = pc]
<1>1. /\ w.pc = "forwarding" /\ w.left = <<>>
      /\ IF w.acks >= QuorumW THEN memory' = [memory EXCEPT ![w.at][m] = "committed"]
                              ELSE memory' = memory
      /\ UNCHANGED <<disk, up, reader, crashes, faults, lastRead>>
  BY DEF EndWrite
<1>2. WriterOK(m, w, disk, up) /\ w \in WriterRecord /\ w.at \in Node /\ up[w.at]
  BY <1>1 DEF IInv, WritersOK, WriterOK
<1>3. writer' = [writer EXCEPT ![m] = z]
  <2>1. writer \in [Message -> WriterRecord]
    BY DEF IInv, Shape
  <2>2. QED
    BY <2>1 DEF EndWrite
<1>4. memory \in [Node -> [Message -> {"none", "pending", "committed", "replica"}]]
  BY DEF IInv, Shape
<1>5. \A a \in Node, x \in Message :
        memory'[a][x] = IF w.acks >= QuorumW /\ a = w.at /\ x = m THEN "committed"
                        ELSE memory[a][x]
  BY <1>1, <1>2, <1>4
<1>6. PICK i \in 0..N - 1 :
        /\ w.acks \in 1..i + 1
        /\ \E A \in SUBSET FirstPeers(w.at, i) :
             Cardinality(A) = w.acks - 1 /\ \A q \in A : m \in disk[q]
  BY <1>1, <1>2 DEF WriterOK
<1>7. w.acks >= QuorumW => OnQuorum(m, w.at, disk)
  <2>1. FirstPeers(w.at, i) \subseteq Peers(w.at)
    BY <1>2, FirstPeersOK
  <2>2. w.acks >= QuorumW => w.acks - 1 >= QuorumW - 1
    BY <1>6, ClusterOK
  <2>3. QED
    BY <1>6, <2>1, <2>2 DEF OnQuorum
<1>8. memory' \in [Node -> [Message -> {"none", "pending", "committed", "replica"}]]
  BY <1>1, <1>4
<1>9. \A a \in Node : a # w.at => memory'[a] = memory[a]
  BY <1>1, <1>4
<1> HIDE DEF w
<1>10. /\ z \in WriterRecord /\ z.pc = pc /\ z.at = w.at
       /\ pc = "committed" \/ pc = "refused"
       /\ w.acks >= QuorumW => pc = "committed"
       /\ pc = "committed" => w.acks >= QuorumW
  BY <1>2 DEF WriterRecord
<1> HIDE DEF z, pc
<1>11. WriterOK(m, z, disk, up)
  <2>1. z.pc # "idle" /\ z.pc # "forwarding" /\ z.at \in Node
    BY <1>2, <1>10
  <2>2. z.pc = "committed" => OnQuorum(m, z.at, disk)
    BY <1>7, <1>10
  <2>3. QED
    BY <1>10, <2>1, <2>2 DEF WriterOK
<1>12. \A x \in Message : writer'[x] = IF x = m THEN z ELSE writer[x]
  BY <1>3 DEF IInv, Shape
<1>13. Shape'
  BY <1>1, <1>3, <1>8, <1>10 DEF IInv, Shape
<1>14. MemoryOK(memory', writer')
  BY <1>1, <1>5, <1>10, <1>12 DEF IInv, MemoryOK, w
<1>15. DownOK'
  BY <1>1, <1>2, <1>9 DEF IInv, DownOK
<1>16. WritersOK'
  BY <1>1, <1>3, <1>11, OneWriter, SameDisks
<1>17. ReadersOK'
  BY <1>1, <1>12, ReadersStay, SameDisks DEF CommitsStay, w
<1>18. QED
  BY <1>13, <1>14, <1>15, <1>16, <1>17 DEF IInv

LEMMA BeginReadKeeps ==
    ASSUME IInv, NEW n \in Node, BeginRead(n) PROVE IInv'
<1> DEFINE z == [pc |-> "reading", left |-> PeerList[n], reads |-> 1, result |-> Local(n),
                 known |-> Committed, whole |-> TRUE]
           last == lastRead[n]
<1>1. /\ up[n] /\ reader' = [reader EXCEPT ![n] = z]
      /\ UNCHANGED <<memory, disk, up, writer, crashes, faults, lastRead>>
  BY DEF BeginRead
<1>2. /\ last \in SUBSET Message
      /\ \A m \in last : OwnOrHeld(m, n, FirstPeers(n, QuorumR - 1), disk, writer)
  BY DEF IInv, Shape, ReadersOK, ReaderOK
<1>3. Local(n) \in SUBSET Message /\ Committed \in SUBSET Message
  BY DEF Local, Committed
<1>4. \A m \in Local(n) : writer[m].pc = "committed" /\ writer[m].at = n
  BY DEF Local, IInv, MemoryOK
<1>5. \A m \in Committed : writer[m].pc = "committed" /\ OnQuorum(m, writer[m].at, disk)
  BY DEF Committed, IInv, WritersOK, WriterOK
<1>6. \A m \in Message : writer[m].pc = "committed" => m \in Committed
  BY DEF Committed
<1> HIDE DEF last
<1>7. /\ z \in ReaderRecord /\ z.left = PeerList[n] /\ z.reads = 1 /\ z.result = Local(n)
      /\ z.known = Committed
  BY <1>3, PeersInOrder, ClusterOK DEF ReaderRecord, N
<1> HIDE DEF z
<1>8. IsRest(n, 0, z.left) /\ FirstPeers(n, 0) = {} /\ 0 \in 0..N - 1 /\ 0 + 1 = 1
  BY <1>7, NobodyAsked, ClusterOK
<1>9. WholeRead(n, z, 0, disk, writer, last)
  BY <1>2, <1>5, <1>6, <1>7, <1>8 DEF WholeRead, OnQuorum, OwnOrHeld
<1>10. Reading(n, z, 0, disk, writer, last)
  <2>1. 0 + 1 = z.reads /\ z.reads <= QuorumR
    BY <1>7, ClusterOK
  <2>2. \A m \in z.result : OwnOrHeld(m, n, FirstPeers(n, 0), disk, writer)
    BY <1>4, <1>7 DEF OwnOrHeld
  <2>3. QED
    BY <1>5, <1>7, <1>8, <1>9, <2>1, <2>2 DEF Reading
<1>11. ReaderOK(n, z, disk, writer, last)
  BY <1>2, <1>7, <1>8, <1>10 DEF ReaderOK
<1>12. Shape'
  BY <1>1, <1>7 DEF IInv, Shape
<1>13. MemoryOK(memory', writer')
  BY <1>1 DEF IInv
<1>14. DownOK'
  BY <1>1 DEF IInv, DownOK, Shape
<1>15. WritersOK'
  BY <1>1 DEF IInv, WritersOK
<1>16. ReadersOK'
  <2>1. lastRead' = [lastRead EXCEPT ![n] = last]
    BY <1>1 DEF IInv, Shape, last
  <2>2. QED
    BY <1>1, <1>11, <2>1, OneReader
<1>17. QED
  BY <1>12, <1>13, <1>14, <1>15, <1>16 DEF IInv

LEMMA ReadFromPeerKeeps ==
    ASSUME IInv, NEW n \in Node, ReadFromPeer(n) PROVE IInv'
<1> DEFINE r == reader[n]
           p == Head(r.left)
           last == lastRead[n]
<1>1. /\ r.pc = "reading" /\ r.left # <<>> /\ r.reads < QuorumR
      /\ UNCHANGED <<memory, disk, up, writer, crashes, lastRead>>
  BY DEF ReadFromPeer
<1>2. PICK ok \in BOOLEAN :
        /\ IF ok THEN RpcOk(p) ELSE RpcFails(p)
        /\ reader' = [reader EXCEPT ![n] =
             [r EXCEPT !.left = Tail(@), !.reads = @ + 1,
                       !.result = IF ok THEN @ \union Fetched(p) ELSE @,
                       !.whole = @ /\ ok]]
  BY DEF ReadFromPeer
<1>3. /\ ReaderOK(n, r, disk, writer, last) /\ r \in ReaderRecord /\ last \in SUBSET Message
      /\ \A m \in last : OwnOrHeld(m, n, FirstPeers(n, QuorumR - 1), disk, writer)
  BY DEF IInv, ReadersOK, ReaderOK, Shape
<1>4. PICK i \in 0..N - 1 : Reading(n, r, i, disk, writer, last)
  BY <1>1, <1>3 DEF ReaderOK
<1>5. /\ p \in Peers(n) /\ p \notin FirstPeers(n, i)
      /\ IsRest(n, i + 1, Tail(r.left)) /\ i + 1 \in 0..N - 1
      /\ FirstPeers(n, i + 1) = FirstPeers(n, i) \union {p}
  BY <1>1, <1>4, AskNext DEF Reading
<1>6. p \in Node /\ disk[p] \in SUBSET Message
  BY <1>5 DEF Peers, IInv, Shape
<1> DEFINE result == IF ok THEN r.result \union disk[p] ELSE r.result
           whole == r.whole /\ ok
           z == [r EXCEPT !.left = Tail(r.left), !.reads = r.reads + 1,
                          !.result = result, !.whole = whole]
<1>7. reader' = [reader EXCEPT ![n] = z]
  BY <1>2, <1>3 DEF Fetched, ReaderRecord
<1>8. faults' \in 0..MaxFaults
  <2>1. faults \in 0..MaxFaults /\ MaxFaults \in Nat
    BY BoundAssumption DEF IInv, Shape, BoundAssumption
  <2>2. QED
    BY <1>2, <2>1 DEF RpcOk, RpcFails
<1>9. up[n]
  BY <1>1 DEF IInv, DownOK, IdleReader
<1> HIDE DEF r, p, last
<1>10. /\ result \in SUBSET Message /\ r.result \subseteq result
       /\ ok => disk[p] \subseteq result
       /\ result \subseteq r.result \union disk[p]
  BY <1>3, <1>6 DEF ReaderRecord
<1>11. whole \in BOOLEAN /\ (whole => r.whole /\ ok)
  BY <1>3 DEF ReaderRecord
<1>12. /\ r.reads \in Nat /\ i + 1 = r.reads /\ i \in Nat
       /\ r.reads + 1 \in 0..N /\ r.reads + 1 <= QuorumR
  <2>1. r.reads \in Nat
    BY <1>3, ClusterOK DEF ReaderRecord, N
  <2>2. QED
    BY <1>1, <1>4, <2>1, ClusterOK DEF Reading
<1> HIDE DEF result, whole
<1>13. /\ z \in ReaderRecord /\ z.left = Tail(r.left) /\ z.reads = r.reads + 1
       /\ z.result = result /\ z.known = r.known /\ z.whole = whole
  BY <1>3, <1>5, <1>10, <1>11, <1>12 DEF ReaderRecord, IsRest, N
<1> HIDE DEF z
<1>14. \A m \in z.result : OwnOrHeld(m, n, FirstPeers(n, i + 1), disk, writer)
  <2>1. \A m \in r.result : OwnOrHeld(m, n, FirstPeers(n, i), disk, writer)
    BY <1>4 DEF Reading
  <2>2. QED
    BY <1>5, <1>10, <1>13, <2>1 DEF OwnOrHeld
<1>15. ASSUME z.whole PROVE WholeRead(n, z, i + 1, disk, writer, last)
  <2>1. WholeRead(n, r, i, disk, writer, last) /\ disk[p] \subseteq result
    BY <1>4, <1>10, <1>11, <1>13, <1>15 DEF Reading
  <2>2. \A q, m : /\ m \in disk[q] /\ (q \in FirstPeers(n, i) => m \in r.result)
                  => (q \in FirstPeers(n, i + 1) => m \in z.result)
    BY <1>5, <1>10, <1>13, <2>1
  <2>3. \A m \in z.known : \E C \in SUBSET Peers(writer[m].at) :
          /\ Cardinality(C) >= QuorumW - 1
          /\ \A q \in C : m \in disk[q] /\ (q \in FirstPeers(n, i + 1) => m \in z.result)
    <3>1. ASSUME NEW m \in z.known
          PROVE  \E C \in SUBSET Peers(writer[m].at) :
                   /\ Cardinality(C) >= QuorumW - 1
                   /\ \A q \in C : m \in disk[q]
                                   /\ (q \in FirstPeers(n, i + 1) => m \in z.result)
      <4>1. PICK C \in SUBSET Peers(writer[m].at) :
              /\ Cardinality(C) >= QuorumW - 1
              /\ \A q \in C : m \in disk[q] /\ (q \in FirstPeers(n, i) => m \in r.result)
        BY <1>13, <2>1, <3>1 DEF WholeRead
      <4>2. QED
        BY <2>2, <4>1
    <3>2. QED
      BY <3>1
  <2>4. \A m \in last :
          \/ m \in z.known /\ writer[m].at = n
          \/ \E q \in FirstPeers(n, QuorumR - 1) :
               m \in disk[q] /\ (q \in FirstPeers(n, i + 1) => m \in z.result)
    BY <1>13, <2>1, <2>2 DEF WholeRead
  <2>5. QED
    BY <2>3, <2>4 DEF WholeRead
<1>16. Reading(n, z, i + 1, disk, writer, last)
  <2>1. (i + 1) + 1 = z.reads /\ z.reads <= QuorumR
    BY <1>12, <1>13
  <2>2. \A m \in z.known : writer[m].pc = "committed"
    BY <1>4, <1>13 DEF Reading
  <2>3. QED
    BY <1>5, <1>13, <1>14, <1>15, <2>1, <2>2 DEF Reading
<1>17. ReaderOK(n, z, disk, writer, last)
  BY <1>3, <1>5, <1>13, <1>16 DEF ReaderOK
<1>18. Shape'
  BY <1>1, <1>7, <1>8, <1>13 DEF IInv, Shape
<1>19. MemoryOK(memory', writer')
  BY <1>1 DEF IInv
<1>20. DownOK'
  BY <1>1, <1>7, <1>9 DEF IInv, DownOK, Shape
<1>21. WritersOK'
  BY <1>1 DEF IInv, WritersOK
<1>22. ReadersOK'
  <2>1. lastRead' = [lastRead EXCEPT ![n] = last]
    BY <1>1 DEF IInv, Shape, last
  <2>2. QED
    BY <1>1, <1>7, <1>17, <2>1, OneReader
<1>23. QED
  BY <1>18, <1>19, <1>20, <1>21, <1>22 DEF IInv

\* A read that ends has asked the first QuorumR - 1 peers.
LEMMA AskedAll ==
    ASSUME IInv, NEW n \in Node, ReadEnds(n)
    PROVE  Reading(n, reader[n], QuorumR - 1, disk, writer, lastRead[n])
<1>1. reader[n].pc = "reading" /\ ReaderOK(n, reader[n], disk, writer, lastRead[n])
  BY DEF ReadEnds, IInv, ReadersOK
<1>2. PICK i \in 0..N - 1 : Reading(n, reader[n], i, disk, writer, lastRead[n])
  BY <1>1 DEF ReaderOK
<1>3. /\ Len(reader[n].left) = N - 1 - i /\ i + 1 = reader[n].reads
      /\ reader[n].reads <= QuorumR
  BY <1>2 DEF Reading, IsRest
<1>4. i = QuorumR - 1
  <2>1. CASE reader[n].left = <<>>
    BY <1>3, <2>1, ClusterOK
  <2>2. CASE reader[n].reads >= QuorumR
    BY <1>3, <2>2, ClusterOK
  <2>3. QED
    BY <2>1, <2>2 DEF ReadEnds
<1>5. QED
  BY <1>2, <1>4

LEMMA EndReadKeeps ==
    ASSUME IInv, NEW n \in Node, EndRead(n) PROVE IInv'
<1> DEFINE r == reader[n]
           last == IF r.whole THEN r.result ELSE lastRead[n]
<1>1. /\ reader' = [reader EXCEPT ![n] = IdleReader]
      /\ UNCHANGED <<memory, disk, up, writer, crashes, faults>>
  BY DEF EndRead
<1>2. lastRead' = [lastRead EXCEPT ![n] = last]
  <2>1. lastRead = [lastRead EXCEPT ![n] = lastRead[n]]
    BY DEF IInv, Shape
  <2>2. QED
    BY <2>1 DEF EndRead
<1>3. last \in SUBSET Message
  BY DEF IInv, Shape, ReaderRecord
<1>4. \A m \in last : OwnOrHeld(m, n, FirstPeers(n, QuorumR - 1), disk, writer)
  <2>1. Reading(n, r, QuorumR - 1, disk, writer, lastRead[n])
    BY AskedAll DEF EndRead
  <2>2. \A m \in r.result : OwnOrHeld(m, n, FirstPeers(n, QuorumR - 1), disk, writer)
    BY <2>1 DEF Reading
  <2>3. \A m \in lastRead[n] : OwnOrHeld(m, n, FirstPeers(n, QuorumR - 1), disk, writer)
    BY DEF IInv, ReadersOK, ReaderOK
  <2>4. QED
    BY <2>2, <2>3
<1> HIDE DEF last
<1>5. IdleReader \in ReaderRecord /\ ReaderOK(n, IdleReader, disk, writer, last)
  BY <1>4, IdleOK, IdleRecord
<1>6. Shape'
  BY <1>1, <1>2, <1>3, <1>5 DEF IInv, Shape
<1>7. MemoryOK(memory', writer')
  BY <1>1 DEF IInv
<1>8. DownOK'
  BY <1>1 DEF IInv, DownOK, Shape
<1>9. WritersOK'
  BY <1>1 DEF IInv, WritersOK
<1>10. ReadersOK'
  BY <1>1, <1>2, <1>5, OneReader
<1>11. QED
  BY <1>6, <1>7, <1>8, <1>9, <1>10 DEF IInv

LEMMA CrashKeeps ==
    ASSUME IInv, NEW n \in Node, Crash(n) PROVE IInv'
<1> DEFINE hit(m) == writer[m].pc = "forwarding" /\ writer[m].at = n
           lost(m) == [writer[m] EXCEPT !.pc = "lost"]
<1>1. /\ crashes' \in 0..MaxCrashes /\ up' = [up EXCEPT ![n] = FALSE]
      /\ memory' = [memory EXCEPT ![n] = Nothing]
      /\ writer' = [m \in Message |-> IF hit(m) THEN lost(m) ELSE writer[m]]
      /\ reader' = [reader EXCEPT ![n] = IdleReader]
      /\ UNCHANGED <<disk, faults, lastRead>>
  BY BoundAssumption DEF Crash, IInv, Shape, BoundAssumption
<1>2. Nothing \in [Message -> {"none", "pending", "committed", "replica"}]
  BY DEF Nothing
<1>3. \A m \in Message : Nothing[m] = "none"
  BY DEF Nothing
<1>4. ASSUME NEW m \in Message
      PROVE  /\ lost(m) \in WriterRecord /\ lost(m).pc = "lost" /\ lost(m).at = writer[m].at
             /\ writer[m] \in WriterRecord
  BY DEF IInv, Shape, WriterRecord
<1>5. /\ up \in [Node -> BOOLEAN] /\ reader \in [Node -> ReaderRecord]
      /\ memory \in [Node -> [Message -> {"none", "pending", "committed", "replica"}]]
  BY DEF IInv, Shape
<1>6. /\ \A x \in Node : up'[x] = IF x = n THEN FALSE ELSE up[x]
      /\ \A x \in Node : memory'[x] = IF x = n THEN Nothing ELSE memory[x]
      /\ \A x \in Node : reader'[x] = IF x = n THEN IdleReader ELSE reader[x]
  BY <1>1, <1>5
<1>7. ASSUME NEW m \in Message
      PROVE  /\ WriterOK(m, writer'[m], disk, up') /\ writer'[m] \in WriterRecord
             /\ writer'[m].at = writer[m].at
             /\ writer[m].pc = "committed" => writer'[m] = writer[m]
  <2>1. WriterOK(m, writer[m], disk, up)
    BY DEF IInv, WritersOK
  <2>2. CASE hit(m)
    <3>1. writer'[m] = lost(m)
      BY <1>1, <2>2
    <3> DEFINE z == lost(m)
    <3>2. z \in WriterRecord /\ z.pc = "lost" /\ z.at = writer[m].at /\ z.at \in Node
      BY <1>4, <2>2
    <3> HIDE DEF z
    <3>3. WriterOK(m, z, disk, up')
      BY <3>2 DEF WriterOK
    <3>4. QED
      BY <2>2, <3>1, <3>2, <3>3 DEF z
  <2>3. CASE ~hit(m)
    <3>1. writer'[m] = writer[m]
      BY <1>1, <2>3
    <3>2. writer[m].pc = "forwarding" => up'[writer[m].at]
      BY <1>6, <2>1, <2>3 DEF WriterOK
    <3>3. WriterOK(m, writer[m], disk, up')
      BY <2>1, <3>2, WriterStays, SameDisks
    <3>4. QED
      BY <1>4, <3>1, <3>3
  <2>4. QED
    BY <2>2, <2>3
<1>8. writer' \in [Message -> WriterRecord]
  BY <1>1, <1>7
<1> HIDE DEF hit, lost
<1>9. IdleReader \in ReaderRecord
  BY IdleRecord
<1>10. Shape'
  BY <1>1, <1>2, <1>8, <1>9 DEF IInv, Shape
<1>11. MemoryOK(memory', writer')
  BY <1>3, <1>6, <1>7 DEF IInv, MemoryOK
<1>12. DownOK'
  BY <1>6 DEF IInv, DownOK
<1>13. WritersOK'
  BY <1>1, <1>7 DEF WritersOK
<1>14. CommitsStay(writer, writer')
  BY <1>7 DEF CommitsStay
<1>15. ReadersOK'
  <2>1. ASSUME NEW x \in Node PROVE ReaderOK(x, reader'[x], disk, writer', lastRead[x])
    <3>1. ReaderOK(x, reader[x], disk, writer, lastRead[x]) /\ lastRead[x] \in SUBSET Message
      BY DEF IInv, ReadersOK, Shape
    <3>2. ReaderOK(x, reader[x], disk, writer', lastRead[x])
      BY <1>14, <3>1, ReaderStays, SameDisks
    <3>3. ReaderOK(x, IdleReader, disk, writer', lastRead[x])
      BY <3>2, IdleOK DEF ReaderOK
    <3>4. QED
      BY <1>6, <3>2, <3>3
  <2>2. QED
    BY <1>1, <2>1 DEF ReadersOK
<1>16. QED
  BY <1>10, <1>11, <1>12, <1>13, <1>15 DEF IInv

LEMMA StartKeeps ==
    ASSUME IInv, NEW n \in Node, Start(n) PROVE IInv'
<1>1. /\ ~up[n] /\ up' = [up EXCEPT ![n] = TRUE]
      /\ UNCHANGED <<memory, writer, reader, crashes, faults, lastRead>>
  BY DEF Start
<1>2. PICK from \in SUBSET Peers(n) :
        disk' = [disk EXCEPT ![n] = @ \union UNION {disk[p] : p \in from}]
  BY DEF Start
<1>3. disk \in [Node -> SUBSET Message] /\ up \in [Node -> BOOLEAN] /\ from \subseteq Node
  BY <1>2 DEF IInv, Shape, Peers
<1>4. disk' \in [Node -> SUBSET Message] /\ Grows(disk, disk')
  BY <1>2, <1>3 DEF Grows
<1>5. \A x \in Node : up'[x] = IF x = n THEN TRUE ELSE up[x]
  BY <1>1, <1>3
<1>6. Shape'
  BY <1>1, <1>4 DEF IInv, Shape
<1>7. MemoryOK(memory', writer')
  BY <1>1 DEF IInv
<1>8. DownOK'
  BY <1>1, <1>5 DEF IInv, DownOK
<1>9. WritersOK'
  <2>1. \A m \in Message : writer[m].pc = "forwarding" => up'[writer[m].at]
    BY <1>5 DEF IInv, WritersOK, WriterOK
  <2>2. QED
    BY <1>1, <1>4, <2>1, WritersStay
<1>10. ReadersOK'
  BY <1>1, <1>4, ReadersStay DEF CommitsStay
<1>11. QED
  BY <1>6, <1>7, <1>8, <1>9, <1>10 DEF IInv

-----------------------------------------------------------------------------
(* Initially, always, and what follows.                                    *)

LEMMA InitOK == Init => IInv
<1> SUFFICES ASSUME Init PROVE IInv
  OBVIOUS
<1>1. IdleWriter \in WriterRecord /\ IdleWriter.pc = "idle" /\ IdleWriter.at = NoNode
  BY ClusterOK DEF IdleWriter, WriterRecord, N
<1>2. Shape
  BY <1>1, IdleRecord, BoundAssumption DEF Init, Shape, Nothing, BoundAssumption
<1>3. MemoryOK(memory, writer) /\ DownOK
  BY DEF Init, MemoryOK, Nothing, DownOK
<1>4. WritersOK
  BY <1>1 DEF Init, WritersOK, WriterOK
<1>5. ReadersOK
  <2>1. ASSUME NEW n \in Node PROVE ReaderOK(n, IdleReader, disk, writer, {})
    BY IdleOK
  <2>2. QED
    BY <2>1 DEF Init, ReadersOK
<1>6. QED
  BY <1>2, <1>3, <1>4, <1>5 DEF IInv

LEMMA NextKeeps == IInv /\ [Next]_vars => IInv'
<1> SUFFICES ASSUME IInv, [Next]_vars PROVE IInv'
  OBVIOUS
<1>1. ASSUME NEW n \in Node, NEW m \in Message, BeginWrite(n, m) PROVE IInv'
  BY <1>1, BeginWriteKeeps
<1>2. ASSUME NEW m \in Message, Forward(m) PROVE IInv'
  BY <1>2, ForwardKeeps
<1>3. ASSUME NEW m \in Message, EndWrite(m) PROVE IInv'
  BY <1>3, EndWriteKeeps
<1>4. ASSUME NEW n \in Node, BeginRead(n) PROVE IInv'
  BY <1>4, BeginReadKeeps
<1>5. ASSUME NEW n \in Node, ReadFromPeer(n) PROVE IInv'
  BY <1>5, ReadFromPeerKeeps
<1>6. ASSUME NEW n \in Node, EndRead(n) PROVE IInv'
  BY <1>6, EndReadKeeps
<1>7. ASSUME NEW n \in Node, Crash(n) PROVE IInv'
  BY <1>7, CrashKeeps
<1>8. ASSUME NEW n \in Node, Start(n) PROVE IInv'
  BY <1>8, StartKeeps
<1>9. CASE UNCHANGED vars
  BY <1>9 DEF vars, IInv, Shape, MemoryOK, DownOK, WritersOK, ReadersOK
<1>10. QED
  BY <1>1, <1>2, <1>3, <1>4, <1>5, <1>6, <1>7, <1>8, <1>9 DEF Next

THEOREM Invariant == Spec => []IInv
<1>1. QED
  BY InitOK, NextKeeps, PTL DEF Spec

\* The types: only the writer of a message has it as its own in its
\* MessageStore, and a process that is down has no store and no read.
THEOREM TypeCorrect == Spec => []TypeOK
BY Invariant, Types, PTL

LEMMA QuorumIsCopies == IInv => CommittedIsOnDisks
<1> SUFFICES ASSUME IInv, NEW m \in Committed
             PROVE  Cardinality(Copies(m)) >= QuorumW - 1
  BY DEF CommittedIsOnDisks
<1>1. m \in Message /\ writer[m].pc = "committed"
  BY DEF Committed
<1>2. writer[m].at \in Node /\ OnQuorum(m, writer[m].at, disk)
  BY <1>1 DEF IInv, WritersOK, WriterOK
<1>3. PICK C \in SUBSET Peers(writer[m].at) :
        Cardinality(C) >= QuorumW - 1 /\ \A p \in C : m \in disk[p]
  BY <1>2 DEF OnQuorum
<1>4. C \subseteq Copies(m) /\ Copies(m) \subseteq Peers(writer[m].at)
  BY <1>3 DEF Copies
<1>5. IsFiniteSet(Copies(m))
  BY <1>2, <1>4, PeersOK, FS_Subset
<1>6. /\ Cardinality(C) \in Nat /\ Cardinality(Copies(m)) \in Nat
      /\ Cardinality(C) <= Cardinality(Copies(m))
  BY <1>4, <1>5, FS_Subset, FS_CardinalityType
<1>7. QED
  BY <1>3, <1>6, ClusterOK

\* write answers True only for a message that QuorumW - 1 peers keep in their
\* tables, whatever crashes later.
THEOREM CommitsAreKept == Spec => []CommittedIsOnDisks
BY Invariant, QuorumIsCopies, PTL

\* With wide quorums the peers that a write at a and a read at n count, when
\* none is n, have one in common.
LEMMA QuorumsMeet ==
    ASSUME WideQuorums, NEW n \in Node, NEW a, NEW C \in SUBSET Peers(a),
           Cardinality(C) >= QuorumW - 1, n \notin C
    PROVE  C \intersect FirstPeers(n, QuorumR - 1) # {}
<1> DEFINE A == FirstPeers(n, QuorumR - 1)
<1>1. A \subseteq Peers(n) /\ Cardinality(A) = QuorumR - 1
  BY FirstPeersOK, ReadQuorum
<1>2. C \subseteq Peers(n)
  BY DEF Peers
<1>3. IsFiniteSet(Peers(n)) /\ Cardinality(Peers(n)) = N - 1
  BY PeersOK
<1>4. Cardinality(C) \in Nat
  BY <1>2, <1>3, FS_Subset, FS_CardinalityType
<1> HIDE DEF A
<1>5. Cardinality(C) + Cardinality(A) > Cardinality(Peers(n))
  BY <1>1, <1>3, <1>4, ClusterOK DEF WideQuorums, N
<1>6. C \intersect A # {}
  BY <1>1, <1>2, <1>3, <1>5, FS_MajoritiesIntersect
<1>7. QED
  BY <1>6 DEF A

LEMMA WholeReadSees ==
    ASSUME IInv, WideQuorums, NEW n \in Node, ReadEnds(n), reader[n].whole
    PROVE  /\ reader[n].known \subseteq reader[n].result \union disk[n]
           /\ lastRead[n] \subseteq reader[n].result
<1> DEFINE r == reader[n]
           A == FirstPeers(n, QuorumR - 1)
<1>1. WholeRead(n, r, QuorumR - 1, disk, writer, lastRead[n])
  BY AskedAll DEF Reading
<1>2. ASSUME NEW m \in r.known
      PROVE  \E C \in SUBSET Peers(writer[m].at) :
               (n \notin C => m \in r.result) /\ (n \in C => m \in disk[n])
  <2>1. PICK C \in SUBSET Peers(writer[m].at) :
          /\ Cardinality(C) >= QuorumW - 1
          /\ \A p \in C : m \in disk[p] /\ (p \in A => m \in r.result)
    BY <1>1 DEF WholeRead
  <2>2. n \notin C => C \intersect A # {}
    BY <2>1, QuorumsMeet
  <2>3. QED
    BY <2>1, <2>2
<1>3. r.known \subseteq r.result \union disk[n]
  BY <1>2
<1>4. ASSUME NEW m \in lastRead[n] PROVE m \in r.result
  <2>1. CASE m \in r.known /\ writer[m].at = n
    BY <1>2, <2>1 DEF Peers
  <2>2. CASE \E p \in A : m \in disk[p] /\ (p \in A => m \in r.result)
    BY <2>2
  <2>3. QED
    BY <1>1, <2>1, <2>2 DEF WholeRead
<1>5. QED
  BY <1>3, <1>4

\* Quorums that overlap on disks: read finds what write committed before it
\* began, or the node that reads has it on its own disk, where read does not look.
THEOREM WideReadsSeeCommitted == Spec => []WideReadSeesCommitted
<1>1. IInv => WideReadSeesCommitted
  BY WholeReadSees DEF WideReadSeesCommitted
<1>2. QED
  BY <1>1, Invariant, PTL

\* And read never forgets what it returned, though the MessageStore it came
\* from is lost with the process.
THEOREM ReadsNeverGoBack == Spec => []MonotonicReads
<1>1. IInv => MonotonicReads
  BY WholeReadSees DEF MonotonicReads
<1>2. QED
  BY <1>1, Invariant, PTL
=============================================================================
