------------------------ MODULE CausalDeliveryProofs ------------------------
(***************************************************************************)
(* Proofs about CausalDelivery, for any number of nodes, messages, copies, *)
(* threads and time-outs: the two clocks tell what caused what, a node on  *)
(* which nothing timed out delivers causes first, nothing is delivered     *)
(* twice by its condition, and why a message waits that has its causes.    *)
(***************************************************************************)
EXTENDS CausalDelivery, FiniteSetTheorems, SequenceTheorems, TLAPS

-----------------------------------------------------------------------------
(* The invariant, for the messages S sent, their causes pa, and a node n   *)
(* whose manager is r.                                                     *)

\* The component of a message's sender tells its causes; a cause has the smaller
\* clocks, and the smaller component of the sender of its effect.
PastOK(S, pa) ==
    /\ \A p, q \in S : p.id = q.id => p = q
    /\ \A p \in S : p.clock[p.sender] >= 1
    /\ \A p, q \in S : p # q /\ p.clock[p.sender] <= q.clock[p.sender] => p.id \in pa[q.id]
    /\ \A p, q \in S : p.id \in pa[q.id] =>
         /\ \A k \in Node : p.clock[k] <= q.clock[k]
         /\ p.clock[q.sender] < q.clock[q.sender]
         /\ p.lamport < q.lamport

\* r has m in its store, or something caused by it.
Knows(r, pa, m) == \E x \in r.store : m = x \/ m \in pa[x]

\* The clock covers what is in the store, and covers the sender's component of
\* nothing else but causes of that.
StoreOK(n, r, S, pa) ==
    /\ r.ids \subseteq r.store /\ \A m \in r.store : \E q \in S : q.id = m
    /\ \A k \in Node : r.delivered[k] <= r.clock[k]
    /\ \A q \in S : q.id \in r.store =>
         /\ \A k \in Node : q.clock[k] <= r.clock[k]
         /\ q.lamport <= r.lamport
         /\ q.sender # n => q.clock[q.sender] <= r.delivered[q.sender]
    /\ \A q \in S : q.clock[q.sender] <= r.clock[q.sender] => Knows(r, pa, q.id)
    /\ \A q \in S : q.sender = n => q.id \in r.store

\* What has arrived came from elsewhere and has moved the Lamport clock.
Arrived(n, r, S, p) == p \in S /\ p.sender # n /\ p.lamport <= r.lamport

WaitOK(n, r, S) ==
    /\ \A k \in 1..Len(r.buffer) : Arrived(n, r, S, r.buffer[k].msg)
    /\ \A m \in Message : r.calls[m] > 0 => \E q \in S : q.id = m /\ Arrived(n, r, S, q)
    /\ r.at \in 0..Len(r.buffer)
    /\ r.at = 0 => \A k \in 1..Len(r.buffer) : ~CanDeliver(r.delivered, r.buffer[k].msg)

NodeOK(n, r, S, pa) == r \in Manager /\ StoreOK(n, r, S, pa) /\ WaitOK(n, r, S)

\* Nothing has timed out, and every cause is there.
Orderly(r, pa) ==
    /\ \A k \in 1..Len(r.buffer) : ~r.buffer[k].late
    /\ \A m \in r.store : pa[m] \subseteq r.store

\* A count of k's events that is 0, or that one of k's messages brought.
Sourced(c, k, S) == c[k] = 0 \/ \E q \in S : q.sender = k /\ q.clock[k] = c[k]

\* Nobody counts more events of k than k does, or has the count from elsewhere
\* than k's messages.
ClocksOK(f, S) ==
    /\ \A n, k \in Node : f[n].clock[k] <= f[k].clock[k]
    /\ \A p \in S, k \in Node : p.clock[k] <= f[k].clock[k]
    /\ \A n, k \in Node : n # k => Sourced(f[n].clock, k, S)
    /\ \A p \in S, k \in Node : p.sender # k => Sourced(p.clock, k, S)

IInv ==
    /\ rm \in [Node -> Manager] /\ sent \subseteq Packet /\ extras \in 0..MaxExtras
    /\ past \in [Message -> SUBSET Created] /\ forced \subseteq Node
    /\ PastOK(sent, past) /\ ClocksOK(rm, sent)
    /\ \A n \in Node : NodeOK(n, rm[n], sent, past)
    /\ \A n \in Node \ forced : Orderly(rm[n], past)

-----------------------------------------------------------------------------
(* The operators.                                                          *)

LEMMA BoundsOK == MaxExtras \in Nat /\ Message \subseteq Nat
BY BoundsAssumption DEF BoundsAssumption, Message

LEMMA LargerOK ==
    ASSUME NEW a \in Nat, NEW b \in Nat
    PROVE  /\ Larger(a, b) \in Nat /\ Larger(a, b) >= a /\ Larger(a, b) >= b
           /\ Larger(a, b) = a \/ Larger(a, b) = b
BY DEF Larger

LEMMA PacketOK ==
    ASSUME NEW p \in Packet
    PROVE  /\ p.id \in Message /\ p.sender \in Node /\ p.lamport \in Nat
           /\ p.clock \in Clock /\ \A k \in Node : p.clock[k] \in Nat
BY DEF Packet, Clock

LEMMA ManagerOK ==
    ASSUME NEW r \in Manager
    PROVE  /\ r.clock \in Clock /\ \A k \in Node : r.clock[k] \in Nat
           /\ r.delivered \in Clock /\ \A k \in Node : r.delivered[k] \in Nat
           /\ r.lamport \in Nat /\ r.calls \in [Message -> Nat]
           /\ r.store \subseteq Message /\ r.ids \subseteq Message
           /\ r.buffer \in Seq([msg : Packet, late : BOOLEAN])
           /\ Len(r.buffer) \in Nat /\ DOMAIN r.buffer = 1..Len(r.buffer)
           /\ \A k \in 1..Len(r.buffer) :
                /\ r.buffer[k] \in [msg : Packet, late : BOOLEAN]
                /\ r.buffer[k].msg \in Packet /\ r.buffer[k].late \in BOOLEAN
           /\ r.at \in Nat
<1>1. /\ r.clock \in Clock /\ r.delivered \in Clock /\ r.lamport \in Nat
      /\ r.calls \in [Message -> Nat] /\ r.store \subseteq Message /\ r.ids \subseteq Message
      /\ r.buffer \in Seq([msg : Packet, late : BOOLEAN]) /\ r.at \in Nat
  BY DEF Manager
<1>2. /\ Len(r.buffer) \in Nat /\ DOMAIN r.buffer = 1..Len(r.buffer)
      /\ \A k \in 1..Len(r.buffer) : r.buffer[k] \in [msg : Packet, late : BOOLEAN]
  BY <1>1, LenProperties, ElementOfSeq
<1>3. QED
  BY <1>1, <1>2 DEF Clock

\* Merge covers both clocks, and beyond n's own component nothing else.
LEMMA MergeOK ==
    ASSUME NEW a \in Clock, NEW b \in Clock, NEW n \in Node
    PROVE  /\ Merge(a, b, n) \in Clock
           /\ \A k \in Node :
                /\ Merge(a, b, n)[k] \in Nat
                /\ a[k] <= Merge(a, b, n)[k] /\ b[k] <= Merge(a, b, n)[k]
                /\ k # n => Merge(a, b, n)[k] = a[k] \/ Merge(a, b, n)[k] = b[k]
<1>1. \A k \in Node : a[k] \in Nat /\ b[k] \in Nat
  BY DEF Clock
<1>2. \A k \in Node : /\ Larger(a[k], b[k]) \in Nat
                      /\ Larger(a[k], b[k]) >= a[k] /\ Larger(a[k], b[k]) >= b[k]
                      /\ Larger(a[k], b[k]) = a[k] \/ Larger(a[k], b[k]) = b[k]
  BY <1>1, LargerOK
<1>3. ASSUME NEW k \in Node
      PROVE  /\ Merge(a, b, n)[k] \in Nat
             /\ a[k] <= Merge(a, b, n)[k] /\ b[k] <= Merge(a, b, n)[k]
             /\ k # n => Merge(a, b, n)[k] = a[k] \/ Merge(a, b, n)[k] = b[k]
  <2>1. Merge(a, b, n)[k] = Larger(a[k], b[k]) + (IF k = n THEN 1 ELSE 0)
    BY DEF Merge
  <2>2. QED
    BY <1>1, <1>2, <2>1
<1>4. Merge(a, b, n) \in Clock
  <2>1. Merge(a, b, n) = [k \in Node |-> Merge(a, b, n)[k]]
    BY DEF Merge
  <2>2. QED
    BY <1>3, <2>1 DEF Clock
<1>5. QED
  BY <1>3, <1>4

LEMMA DeliverIs ==
    ASSUME NEW n \in Node, NEW r \in Manager, NEW p \in Packet,
           \A k \in Node : r.delivered[k] <= r.clock[k]
    PROVE  LET d == Deliver(r, n, p)
           IN /\ d \in Manager
              /\ d.clock = Merge(r.clock, p.clock, n)
              /\ d.store = r.store \union {p.id} /\ d.ids = r.ids \union {p.id}
              /\ \A k \in Node :
                   /\ r.delivered[k] <= d.delivered[k] /\ d.delivered[k] <= d.clock[k]
                   /\ k # p.sender => d.delivered[k] = r.delivered[k]
              /\ p.clock[p.sender] <= d.delivered[p.sender]
              /\ d.lamport = r.lamport /\ d.calls = r.calls
              /\ d.buffer = r.buffer /\ d.at = r.at
<1> DEFINE s == p.sender
           c == Merge(r.clock, p.clock, n)
           x == Larger(r.delivered[s], c[s])
           d == Deliver(r, n, p)
<1>1. /\ s \in Node /\ r.delivered \in Clock /\ \A k \in Node : r.delivered[k] \in Nat
      /\ p.clock \in Clock /\ r.clock \in Clock /\ p.id \in Message
      /\ \A k \in Node : p.clock[k] \in Nat /\ r.clock[k] \in Nat
  BY ManagerOK, PacketOK
<1>2. /\ c \in Clock
      /\ \A k \in Node : c[k] \in Nat /\ r.clock[k] <= c[k] /\ p.clock[k] <= c[k]
  BY <1>1, MergeOK
<1>3. /\ d = [r EXCEPT !.clock = c, !.store = @ \union {p.id}, !.ids = @ \union {p.id},
                       !.delivered[s] = x]
  BY DEF Deliver
<1> HIDE DEF d, c
<1>4. x \in Nat /\ x >= r.delivered[s] /\ x >= c[s] /\ (x = r.delivered[s] \/ x = c[s])
  BY <1>1, <1>2, LargerOK
<1> HIDE DEF x, s
<1>5. /\ d.clock = c /\ d.store = r.store \union {p.id} /\ d.ids = r.ids \union {p.id}
      /\ d.delivered = [r.delivered EXCEPT ![s] = x]
      /\ d.lamport = r.lamport /\ d.calls = r.calls /\ d.buffer = r.buffer /\ d.at = r.at
      /\ d \in Manager
  <2>1. [r.delivered EXCEPT ![s] = x] \in Clock
    BY <1>1, <1>4 DEF Clock
  <2>2. QED
    BY <1>1, <1>2, <1>3, <2>1 DEF Manager
<1>6. \A k \in Node : d.delivered[k] = IF k = s THEN x ELSE r.delivered[k]
  BY <1>1, <1>5 DEF Clock
<1>7. \A k \in Node : /\ r.delivered[k] <= d.delivered[k] /\ d.delivered[k] <= d.clock[k]
                      /\ k # s => d.delivered[k] = r.delivered[k]
  <2> SUFFICES ASSUME NEW k \in Node
               PROVE  /\ r.delivered[k] <= d.delivered[k] /\ d.delivered[k] <= d.clock[k]
                      /\ k # s => d.delivered[k] = r.delivered[k]
    OBVIOUS
  <2>1. r.delivered[k] <= r.clock[k] /\ r.clock[k] <= c[k] /\ d.clock[k] = c[k]
    BY <1>2, <1>5
  <2>2. QED
    BY <1>1, <1>2, <1>4, <1>6, <2>1
<1>8. p.clock[s] <= d.delivered[s]
  BY <1>1, <1>2, <1>4, <1>6
<1>9. QED
  BY <1>5, <1>7, <1>8 DEF d, c, s

\* A newcomer, and what is left when one goes.
LEMMA InsertIs ==
    ASSUME NEW X, NEW b \in Seq(X), NEW i \in 1..Len(b) + 1, NEW w \in X
    PROVE  /\ InsertAt(b, i, w) \in Seq(X)
           /\ \A k \in 1..Len(InsertAt(b, i, w)) :
                \/ InsertAt(b, i, w)[k] = w
                \/ \E j \in 1..Len(b) : InsertAt(b, i, w)[k] = b[j]
<1> DEFINE u == SubSeq(b, 1, i - 1)
           v == SubSeq(b, i, Len(b))
           t == u \o <<w>>
<1>1. Len(b) \in Nat /\ i \in Nat /\ i - 1 \in Nat
  BY LenProperties
<1>2. u \in Seq(X) /\ \A k \in 1..Len(u) : \E j \in 1..Len(b) : u[k] = b[j]
  <2>1. u \in Seq(X) /\ Len(u) = i - 1 /\ \A k \in 1..i - 1 : u[k] = b[k]
    BY <1>1, SubSeqProperties
  <2>2. \A k \in 1..i - 1 : k \in 1..Len(b)
    BY <1>1
  <2>3. QED
    BY <2>1, <2>2
<1>3. v \in Seq(X) /\ \A k \in 1..Len(v) : \E j \in 1..Len(b) : v[k] = b[j]
  <2>1. /\ v \in Seq(X) /\ Len(v) = IF i <= Len(b) THEN Len(b) - i + 1 ELSE 0
        /\ \A k \in 1..Len(b) - i + 1 : v[k] = b[i + k - 1]
    BY <1>1, SubSeqProperties
  <2>2. ASSUME NEW k \in 1..Len(v) PROVE i + k - 1 \in 1..Len(b) /\ k \in 1..Len(b) - i + 1
    BY <1>1, <2>1
  <2>3. QED
    BY <2>1, <2>2
<1>4. <<w>> \in Seq(X) /\ Len(<<w>>) = 1 /\ <<w>>[1] = w
  OBVIOUS
<1>5. InsertAt(b, i, w) = t \o v
  BY DEF InsertAt
<1> HIDE DEF u, v
<1>6. t \in Seq(X) /\ Len(t) = Len(u) + 1 /\ t[Len(u) + 1] = w
      /\ \A k \in 1..Len(u) : t[k] = u[k]
  BY <1>2, <1>4, ConcatProperties, LenProperties
<1>7. /\ t \o v \in Seq(X) /\ Len(t \o v) = Len(t) + Len(v)
      /\ \A k \in 1..Len(t) + Len(v) :
           (t \o v)[k] = IF k <= Len(t) THEN t[k] ELSE v[k - Len(t)]
  BY <1>3, <1>6, ConcatProperties
<1> HIDE DEF t
<1>8. ASSUME NEW k \in 1..Len(t \o v)
      PROVE  (t \o v)[k] = w \/ \E j \in 1..Len(b) : (t \o v)[k] = b[j]
  <2>1. Len(u) \in Nat /\ Len(v) \in Nat /\ Len(t) \in Nat
    BY <1>2, <1>3, <1>6, LenProperties
  <2>2. CASE k <= Len(u)
    BY <1>2, <1>6, <1>7, <2>1, <2>2
  <2>3. CASE k = Len(u) + 1
    BY <1>6, <1>7, <2>1, <2>3
  <2>4. CASE k > Len(u) + 1
    <3>1. k - Len(t) \in 1..Len(v) /\ (t \o v)[k] = v[k - Len(t)]
      BY <1>6, <1>7, <2>1, <2>4
    <3>2. QED
      BY <1>3, <3>1
  <2>5. k <= Len(u) \/ k = Len(u) + 1 \/ k > Len(u) + 1
    BY <2>1
  <2>6. QED
    BY <2>2, <2>3, <2>4, <2>5
<1>9. QED
  BY <1>5, <1>7, <1>8

LEMMA RemoveIs ==
    ASSUME NEW X, NEW b \in Seq(X), NEW i \in 1..Len(b)
    PROVE  /\ RemoveAt(b, i) \in Seq(X)
           /\ \A k \in 1..Len(RemoveAt(b, i)) : \E j \in 1..Len(b) : RemoveAt(b, i)[k] = b[j]
<1> DEFINE u == SubSeq(b, 1, i - 1)
           v == SubSeq(b, i + 1, Len(b))
<1>1. Len(b) \in Nat /\ i \in Nat /\ i - 1 \in Nat
  BY LenProperties
<1>2. u \in Seq(X) /\ \A k \in 1..Len(u) : \E j \in 1..Len(b) : u[k] = b[j]
  <2>1. u \in Seq(X) /\ Len(u) = i - 1 /\ \A k \in 1..i - 1 : u[k] = b[k]
    BY <1>1, SubSeqProperties
  <2>2. \A k \in 1..i - 1 : k \in 1..Len(b)
    BY <1>1
  <2>3. QED
    BY <2>1, <2>2
<1>3. v \in Seq(X) /\ \A k \in 1..Len(v) : \E j \in 1..Len(b) : v[k] = b[j]
  <2>1. /\ v \in Seq(X) /\ Len(v) = IF i + 1 <= Len(b) THEN Len(b) - (i + 1) + 1 ELSE 0
        /\ \A k \in 1..Len(b) - (i + 1) + 1 : v[k] = b[(i + 1) + k - 1]
    BY <1>1, SubSeqProperties
  <2>2. ASSUME NEW k \in 1..Len(v)
        PROVE (i + 1) + k - 1 \in 1..Len(b) /\ k \in 1..Len(b) - (i + 1) + 1
    BY <1>1, <2>1
  <2>3. QED
    BY <2>1, <2>2
<1>4. RemoveAt(b, i) = u \o v
  BY DEF RemoveAt
<1> HIDE DEF u, v
<1>5. /\ u \o v \in Seq(X) /\ Len(u \o v) = Len(u) + Len(v)
      /\ \A k \in 1..Len(u) + Len(v) :
           (u \o v)[k] = IF k <= Len(u) THEN u[k] ELSE v[k - Len(u)]
  BY <1>2, <1>3, ConcatProperties
<1>6. ASSUME NEW k \in 1..Len(u \o v) PROVE \E j \in 1..Len(b) : (u \o v)[k] = b[j]
  <2>1. Len(u) \in Nat /\ Len(v) \in Nat
    BY <1>2, <1>3, LenProperties
  <2>2. CASE k <= Len(u)
    BY <1>2, <1>5, <2>1, <2>2
  <2>3. CASE k > Len(u)
    <3>1. k - Len(u) \in 1..Len(v) /\ (u \o v)[k] = v[k - Len(u)]
      BY <1>5, <2>1, <2>3
    <3>2. QED
      BY <1>3, <3>1
  <2>4. QED
    BY <2>1, <2>2, <2>3
<1>7. QED
  BY <1>4, <1>5, <1>6

LEMMA PlaceOK ==
    ASSUME NEW X, NEW b \in Seq(X), NEW p PROVE Place(b, p) \in 1..Len(b) + 1
<1> DEFINE S == {k \in DOMAIN b : ~Before(p, b[k].msg)}
<1>1. Len(b) \in Nat /\ DOMAIN b = 1..Len(b)
  BY LenProperties
<1>2. IsFiniteSet(1..Len(b)) /\ Cardinality(1..Len(b)) = Len(b)
  BY <1>1, FS_Interval
<1>3. S \subseteq 1..Len(b)
  BY <1>1
<1> HIDE DEF S
<1>4. Cardinality(S) \in Nat /\ Cardinality(S) <= Len(b)
  BY <1>2, <1>3, FS_Subset, FS_CardinalityType
<1>5. Place(b, p) = Cardinality(S) + 1
  BY DEF Place, S
<1>6. QED
  BY <1>1, <1>4, <1>5

\* A flush lets the lock go when nothing in the buffer can be delivered.
LEMMA FlushIs ==
    ASSUME NEW r \in Manager, NEW i \in Nat \ {0}
    PROVE  LET f == FlushFrom(r, i)
           IN /\ f \in Manager /\ f.at \in 0..Len(r.buffer)
              /\ f.at = 0 => \A k \in 1..Len(r.buffer) :
                               ~CanDeliver(r.delivered, r.buffer[k].msg)
              /\ f.clock = r.clock /\ f.lamport = r.lamport /\ f.store = r.store
              /\ f.calls = r.calls /\ f.delivered = r.delivered /\ f.ids = r.ids
              /\ f.buffer = r.buffer
<1> DEFINE at == IF Due(r, i) # {} THEN i ELSE IF Due(r, 1) # {} THEN 1 ELSE 0
<1>1. FlushFrom(r, i) = [r EXCEPT !.at = at]
  BY DEF FlushFrom
<1>2. Len(r.buffer) \in Nat
  BY ManagerOK
<1>3. /\ Due(r, i) # {} => i \in 1..Len(r.buffer)
      /\ Due(r, 1) # {} => 1 \in 1..Len(r.buffer)
  BY <1>2 DEF Due
<1>4. at \in Nat /\ at \in 0..Len(r.buffer) /\ (at = 0 => Due(r, 1) = {})
  BY <1>2, <1>3
<1> HIDE DEF at
<1>5. Due(r, 1) = {} => \A k \in 1..Len(r.buffer) : ~CanDeliver(r.delivered, r.buffer[k].msg)
  BY DEF Due
<1>6. QED
  BY <1>1, <1>4, <1>5 DEF Manager

-----------------------------------------------------------------------------
(* One node.                                                               *)

Closed(r, pa) == \A m \in r.store : pa[m] \subseteq r.store

LEMMA DeliverKeepsStore ==
    ASSUME NEW S \in SUBSET Packet, NEW pa, PastOK(S, pa), NEW n \in Node, NEW r \in Manager,
           StoreOK(n, r, S, pa), NEW p \in S, Arrived(n, r, S, p)
    PROVE  StoreOK(n, Deliver(r, n, p), S, pa)
<1> DEFINE d == Deliver(r, n, p)
<1>1. /\ p \in Packet /\ p.sender # n /\ p.lamport <= r.lamport /\ p.sender \in Node
      /\ \A k \in Node : p.clock[k] \in Nat /\ r.clock[k] \in Nat
      /\ p.clock \in Clock /\ r.clock \in Clock
  BY PacketOK, ManagerOK DEF Arrived
<1>2. /\ d \in Manager /\ d.clock = Merge(r.clock, p.clock, n)
      /\ d.store = r.store \union {p.id} /\ d.ids = r.ids \union {p.id}
      /\ \A k \in Node :
           /\ r.delivered[k] <= d.delivered[k] /\ d.delivered[k] <= d.clock[k]
           /\ k # p.sender => d.delivered[k] = r.delivered[k]
      /\ p.clock[p.sender] <= d.delivered[p.sender]
      /\ d.lamport = r.lamport
  BY <1>1, DeliverIs DEF StoreOK
<1> HIDE DEF d
<1>3. \A k \in Node : /\ d.clock[k] \in Nat /\ d.delivered[k] \in Nat /\ r.delivered[k] \in Nat
                      /\ r.clock[k] <= d.clock[k] /\ p.clock[k] <= d.clock[k]
                      /\ k # n => d.clock[k] = r.clock[k] \/ d.clock[k] = p.clock[k]
  <2>1. \A k \in Node : d.delivered[k] \in Nat /\ r.delivered[k] \in Nat
    BY <1>2, ManagerOK
  <2>2. \A k \in Node :
          /\ d.clock[k] \in Nat /\ r.clock[k] <= d.clock[k] /\ p.clock[k] <= d.clock[k]
          /\ k # n => d.clock[k] = r.clock[k] \/ d.clock[k] = p.clock[k]
    <3> DEFINE c == Merge(r.clock, p.clock, n)
    <3>1. \A k \in Node : /\ c[k] \in Nat /\ r.clock[k] <= c[k] /\ p.clock[k] <= c[k]
                          /\ k # n => c[k] = r.clock[k] \/ c[k] = p.clock[k]
      BY <1>1, MergeOK
    <3>2. d.clock = c
      BY <1>2
    <3> HIDE DEF c
    <3>3. QED
      BY <3>1, <3>2
  <2>3. QED
    BY <2>1, <2>2
<1>4. d.ids \subseteq d.store /\ \A m \in d.store : \E q \in S : q.id = m
  BY <1>2 DEF StoreOK
<1>5. ASSUME NEW q \in S, q.id \in d.store
      PROVE  /\ \A k \in Node : q.clock[k] <= d.clock[k]
             /\ q.lamport <= d.lamport
             /\ q.sender # n => q.clock[q.sender] <= d.delivered[q.sender]
  <2>1. q \in Packet /\ q.sender \in Node /\ \A k \in Node : q.clock[k] \in Nat
    BY PacketOK
  <2>2. CASE q = p
    BY <1>1, <1>2, <1>3, <2>2
  <2>3. CASE q.id \in r.store
    <3>1. /\ \A k \in Node : q.clock[k] <= r.clock[k]
          /\ q.lamport <= r.lamport
          /\ q.sender # n => q.clock[q.sender] <= r.delivered[q.sender]
      BY <2>3 DEF StoreOK
    <3>2. \A k \in Node : q.clock[k] <= d.clock[k]
      <4> SUFFICES ASSUME NEW k \in Node PROVE q.clock[k] <= d.clock[k]
        OBVIOUS
      <4>1. q.clock[k] <= r.clock[k] /\ r.clock[k] <= d.clock[k]
        BY <1>3, <3>1
      <4>2. QED
        BY <1>1, <1>3, <2>1, <4>1
    <3>3. q.sender # n => q.clock[q.sender] <= d.delivered[q.sender]
      <4>1. r.delivered[q.sender] <= d.delivered[q.sender]
        BY <1>2, <2>1
      <4>2. QED
        BY <1>3, <2>1, <3>1, <4>1
    <3>4. QED
      BY <1>2, <3>1, <3>2, <3>3
  <2>4. q = p \/ q.id \in r.store
    BY <1>2, <1>5 DEF PastOK
  <2>5. QED
    BY <2>2, <2>3, <2>4
<1>6. ASSUME NEW q \in S, q.clock[q.sender] <= d.clock[q.sender] PROVE Knows(d, pa, q.id)
  <2>1. q \in Packet /\ q.sender \in Node /\ \A k \in Node : q.clock[k] \in Nat
    BY PacketOK
  <2>2. CASE q.sender = n
    BY <1>2, <2>2 DEF StoreOK, Knows
  <2>3. CASE q.clock[q.sender] <= r.clock[q.sender]
    <3>1. Knows(r, pa, q.id)
      BY <2>3 DEF StoreOK
    <3>2. QED
      BY <1>2, <3>1 DEF Knows
  <2>4. CASE q.clock[q.sender] <= p.clock[q.sender]
    <3>1. q = p \/ q.id \in pa[p.id]
      BY <2>4 DEF PastOK
    <3>2. QED
      BY <1>2, <3>1 DEF Knows
  <2>5. QED
    BY <1>3, <1>6, <2>1, <2>2, <2>3, <2>4
<1>7. \A q \in S : q.sender = n => q.id \in d.store
  BY <1>2 DEF StoreOK
<1>8. StoreOK(n, d, S, pa)
  BY <1>2, <1>4, <1>5, <1>6, <1>7 DEF StoreOK
<1>9. QED
  BY <1>8 DEF d

\* The condition of delivery is met by no message that lacks a cause.
LEMMA CausesAreThere ==
    ASSUME NEW S \in SUBSET Packet, NEW pa, PastOK(S, pa), NEW n \in Node, NEW r \in Manager,
           StoreOK(n, r, S, pa), Closed(r, pa), NEW p \in S, p.sender # n,
           pa[p.id] \subseteq {q.id : q \in S}, CanDeliver(r.delivered, p)
    PROVE  pa[p.id] \subseteq r.store
<1> SUFFICES ASSUME NEW q \in S, q.id \in pa[p.id] PROVE q.id \in r.store
  OBVIOUS
<1> DEFINE k == q.sender
<1>1. k \in Node /\ \A j \in Node : /\ q.clock[j] \in Nat /\ p.clock[j] \in Nat
                                    /\ r.clock[j] \in Nat /\ r.delivered[j] \in Nat
  BY PacketOK, ManagerOK
<1>2. /\ p.sender \in Node
      /\ \A j \in Node : q.clock[j] <= p.clock[j]
      /\ q.clock[p.sender] < p.clock[p.sender]
  BY PacketOK DEF PastOK
<1>3. CASE k = n
  BY <1>3 DEF StoreOK
<1>4. CASE k # n
  <2>1. q.clock[k] <= r.delivered[k]
    <3>1. CASE k = p.sender
      <4>1. p.clock[k] = r.delivered[k] + 1 /\ q.clock[k] < p.clock[k]
        BY <1>1, <1>2, <3>1 DEF CanDeliver
      <4> HIDE DEF k
      <4>2. QED
        BY <1>1, <4>1
    <3>2. CASE k # p.sender
      <4>1. p.clock[k] <= r.delivered[k] /\ q.clock[k] <= p.clock[k]
        BY <1>1, <1>2, <3>2 DEF CanDeliver
      <4> HIDE DEF k
      <4>2. QED
        BY <1>1, <4>1
    <3>3. QED
      BY <3>1, <3>2
  <2>2. r.delivered[k] <= r.clock[k]
    BY <1>1 DEF StoreOK
  <2>3. q.clock[k] <= r.clock[k]
    <3> HIDE DEF k
    <3>1. QED
      BY <1>1, <2>1, <2>2
  <2>4. Knows(r, pa, q.id)
    BY <2>3 DEF StoreOK
  <2>5. QED
    BY <2>4 DEF Knows, Closed
<1>5. QED
  BY <1>3, <1>4

\* A message leaves the buffer, and the flush goes on.
LEMMA ReleaseIs ==
    ASSUME NEW n \in Node, NEW r \in Manager, NEW k \in 1..Len(r.buffer),
           \A j \in Node : r.delivered[j] <= r.clock[j]
    PROVE  LET f == Release(r, n, k)
               d == Deliver(r, n, r.buffer[k].msg)
           IN /\ f \in Manager /\ f.at \in 0..Len(f.buffer)
              /\ f.at = 0 => \A j \in 1..Len(f.buffer) :
                               ~CanDeliver(f.delivered, f.buffer[j].msg)
              /\ f.clock = d.clock /\ f.store = d.store /\ f.delivered = d.delivered
              /\ f.ids = d.ids /\ f.lamport = r.lamport /\ f.calls = r.calls
              /\ \A j \in 1..Len(f.buffer) : \E h \in 1..Len(r.buffer) : f.buffer[j] = r.buffer[h]
<1> DEFINE X == [msg : Packet, late : BOOLEAN]
           d == Deliver(r, n, r.buffer[k].msg)
           b == RemoveAt(r.buffer, k)
           e == [d EXCEPT !.buffer = b]
           f == FlushFrom(e, k)
<1>1. r.buffer[k].msg \in Packet /\ r.buffer \in Seq(X) /\ k \in Nat \ {0}
  <2>1. r.buffer[k].msg \in Packet /\ r.buffer \in Seq(X) /\ Len(r.buffer) \in Nat
    BY ManagerOK
  <2>2. QED
    BY <2>1
<1>2. /\ d \in Manager /\ d.lamport = r.lamport /\ d.calls = r.calls /\ d.buffer = r.buffer
  BY <1>1, DeliverIs
<1> HIDE DEF d
<1>3. b \in Seq(X) /\ \A j \in 1..Len(b) : \E h \in 1..Len(r.buffer) : b[j] = r.buffer[h]
  BY <1>1, RemoveIs
<1> HIDE DEF b
<1>4. /\ e \in Manager /\ e.buffer = b /\ e.clock = d.clock /\ e.store = d.store
      /\ e.delivered = d.delivered /\ e.ids = d.ids /\ e.lamport = d.lamport
      /\ e.calls = d.calls
  BY <1>2, <1>3 DEF Manager
<1>5. Release(r, n, k) = f
  BY <1>2 DEF Release, d, b
<1> HIDE DEF e
<1>6. /\ f \in Manager /\ f.at \in 0..Len(e.buffer)
      /\ f.at = 0 => \A j \in 1..Len(e.buffer) : ~CanDeliver(e.delivered, e.buffer[j].msg)
      /\ f.clock = e.clock /\ f.lamport = e.lamport /\ f.store = e.store
      /\ f.calls = e.calls /\ f.delivered = e.delivered /\ f.ids = e.ids /\ f.buffer = e.buffer
  BY <1>1, <1>4, FlushIs
<1> HIDE DEF f
<1>7. /\ f.at = 0 => \A j \in 1..Len(f.buffer) : ~CanDeliver(f.delivered, f.buffer[j].msg)
      /\ f.at \in 0..Len(f.buffer)
  BY <1>6
<1>8. \A j \in 1..Len(f.buffer) : \E h \in 1..Len(r.buffer) : f.buffer[j] = r.buffer[h]
  BY <1>3, <1>4, <1>6
<1>9. QED
  BY <1>2, <1>4, <1>5, <1>6, <1>7, <1>8 DEF d

LEMMA ReleaseKeeps ==
    ASSUME NEW S \in SUBSET Packet, NEW pa, PastOK(S, pa), NEW n \in Node, NEW r,
           NodeOK(n, r, S, pa), NEW k \in 1..Len(r.buffer),
           \A p \in S : pa[p.id] \subseteq {q.id : q \in S}
    PROVE  /\ NodeOK(n, Release(r, n, k), S, pa)
           /\ /\ Orderly(r, pa)
              /\ r.buffer[k].late \/ CanDeliver(r.delivered, r.buffer[k].msg)
              => Orderly(Release(r, n, k), pa)
<1> DEFINE f == Release(r, n, k)
           p == r.buffer[k].msg
           d == Deliver(r, n, p)
<1>1. /\ r \in Manager /\ StoreOK(n, r, S, pa) /\ WaitOK(n, r, S)
      /\ \A j \in 1..Len(r.buffer) : Arrived(n, r, S, r.buffer[j].msg)
  BY DEF NodeOK, WaitOK
<1>2. p \in S /\ p.sender # n /\ Arrived(n, r, S, p) /\ p \in Packet
  BY <1>1 DEF Arrived
<1>3. \A j \in Node : r.delivered[j] <= r.clock[j]
  BY <1>1 DEF StoreOK
<1>4. /\ f \in Manager /\ f.at \in 0..Len(f.buffer)
      /\ f.at = 0 => \A j \in 1..Len(f.buffer) : ~CanDeliver(f.delivered, f.buffer[j].msg)
      /\ f.clock = d.clock /\ f.store = d.store /\ f.delivered = d.delivered
      /\ f.ids = d.ids /\ f.lamport = r.lamport /\ f.calls = r.calls
      /\ \A j \in 1..Len(f.buffer) : \E h \in 1..Len(r.buffer) : f.buffer[j] = r.buffer[h]
  BY <1>1, <1>3, ReleaseIs
<1>5. d.store = r.store \union {p.id} /\ d.lamport = r.lamport
  BY <1>1, <1>2, <1>3, DeliverIs
<1> HIDE DEF f
<1>6. StoreOK(n, f, S, pa)
  <2>1. StoreOK(n, d, S, pa)
    BY <1>1, <1>2, DeliverKeepsStore
  <2> HIDE DEF d
  <2>2. QED
    BY <1>4, <1>5, <2>1 DEF StoreOK, Knows
<1>7. WaitOK(n, f, S)
  <2>1. \A j \in 1..Len(f.buffer) : Arrived(n, f, S, f.buffer[j].msg)
    BY <1>1, <1>4 DEF Arrived
  <2>2. \A m \in Message : f.calls[m] > 0 => \E q \in S : q.id = m /\ Arrived(n, f, S, q)
    BY <1>1, <1>4 DEF Arrived, WaitOK
  <2>3. QED
    BY <1>4, <2>1, <2>2 DEF WaitOK
<1>8. ASSUME Orderly(r, pa), r.buffer[k].late \/ CanDeliver(r.delivered, p)
      PROVE  Orderly(f, pa)
  <2>1. CanDeliver(r.delivered, p) /\ Closed(r, pa)
    BY <1>8 DEF Orderly, Closed
  <2>2. pa[p.id] \subseteq r.store
    <3>1. pa[p.id] \subseteq {q.id : q \in S}
      BY <1>2
    <3> HIDE DEF p
    <3>2. QED
      BY <1>1, <1>2, <2>1, <3>1, CausesAreThere
  <2>3. \A m \in f.store : pa[m] \subseteq f.store
    BY <1>4, <1>5, <2>1, <2>2 DEF Closed
  <2>4. \A j \in 1..Len(f.buffer) : ~f.buffer[j].late
    BY <1>4, <1>8 DEF Orderly
  <2>5. QED
    BY <2>3, <2>4 DEF Orderly
<1>9. QED
  BY <1>4, <1>6, <1>7, <1>8 DEF NodeOK, f

\* Only the Lamport clock and what has not been delivered may have changed.
LEMMA SameStore ==
    ASSUME NEW S \in SUBSET Packet, NEW pa, NEW n \in Node, NEW r \in Manager, NEW z \in Manager,
           StoreOK(n, r, S, pa), z.clock = r.clock, z.store = r.store, z.ids = r.ids,
           z.delivered = r.delivered, r.lamport <= z.lamport
    PROVE  StoreOK(n, z, S, pa)
<1>1. ASSUME NEW q \in S, q.id \in z.store PROVE q.lamport <= z.lamport
  <2>1. q.lamport \in Nat /\ r.lamport \in Nat /\ z.lamport \in Nat
    BY PacketOK, ManagerOK
  <2>2. q.lamport <= r.lamport
    BY <1>1 DEF StoreOK
  <2>3. QED
    BY <2>1, <2>2
<1>2. QED
  BY <1>1 DEF StoreOK, Knows

LEMMA StillArrived ==
    ASSUME NEW S \in SUBSET Packet, NEW n \in Node, NEW r \in Manager, NEW z \in Manager,
           r.lamport <= z.lamport, NEW q, Arrived(n, r, S, q)
    PROVE  Arrived(n, z, S, q)
<1>1. q.lamport \in Nat /\ r.lamport \in Nat /\ z.lamport \in Nat
  BY PacketOK, ManagerOK DEF Arrived
<1>2. QED
  BY <1>1 DEF Arrived

LEMMA BufferedKeeps ==
    ASSUME NEW S \in SUBSET Packet, NEW pa, NEW n \in Node, NEW r,
           NodeOK(n, r, S, pa), NEW p \in S, Arrived(n, r, S, p)
    PROVE  /\ NodeOK(n, Buffered(r, p), S, pa) /\ Buffered(r, p).clock = r.clock
           /\ Orderly(r, pa) => Orderly(Buffered(r, p), pa)
<1>1. r \in Manager /\ StoreOK(n, r, S, pa) /\ WaitOK(n, r, S)
  BY DEF NodeOK
<1>2. CASE p.id \in r.ids
  BY <1>2 DEF Buffered
<1>3. CASE p.id \notin r.ids
  <2> DEFINE X == [msg : Packet, late : BOOLEAN]
             w == [msg |-> p, late |-> FALSE]
             b == InsertAt(r.buffer, Place(r.buffer, p), w)
             e == [r EXCEPT !.buffer = b]
             f == FlushFrom(e, 1)
  <2>1. r.buffer \in Seq(X) /\ w \in X /\ r.lamport <= r.lamport
    <3>1. r.buffer \in Seq(X) /\ r.lamport \in Nat
      BY <1>1, ManagerOK
    <3>2. p \in Packet
      OBVIOUS
    <3>3. QED
      BY <3>1, <3>2
  <2>2. Place(r.buffer, p) \in 1..Len(r.buffer) + 1
    BY <2>1, PlaceOK
  <2>3. b \in Seq(X)
        /\ \A k \in 1..Len(b) : b[k] = w \/ \E j \in 1..Len(r.buffer) : b[k] = r.buffer[j]
    <3> DEFINE i == Place(r.buffer, p)
               a == r.buffer
    <3>1. a \in Seq(X) /\ i \in 1..Len(a) + 1 /\ w \in X /\ b = InsertAt(a, i, w)
      BY <2>1, <2>2
    <3> HIDE DEF w, X, i, a, b
    <3>2. b \in Seq(X) /\ \A k \in 1..Len(b) : b[k] = w \/ \E j \in 1..Len(a) : b[k] = a[j]
      BY <3>1, InsertIs
    <3>3. QED
      BY <3>2 DEF a
  <2>4. Buffered(r, p) = f
    BY <1>3 DEF Buffered
  <2>5. w.msg = p /\ w.late = FALSE
    OBVIOUS
  <2> HIDE DEF b, w
  <2>6. /\ e \in Manager /\ e.buffer = b /\ e.clock = r.clock /\ e.store = r.store
        /\ e.delivered = r.delivered /\ e.ids = r.ids /\ e.lamport = r.lamport
        /\ e.calls = r.calls
    BY <1>1, <2>3 DEF Manager
  <2> HIDE DEF e
  <2>7. /\ f \in Manager /\ f.at \in 0..Len(e.buffer)
        /\ f.at = 0 => \A j \in 1..Len(e.buffer) : ~CanDeliver(e.delivered, e.buffer[j].msg)
        /\ f.clock = e.clock /\ f.lamport = e.lamport /\ f.store = e.store
        /\ f.calls = e.calls /\ f.delivered = e.delivered /\ f.ids = e.ids /\ f.buffer = e.buffer
    BY <2>6, FlushIs
  <2> HIDE DEF f
  <2>8. StoreOK(n, f, S, pa)
    BY <1>1, <2>1, <2>6, <2>7, SameStore
  <2>9. WaitOK(n, f, S)
    <3>1. \A k \in 1..Len(f.buffer) : Arrived(n, f, S, f.buffer[k].msg)
      BY <1>1, <2>3, <2>5, <2>6, <2>7 DEF Arrived, WaitOK
    <3>2. \A m \in Message : f.calls[m] > 0 => \E q \in S : q.id = m /\ Arrived(n, f, S, q)
      BY <1>1, <2>6, <2>7 DEF Arrived, WaitOK
    <3>3. f.at = 0 => \A k \in 1..Len(f.buffer) : ~CanDeliver(f.delivered, f.buffer[k].msg)
      BY <2>7
    <3>4. QED
      BY <2>7, <3>1, <3>2, <3>3 DEF WaitOK
  <2>10. Orderly(r, pa) => Orderly(f, pa)
    BY <2>3, <2>5, <2>6, <2>7 DEF Orderly
  <2>11. QED
    BY <2>4, <2>6, <2>7, <2>8, <2>9, <2>10 DEF NodeOK
<1>4. QED
  BY <1>2, <1>3

-----------------------------------------------------------------------------
(* The steps that send nothing.                                            *)

\* n does something with what it has.
LEMMA NodeKeeps ==
    ASSUME IInv, NEW n \in Node, NEW r, NodeOK(n, r, sent, past),
           rm' = [rm EXCEPT ![n] = r], UNCHANGED <<sent, past>>, extras' \in 0..MaxExtras,
           \A k \in Node \ {n} : \/ r.clock[k] = rm[n].clock[k]
                                \/ \E p \in sent : r.clock[k] = p.clock[k],
           rm[n].clock[n] <= r.clock[n],
           forced' \in {forced, forced \union {n}},
           n \notin forced' /\ Orderly(rm[n], past) => Orderly(r, past)
    PROVE  IInv'
<1>1. /\ rm \in [Node -> Manager] /\ r \in Manager /\ ClocksOK(rm, sent)
      /\ sent \subseteq Packet /\ forced \subseteq Node
      /\ \A j \in Node : NodeOK(j, rm[j], sent, past)
      /\ \A j \in Node \ forced : Orderly(rm[j], past)
  BY DEF IInv, NodeOK
<1>2. /\ rm' \in [Node -> Manager] /\ rm'[n] = r
      /\ \A j \in Node \ {n} : rm'[j] = rm[j]
  BY <1>1
<1>3. \A j, k \in Node : rm[j].clock[k] \in Nat /\ r.clock[k] \in Nat
  BY <1>1, ManagerOK
<1>4. ClocksOK(rm', sent)
  <2>1. ASSUME NEW j \in Node, NEW k \in Node PROVE rm'[j].clock[k] <= rm'[k].clock[k]
    <3>1. rm[j].clock[k] <= rm[k].clock[k] /\ rm[n].clock[k] <= rm[k].clock[k]
      BY <1>1 DEF ClocksOK
    <3>2. CASE k = n
      BY <1>2, <1>3, <3>1, <3>2
    <3>3. CASE k # n
      <4>1. r.clock[k] <= rm[k].clock[k]
        BY <1>1, <3>1, <3>3 DEF ClocksOK
      <4>2. QED
        BY <1>2, <3>1, <3>3, <4>1
    <3>4. QED
      BY <3>2, <3>3
  <2>2. ASSUME NEW p \in sent, NEW k \in Node PROVE p.clock[k] <= rm'[k].clock[k]
    <3>1. p.clock[k] <= rm[k].clock[k] /\ p.clock[k] \in Nat
      BY <1>1, PacketOK DEF ClocksOK
    <3>2. CASE k = n
      BY <1>2, <1>3, <3>1, <3>2
    <3>3. CASE k # n
      BY <1>2, <3>1, <3>3
    <3>4. QED
      BY <3>2, <3>3
  <2>3. ASSUME NEW j \in Node, NEW k \in Node, j # k PROVE Sourced(rm'[j].clock, k, sent)
    <3>1. Sourced(rm[j].clock, k, sent)
      BY <1>1, <2>3 DEF ClocksOK
    <3>2. ASSUME j = n PROVE Sourced(r.clock, k, sent)
      <4>1. CASE r.clock[k] = rm[n].clock[k]
        BY <3>1, <3>2, <4>1 DEF Sourced
      <4>2. ASSUME NEW p \in sent, r.clock[k] = p.clock[k] PROVE Sourced(r.clock, k, sent)
        <5>1. p.sender # k => Sourced(p.clock, k, sent)
          BY <1>1 DEF ClocksOK
        <5>2. QED
          BY <4>2, <5>1 DEF Sourced
      <4>3. QED
        BY <2>3, <3>2, <4>1, <4>2
    <3>3. QED
      BY <1>2, <3>1, <3>2
  <2>4. QED
    BY <1>1, <2>1, <2>2, <2>3 DEF ClocksOK
<1>5. \A j \in Node : NodeOK(j, rm'[j], sent, past)
  BY <1>1, <1>2
<1>6. \A j \in Node \ forced' : Orderly(rm'[j], past)
  BY <1>1, <1>2
<1>7. forced' \subseteq Node
  BY <1>1
<1>8. /\ sent' = sent /\ past' = past /\ Created' = Created /\ PastOK(sent, past)
      /\ past \in [Message -> SUBSET Created]
  BY DEF IInv, Created
<1>9. QED
  BY <1>1, <1>2, <1>4, <1>5, <1>6, <1>7, <1>8 DEF IInv

LEMMA NodeIs ==
    ASSUME IInv, NEW n \in Node
    PROVE  /\ rm[n] \in Manager /\ NodeOK(n, rm[n], sent, past)
           /\ StoreOK(n, rm[n], sent, past) /\ WaitOK(n, rm[n], sent)
           /\ sent \in SUBSET Packet /\ PastOK(sent, past)
           /\ \A k \in Node : rm[n].clock[k] <= rm[k].clock[k] /\ rm[n].clock[k] \in Nat
           /\ \A k \in Node : rm[n].clock[k] <= rm[n].clock[k]
<1>1. /\ rm[n] \in Manager /\ NodeOK(n, rm[n], sent, past) /\ sent \in SUBSET Packet
      /\ PastOK(sent, past) /\ \A k \in Node : rm[n].clock[k] <= rm[k].clock[k]
  BY DEF IInv, ClocksOK
<1>2. \A k \in Node : rm[n].clock[k] \in Nat
  BY <1>1, ManagerOK
<1>3. QED
  BY <1>1, <1>2 DEF NodeOK

LEMMA ReceiveKeeps ==
    ASSUME IInv, NEW n \in Node, NEW p \in sent, ReceiveReplica(n, p) PROVE IInv'
<1> DEFINE r == rm[n]
           L == LamportUpdate(r.lamport, p.lamport)
           z == [r EXCEPT !.lamport = L, !.calls[p.id] = @ + 1]
<1>1. /\ r \in Manager /\ StoreOK(n, r, sent, past) /\ WaitOK(n, r, sent)
      /\ sent \in SUBSET Packet /\ rm \in [Node -> Manager]
  BY NodeIs DEF IInv
<1>2. /\ p.lamport \in Nat /\ r.lamport \in Nat /\ p.id \in Message
      /\ r.calls \in [Message -> Nat]
  BY <1>1, PacketOK, ManagerOK
<1>3. L \in Nat /\ r.lamport <= L /\ p.lamport <= L
  <2>1. /\ Larger(r.lamport, p.lamport) \in Nat /\ Larger(r.lamport, p.lamport) >= r.lamport
        /\ Larger(r.lamport, p.lamport) >= p.lamport
    BY <1>2, LargerOK
  <2>2. QED
    BY <1>2, <2>1 DEF LamportUpdate
<1>4. rm' = [rm EXCEPT ![n] = z]
  BY <1>1 DEF ReceiveReplica
<1> HIDE DEF L
<1>5. /\ z \in Manager /\ z.lamport = L /\ z.calls = [r.calls EXCEPT ![p.id] = @ + 1]
      /\ z.clock = r.clock /\ z.store = r.store /\ z.delivered = r.delivered /\ z.ids = r.ids
      /\ z.buffer = r.buffer /\ z.at = r.at
  <2>1. [r.calls EXCEPT ![p.id] = @ + 1] \in [Message -> Nat]
    BY <1>2
  <2>2. QED
    BY <1>1, <1>3, <2>1 DEF Manager
<1> HIDE DEF z
<1>6. StoreOK(n, z, sent, past)
  BY <1>1, <1>3, <1>5, SameStore
<1>7. WaitOK(n, z, sent)
  <2>1. \A q : Arrived(n, r, sent, q) => Arrived(n, z, sent, q)
    BY <1>1, <1>3, <1>5, StillArrived
  <2>2. Arrived(n, z, sent, p)
    BY <1>3, <1>5 DEF Arrived, ReceiveReplica
  <2>3. \A m \in Message : z.calls[m] > 0 => \E q \in sent : q.id = m /\ Arrived(n, z, sent, q)
    <3> SUFFICES ASSUME NEW m \in Message, z.calls[m] > 0
                 PROVE  \E q \in sent : q.id = m /\ Arrived(n, z, sent, q)
      OBVIOUS
    <3>1. CASE m = p.id
      BY <2>2, <3>1
    <3>2. CASE m # p.id
      <4>1. r.calls[m] > 0
        BY <1>2, <1>5, <3>2
      <4>2. QED
        BY <1>1, <2>1, <4>1 DEF WaitOK
    <3>3. QED
      BY <3>1, <3>2
  <2>4. QED
    BY <1>1, <1>5, <2>1, <2>3 DEF WaitOK
<1>8. NodeOK(n, z, sent, past) /\ (Orderly(r, past) => Orderly(z, past))
  BY <1>5, <1>6, <1>7 DEF NodeOK, Orderly
<1>9. extras' \in 0..MaxExtras
  BY BoundsOK DEF ReceiveReplica, IInv
<1>10. z.clock = rm[n].clock /\ rm[n].clock[n] <= z.clock[n]
  BY <1>5, NodeIs
<1>11. QED
  BY <1>4, <1>8, <1>9, <1>10, NodeKeeps DEF ReceiveReplica

LEMMA TryKeeps ==
    ASSUME IInv, NEW n \in Node, NEW p \in sent, TryDeliver(n, p) PROVE IInv'
<1> DEFINE r == rm[n]
           z == [r EXCEPT !.calls[p.id] = @ - 1]
           b == Buffered(z, p)
<1>1. /\ r \in Manager /\ StoreOK(n, r, sent, past) /\ WaitOK(n, r, sent)
      /\ sent \in SUBSET Packet /\ rm \in [Node -> Manager] /\ PastOK(sent, past)
  BY NodeIs DEF IInv
<1>2. /\ r.lamport \in Nat /\ p.id \in Message /\ r.calls \in [Message -> Nat]
      /\ r.calls[p.id] > 0
  BY <1>1, PacketOK, ManagerOK DEF TryDeliver
<1>3. rm' = [rm EXCEPT ![n] = b]
  BY DEF TryDeliver
<1>4. /\ z \in Manager /\ z.calls = [r.calls EXCEPT ![p.id] = @ - 1] /\ z.lamport = r.lamport
      /\ z.clock = r.clock /\ z.store = r.store /\ z.delivered = r.delivered /\ z.ids = r.ids
      /\ z.buffer = r.buffer /\ z.at = r.at
  <2>1. [r.calls EXCEPT ![p.id] = @ - 1] \in [Message -> Nat]
    BY <1>2
  <2>2. QED
    BY <1>1, <2>1 DEF Manager
<1> HIDE DEF z
<1>5. r.lamport <= z.lamport
  BY <1>2, <1>4
<1>6. StoreOK(n, z, sent, past)
  BY <1>1, <1>4, <1>5, SameStore
<1>7. WaitOK(n, z, sent)
  <2>1. \A q : Arrived(n, r, sent, q) => Arrived(n, z, sent, q)
    BY <1>4 DEF Arrived
  <2>2. \A m \in Message : z.calls[m] > 0 => r.calls[m] > 0
    BY <1>2, <1>4
  <2>3. QED
    BY <1>1, <1>4, <2>1, <2>2 DEF WaitOK
<1>8. NodeOK(n, z, sent, past) /\ (Orderly(r, past) => Orderly(z, past))
  BY <1>4, <1>6, <1>7 DEF NodeOK, Orderly
<1>9. Arrived(n, z, sent, p)
  <2>1. PICK q \in sent : q.id = p.id /\ Arrived(n, r, sent, q)
    BY <1>1, <1>2 DEF WaitOK
  <2>2. q = p
    BY <1>1, <2>1 DEF PastOK
  <2>3. QED
    BY <1>4, <2>1, <2>2 DEF Arrived
<1>10. /\ NodeOK(n, b, sent, past) /\ b.clock = z.clock
       /\ Orderly(z, past) => Orderly(b, past)
  BY <1>1, <1>8, <1>9, BufferedKeeps
<1> HIDE DEF b
<1>11. b.clock = rm[n].clock /\ rm[n].clock[n] <= b.clock[n]
  BY <1>4, <1>10, NodeIs
<1>12. extras' \in 0..MaxExtras /\ forced' = forced /\ UNCHANGED <<sent, past>>
  BY DEF TryDeliver, IInv
<1>13. QED
  BY <1>3, <1>8, <1>10, <1>11, <1>12, NodeKeeps

LEMMA DeliverNextKeeps ==
    ASSUME IInv, NEW n \in Node, DeliverNext(n) PROVE IInv'
<1> DEFINE r == rm[n]
<1>1. /\ r \in Manager /\ NodeOK(n, r, sent, past) /\ StoreOK(n, r, sent, past)
      /\ WaitOK(n, r, sent) /\ sent \in SUBSET Packet /\ PastOK(sent, past)
  BY NodeIs
<1>2. PICK k \in Due(r, r.at) : rm' = [rm EXCEPT ![n] = Release(r, n, k)]
  BY DEF DeliverNext, IInv
<1> DEFINE p == r.buffer[k].msg
           z == Release(r, n, k)
           d == Deliver(r, n, p)
<1>3. k \in 1..Len(r.buffer) /\ (r.buffer[k].late \/ CanDeliver(r.delivered, p))
  <2>1. r.at \in Nat /\ r.at > 0 /\ Len(r.buffer) \in Nat
    BY <1>1, ManagerOK DEF DeliverNext
  <2>2. QED
    BY <2>1 DEF Due
<1>4. p \in sent /\ p \in Packet /\ p.sender # n
  BY <1>1, <1>3 DEF WaitOK, Arrived
<1>5. \A q \in sent : past[q.id] \subseteq {x.id : x \in sent}
  BY <1>1, PacketOK DEF IInv, Created
<1>6. NodeOK(n, z, sent, past) /\ (Orderly(r, past) => Orderly(z, past))
  BY <1>1, <1>3, <1>5, ReleaseKeeps
<1>7. z.clock = Merge(r.clock, p.clock, n)
  <2>1. \A j \in Node : r.delivered[j] <= r.clock[j]
    BY <1>1 DEF StoreOK
  <2>2. z.clock = d.clock
    BY <1>1, <1>3, <2>1, ReleaseIs
  <2>3. d.clock = Merge(r.clock, p.clock, n)
    BY <1>1, <1>4, <2>1, DeliverIs
  <2>4. QED
    BY <2>2, <2>3
<1>8. r.clock \in Clock /\ p.clock \in Clock
  BY <1>1, <1>4, ManagerOK, PacketOK
<1> HIDE DEF z, p
<1>9. /\ \A j \in Node \ {n} : z.clock[j] = rm[n].clock[j] \/ z.clock[j] = p.clock[j]
      /\ rm[n].clock[n] <= z.clock[n]
  <2> DEFINE c == Merge(r.clock, p.clock, n)
  <2>1. \A j \in Node : /\ r.clock[j] <= c[j]
                        /\ j # n => c[j] = r.clock[j] \/ c[j] = p.clock[j]
    BY <1>8, MergeOK
  <2> HIDE DEF c
  <2>2. z.clock = c
    BY <1>7 DEF c
  <2>3. QED
    BY <1>8, <2>1, <2>2
<1>10. extras' \in 0..MaxExtras /\ forced' = forced /\ UNCHANGED <<sent, past>>
  BY DEF DeliverNext, IInv
<1>11. rm' = [rm EXCEPT ![n] = z]
  BY <1>2 DEF z
<1>12. QED
  BY <1>4, <1>6, <1>9, <1>10, <1>11, NodeKeeps

LEMMA TickIs ==
    ASSUME NEW n \in Node, NEW r \in Manager
    PROVE  LET z == Tick(r, n)
           IN /\ z \in Manager /\ z.lamport = r.lamport + 1 /\ z.clock[n] = r.clock[n] + 1
              /\ \A k \in Node : /\ k # n => z.clock[k] = r.clock[k]
                                 /\ r.clock[k] <= z.clock[k]
                                 /\ z.clock[k] \in Nat
              /\ r.lamport <= z.lamport
              /\ z.store = r.store /\ z.delivered = r.delivered /\ z.ids = r.ids
              /\ z.buffer = r.buffer /\ z.at = r.at /\ z.calls = r.calls
<1> DEFINE c == [r.clock EXCEPT ![n] = @ + 1]
           z == Tick(r, n)
<1>1. r.clock \in Clock /\ r.lamport \in Nat /\ \A k \in Node : r.clock[k] \in Nat
  BY ManagerOK
<1>2. c \in Clock /\ \A k \in Node : c[k] = IF k = n THEN r.clock[k] + 1 ELSE r.clock[k]
  BY <1>1 DEF Clock
<1>3. z = [r EXCEPT !.clock = c, !.lamport = r.lamport + 1]
  BY DEF Tick
<1> HIDE DEF c, z
<1>4. /\ z \in Manager /\ z.clock = c /\ z.lamport = r.lamport + 1
      /\ z.store = r.store /\ z.delivered = r.delivered /\ z.ids = r.ids
      /\ z.buffer = r.buffer /\ z.at = r.at /\ z.calls = r.calls
  <2> DEFINE l == r.lamport + 1
  <2>1. l \in Nat /\ c \in Clock /\ z = [r EXCEPT !.clock = c, !.lamport = l]
    BY <1>1, <1>2, <1>3
  <2> HIDE DEF l
  <2>2. /\ z \in Manager /\ z.clock = c /\ z.lamport = l
        /\ z.store = r.store /\ z.delivered = r.delivered /\ z.ids = r.ids
        /\ z.buffer = r.buffer /\ z.at = r.at /\ z.calls = r.calls
    BY <2>1 DEF Manager
  <2>3. QED
    BY <2>2 DEF l
<1>5. \A k \in Node : /\ k # n => c[k] = r.clock[k]
                      /\ r.clock[k] <= c[k] /\ c[k] \in Nat
  BY <1>1, <1>2
<1>6. c[n] = r.clock[n] + 1 /\ r.lamport <= r.lamport + 1
  BY <1>1, <1>2
<1>7. QED
  BY <1>4, <1>5, <1>6 DEF z

\* What n knows, waits for and has does not change with an event of its own.
LEMMA TickKeeps ==
    ASSUME NEW S \in SUBSET Packet, NEW pa, NEW n \in Node, NEW r, NodeOK(n, r, S, pa)
    PROVE  NodeOK(n, Tick(r, n), S, pa) /\ (Orderly(r, pa) => Orderly(Tick(r, n), pa))
<1> DEFINE z == Tick(r, n)
<1>1. r \in Manager /\ StoreOK(n, r, S, pa) /\ WaitOK(n, r, S)
  BY DEF NodeOK
<1>2. /\ z \in Manager
      /\ \A k \in Node : /\ k # n => z.clock[k] = r.clock[k]
                         /\ r.clock[k] <= z.clock[k]
                         /\ z.clock[k] \in Nat
      /\ r.lamport <= z.lamport
      /\ z.store = r.store /\ z.delivered = r.delivered /\ z.ids = r.ids
      /\ z.buffer = r.buffer /\ z.at = r.at /\ z.calls = r.calls
  BY <1>1, TickIs
<1> HIDE DEF z
<1>3. \A k \in Node : r.clock[k] \in Nat /\ r.delivered[k] \in Nat
  BY <1>1, ManagerOK
<1>4. \A k \in Node : z.delivered[k] <= z.clock[k]
  <2> SUFFICES ASSUME NEW k \in Node PROVE r.delivered[k] <= z.clock[k]
    BY <1>2
  <2>1. r.delivered[k] <= r.clock[k]
    BY <1>1 DEF StoreOK
  <2>2. QED
    BY <1>2, <1>3, <2>1
<1>5. ASSUME NEW q \in S, q.id \in z.store
      PROVE  (\A k \in Node : q.clock[k] <= z.clock[k]) /\ q.lamport <= z.lamport
  <2>1. /\ q.lamport \in Nat /\ r.lamport \in Nat /\ z.lamport \in Nat
        /\ \A k \in Node : q.clock[k] \in Nat
    BY <1>1, <1>2, PacketOK, ManagerOK
  <2>2. (\A k \in Node : q.clock[k] <= r.clock[k]) /\ q.lamport <= r.lamport
    BY <1>1, <1>2, <1>5 DEF StoreOK
  <2>3. \A k \in Node : q.clock[k] <= z.clock[k]
    <3> SUFFICES ASSUME NEW k \in Node PROVE q.clock[k] <= z.clock[k]
      OBVIOUS
    <3>1. q.clock[k] <= r.clock[k] /\ r.clock[k] <= z.clock[k] /\ z.clock[k] \in Nat
      BY <1>2, <2>2
    <3>2. QED
      BY <1>3, <2>1, <3>1
  <2>4. QED
    BY <1>2, <2>1, <2>2, <2>3
<1>6. ASSUME NEW q \in S, q.clock[q.sender] <= z.clock[q.sender] PROVE Knows(z, pa, q.id)
  <2>1. q.sender \in Node
    BY PacketOK
  <2>2. Knows(r, pa, q.id)
    BY <1>1, <1>2, <1>6, <2>1 DEF StoreOK, Knows
  <2>3. QED
    BY <1>2, <2>2 DEF Knows
<1>7. StoreOK(n, z, S, pa)
  BY <1>1, <1>2, <1>4, <1>5, <1>6 DEF StoreOK
<1>8. WaitOK(n, z, S)
  <2>1. \A q : Arrived(n, r, S, q) => Arrived(n, z, S, q)
    BY <1>1, <1>2, StillArrived
  <2>2. QED
    BY <1>1, <1>2, <2>1 DEF WaitOK
<1>9. QED
  BY <1>2, <1>7, <1>8 DEF NodeOK, Orderly, z

LEMMA ApplyKeeps ==
    ASSUME IInv, NEW n \in Node, ApplyCommittedEntry(n) PROVE IInv'
<1> DEFINE z == Tick(rm[n], n)
<1>1. rm[n] \in Manager /\ NodeOK(n, rm[n], sent, past) /\ sent \in SUBSET Packet
  BY NodeIs
<1>2. NodeOK(n, z, sent, past) /\ (Orderly(rm[n], past) => Orderly(z, past))
  BY <1>1, TickKeeps
<1>3. /\ \A k \in Node \ {n} : z.clock[k] = rm[n].clock[k]
      /\ rm[n].clock[n] <= z.clock[n]
  <2>1. \A k \in Node : (k # n => z.clock[k] = rm[n].clock[k]) /\ rm[n].clock[k] <= z.clock[k]
    BY <1>1, TickIs
  <2> HIDE DEF z
  <2>2. QED
    BY <2>1, NodeIs
<1>4. extras' \in 0..MaxExtras
  BY BoundsOK DEF ApplyCommittedEntry, IInv
<1>5. rm' = [rm EXCEPT ![n] = z] /\ forced' = forced /\ UNCHANGED <<sent, past>>
  BY DEF ApplyCommittedEntry, IInv
<1> HIDE DEF z
<1>6. QED
  BY <1>2, <1>3, <1>4, <1>5, NodeKeeps

LEMMA ExpireKeeps ==
    ASSUME IInv, NEW n \in Node, Expire(n) PROVE IInv'
<1> DEFINE r == rm[n]
<1>1. PICK k \in DOMAIN r.buffer : rm' = [rm EXCEPT ![n].buffer[k].late = TRUE]
  BY DEF Expire
<1> DEFINE w == [r.buffer[k] EXCEPT !.late = TRUE]
           b == [r.buffer EXCEPT ![k] = w]
           z == [r EXCEPT !.buffer = b]
<1>2. r \in Manager /\ StoreOK(n, r, sent, past) /\ WaitOK(n, r, sent) /\ sent \in SUBSET Packet
  BY NodeIs
<1>3. /\ r.buffer \in Seq([msg : Packet, late : BOOLEAN]) /\ k \in 1..Len(r.buffer)
      /\ r.buffer[k] \in [msg : Packet, late : BOOLEAN] /\ r.lamport \in Nat
  BY <1>2, ManagerOK
<1>4. w \in [msg : Packet, late : BOOLEAN] /\ w.msg = r.buffer[k].msg
  BY <1>3
<1>5. rm' = [rm EXCEPT ![n] = z]
  BY <1>1 DEF IInv
<1> HIDE DEF w
<1>6. /\ b \in Seq([msg : Packet, late : BOOLEAN]) /\ Len(b) = Len(r.buffer)
      /\ \A j \in 1..Len(r.buffer) : b[j] = IF j = k THEN w ELSE r.buffer[j]
  BY <1>3, <1>4, ExceptSeq
<1> HIDE DEF b
<1>7. /\ z \in Manager /\ z.buffer = b /\ z.lamport = r.lamport /\ z.calls = r.calls
      /\ z.clock = r.clock /\ z.store = r.store /\ z.delivered = r.delivered /\ z.ids = r.ids
      /\ z.at = r.at
  BY <1>2, <1>6 DEF Manager
<1> HIDE DEF z
<1>8. \A j \in 1..Len(z.buffer) : z.buffer[j].msg = r.buffer[j].msg
  BY <1>4, <1>6, <1>7
<1>9. StoreOK(n, z, sent, past)
  <2>1. r.lamport <= z.lamport
    BY <1>3, <1>7
  <2>2. QED
    BY <1>2, <1>7, <2>1, SameStore
<1>10. WaitOK(n, z, sent)
  BY <1>2, <1>6, <1>7, <1>8 DEF WaitOK, Arrived
<1>11. NodeOK(n, z, sent, past)
  BY <1>7, <1>9, <1>10 DEF NodeOK
<1>12. z.clock = rm[n].clock /\ rm[n].clock[n] <= z.clock[n]
  BY <1>7, NodeIs
<1>13. /\ extras' \in 0..MaxExtras /\ forced' = forced \union {n}
       /\ UNCHANGED <<sent, past>>
  BY DEF Expire, IInv
<1>14. QED
  BY <1>5, <1>11, <1>12, <1>13, NodeKeeps

-----------------------------------------------------------------------------
(* A new message.                                                          *)

LEMMA KnownIsOlder ==
    ASSUME NEW S \in SUBSET Packet, NEW pa, PastOK(S, pa), NEW n \in Node, NEW r \in Manager,
           StoreOK(n, r, S, pa), NEW q \in S, Knows(r, pa, q.id)
    PROVE  (\A k \in Node : q.clock[k] <= r.clock[k]) /\ q.lamport <= r.lamport
<1>1. PICK y \in r.store : q.id = y \/ q.id \in pa[y]
  BY DEF Knows
<1>2. PICK x \in S : x.id = y
  BY <1>1 DEF StoreOK
<1>3. /\ \A k \in Node : x.clock[k] <= r.clock[k]
      /\ x.lamport <= r.lamport
  BY <1>1, <1>2 DEF StoreOK
<1>4. CASE q.id = y
  BY <1>2, <1>3, <1>4 DEF PastOK
<1>5. CASE q.id \in pa[y]
  <2>1. (\A k \in Node : q.clock[k] <= x.clock[k]) /\ q.lamport < x.lamport
    BY <1>2, <1>5 DEF PastOK
  <2>2. /\ q.lamport \in Nat /\ x.lamport \in Nat /\ r.lamport \in Nat
        /\ \A k \in Node : q.clock[k] \in Nat /\ x.clock[k] \in Nat /\ r.clock[k] \in Nat
    BY PacketOK, ManagerOK
  <2>3. ASSUME NEW k \in Node PROVE q.clock[k] <= r.clock[k]
    <3>1. q.clock[k] <= x.clock[k] /\ x.clock[k] <= r.clock[k]
      BY <1>3, <2>1
    <3>2. QED
      BY <2>2, <3>1
  <2>4. QED
    BY <1>3, <2>1, <2>2, <2>3
<1>6. QED
  BY <1>1, <1>4, <1>5

LEMMA CreateKeeps ==
    ASSUME IInv, NEW n \in Node, NEW m \in Message, CreateMessage(n, m) PROVE IInv'
<1> DEFINE r == rm[n]
           t == Tick(r, n)
           z == [t EXCEPT !.store = @ \union {m}]
           x == [id |-> m, sender |-> n, clock |-> t.clock, lamport |-> t.lamport]
           K == UNION {{y} \union past[y] : y \in r.store}
<1>1. /\ r \in Manager /\ NodeOK(n, r, sent, past) /\ StoreOK(n, r, sent, past)
      /\ WaitOK(n, r, sent) /\ sent \in SUBSET Packet /\ PastOK(sent, past)
      /\ \A j, k \in Node : rm[j].clock[k] <= rm[k].clock[k] /\ rm[j].clock[k] \in Nat
      /\ ClocksOK(rm, sent) /\ r.lamport \in Nat
      /\ \A q \in sent : \A k \in Node : q.clock[k] <= rm[k].clock[k] /\ q.clock[k] \in Nat
  BY NodeIs, PacketOK, ManagerOK DEF IInv, ClocksOK
<1>2. /\ t \in Manager /\ t.lamport = r.lamport + 1 /\ t.clock[n] = r.clock[n] + 1
      /\ \A k \in Node : /\ k # n => t.clock[k] = r.clock[k]
                         /\ r.clock[k] <= t.clock[k]
                         /\ t.clock[k] \in Nat
      /\ t.store = r.store /\ t.calls = r.calls /\ t.buffer = r.buffer /\ t.at = r.at
      /\ t.delivered = r.delivered /\ t.ids = r.ids
  BY <1>1, TickIs
<1>3. /\ sent' = sent \union {x} /\ rm' = [rm EXCEPT ![n] = z] /\ past' = [past EXCEPT ![m] = K]
      /\ m \notin Created /\ extras' = extras /\ forced' = forced
  BY DEF CreateMessage
<1>4. NodeOK(n, t, sent, past) /\ (Orderly(r, past) => Orderly(t, past))
  BY <1>1, TickKeeps
<1> HIDE DEF t
<1>5. x \in Packet /\ x.id = m /\ x.sender = n /\ x.clock = t.clock /\ x.lamport = t.lamport
  <2>1. t.clock \in Clock /\ t.lamport \in Nat
    BY <1>2, ManagerOK
  <2>2. QED
    BY <2>1 DEF Packet
<1>6. /\ z \in Manager /\ z.store = r.store \union {m}
      /\ z.clock = t.clock /\ z.lamport = t.lamport /\ z.calls = t.calls /\ z.buffer = t.buffer
      /\ z.delivered = t.delivered /\ z.ids = t.ids /\ z.at = t.at
  BY <1>2 DEF Manager
<1> HIDE DEF x, z
<1>7. /\ \A q \in sent : q.id # m /\ past'[q.id] = past[q.id] /\ q.id \in Message
      /\ past'[m] = K
  <2>1. \A q \in sent : q.id # m /\ q.id \in Message
    BY <1>1, <1>3, PacketOK DEF Created
  <2>2. past \in [Message -> SUBSET Created]
    BY DEF IInv
  <2>3. QED
    BY <1>3, <2>1, <2>2
<1>8. \A y : y \in K <=> Knows(r, past, y)
  BY DEF Knows
<1>9. K \subseteq Created
  <2>1. r.store \subseteq Created
    BY <1>1 DEF StoreOK, Created
  <2>2. \A y \in r.store : past[y] \subseteq Created
    BY <1>1, ManagerOK DEF IInv
  <2>3. QED
    BY <2>1, <2>2
<1> HIDE DEF K
<1>10. /\ \A j \in Node : rm[j].clock[n] < x.clock[n]
       /\ \A q \in sent : q.clock[n] < x.clock[n]
  <2>1. x.clock[n] = rm[n].clock[n] + 1 /\ rm[n].clock[n] \in Nat
    BY <1>1, <1>2, <1>5
  <2>2. ASSUME NEW j \in Node PROVE rm[j].clock[n] < x.clock[n]
    <3>1. rm[j].clock[n] <= rm[n].clock[n] /\ rm[j].clock[n] \in Nat
      BY <1>1
    <3>2. QED
      BY <2>1, <3>1
  <2>3. ASSUME NEW q \in sent PROVE q.clock[n] < x.clock[n]
    <3>1. q.clock[n] <= rm[n].clock[n] /\ q.clock[n] \in Nat
      BY <1>1
    <3>2. QED
      BY <2>1, <3>1
  <2>4. QED
    BY <2>2, <2>3
<1>11. ASSUME NEW q \in sent, q.id \in K
       PROVE  /\ \A k \in Node : q.clock[k] <= x.clock[k]
              /\ q.lamport < x.lamport
  <2>1. (\A k \in Node : q.clock[k] <= r.clock[k]) /\ q.lamport <= r.lamport
    BY <1>1, <1>8, <1>11, KnownIsOlder
  <2>2. q.lamport \in Nat
    BY <1>1, PacketOK
  <2>3. ASSUME NEW k \in Node PROVE q.clock[k] <= x.clock[k]
    <3>1. /\ q.clock[k] <= r.clock[k] /\ r.clock[k] <= t.clock[k]
          /\ q.clock[k] \in Nat /\ r.clock[k] \in Nat /\ t.clock[k] \in Nat
      BY <1>1, <1>2, <2>1
    <3>2. QED
      BY <1>5, <3>1
  <2>4. QED
    BY <1>1, <1>2, <1>5, <2>1, <2>2, <2>3
<1>12. PastOK(sent', past')
  <2>1. \A p, q \in sent' : p.id = q.id => p = q
    BY <1>1, <1>3, <1>5, <1>7 DEF PastOK
  <2>2. \A p \in sent' : p.clock[p.sender] >= 1
    BY <1>1, <1>2, <1>3, <1>5 DEF PastOK
  <2>3. ASSUME NEW p \in sent', NEW q \in sent', p # q,
               p.clock[p.sender] <= q.clock[p.sender]
        PROVE  p.id \in past'[q.id]
    <3>1. CASE p \in sent /\ q \in sent
      BY <1>1, <1>7, <2>3, <3>1 DEF PastOK
    <3>2. CASE p \in sent /\ q = x
      <4>1. p.sender \in Node
        BY <1>1, <3>2, PacketOK
      <4>2. CASE p.sender = n
        BY <1>1, <1>5, <1>7, <1>8, <3>2, <4>2 DEF StoreOK, Knows
      <4>3. CASE p.sender # n
        <5>1. p.clock[p.sender] <= r.clock[p.sender]
          BY <1>2, <1>5, <2>3, <3>2, <4>1, <4>3
        <5>2. Knows(r, past, p.id)
          BY <1>1, <3>2, <5>1 DEF StoreOK
        <5>3. QED
          BY <1>5, <1>7, <1>8, <3>2, <5>2
      <4>4. QED
        BY <4>2, <4>3
    <3>3. CASE p = x /\ q \in sent
      <4>1. q.clock[n] < x.clock[n] /\ x.clock[n] <= q.clock[n]
        BY <1>5, <1>10, <2>3, <3>3
      <4>2. q.clock[n] \in Nat /\ x.clock[n] \in Nat
        BY <1>1, <1>2, <1>5, <3>3
      <4>3. QED
        BY <4>1, <4>2
    <3>4. QED
      BY <1>3, <2>3, <3>1, <3>2, <3>3
  <2>4. ASSUME NEW p \in sent', NEW q \in sent', p.id \in past'[q.id]
        PROVE  /\ \A k \in Node : p.clock[k] <= q.clock[k]
               /\ p.clock[q.sender] < q.clock[q.sender]
               /\ p.lamport < q.lamport
    <3>1. p \in sent
      <4>1. m \notin past'[q.id]
        <5>1. CASE q \in sent
          BY <1>3, <1>7, <5>1 DEF IInv
        <5>2. CASE q = x
          BY <1>3, <1>5, <1>7, <1>9, <5>2
        <5>3. QED
          BY <1>3, <5>1, <5>2
      <4>2. QED
        BY <1>3, <1>5, <2>4, <4>1
    <3>2. CASE q \in sent
      BY <1>1, <1>7, <2>4, <3>1, <3>2 DEF PastOK
    <3>3. CASE q = x
      BY <1>5, <1>7, <1>10, <1>11, <2>4, <3>1, <3>3
    <3>4. QED
      BY <1>3, <3>2, <3>3
  <2>5. QED
    BY <2>1, <2>2, <2>3, <2>4 DEF PastOK
<1>13. rm \in [Node -> Manager] /\ rm' \in [Node -> Manager] /\ rm'[n] = z
       /\ \A j \in Node \ {n} : rm'[j] = rm[j]
  BY <1>3, <1>6 DEF IInv
<1>14. ClocksOK(rm', sent')
  <2>1. \A j, k \in Node : rm[j].clock[k] <= rm'[k].clock[k]
    <3> SUFFICES ASSUME NEW j \in Node, NEW k \in Node PROVE rm[j].clock[k] <= rm'[k].clock[k]
      OBVIOUS
    <3>1. rm[j].clock[k] <= rm[k].clock[k]
      BY <1>1
    <3>2. CASE k = n
      BY <1>5, <1>6, <1>10, <1>13, <3>2, <1>1, <1>2
    <3>3. CASE k # n
      BY <1>13, <3>1, <3>3
    <3>4. QED
      BY <3>2, <3>3
  <2>2. \A j, k \in Node : rm'[j].clock[k] <= rm'[k].clock[k]
    <3> SUFFICES ASSUME NEW j \in Node, NEW k \in Node PROVE rm'[j].clock[k] <= rm'[k].clock[k]
      OBVIOUS
    <3>1. CASE j # n
      BY <1>13, <2>1, <3>1
    <3>2. CASE j = n /\ k # n
      <4>1. rm'[j].clock[k] = rm[n].clock[k]
        BY <1>2, <1>6, <1>13, <3>2
      <4>2. QED
        BY <2>1, <4>1
    <3>3. CASE j = n /\ k = n
      BY <1>2, <1>6, <1>13, <3>3
    <3>4. QED
      BY <3>1, <3>2, <3>3
  <2>3. ASSUME NEW p \in sent', NEW k \in Node PROVE p.clock[k] <= rm'[k].clock[k]
    <3>1. CASE p \in sent
      <4>1. p.clock[k] <= rm[k].clock[k] /\ rm[k].clock[k] <= rm'[k].clock[k]
        BY <1>1, <2>1, <3>1
      <4>2. p.clock[k] \in Nat /\ rm[k].clock[k] \in Nat /\ rm'[k].clock[k] \in Nat
        BY <1>1, <1>13, <3>1, ManagerOK
      <4>3. QED
        BY <4>1, <4>2
    <3>2. CASE p = x
      <4>1. p.clock[k] = rm'[n].clock[k]
        BY <1>5, <1>6, <1>13, <3>2
      <4>2. QED
        BY <2>2, <4>1
    <3>3. QED
      BY <1>3, <3>1, <3>2
  <2>4. ASSUME NEW j \in Node, NEW k \in Node, j # k PROVE Sourced(rm'[j].clock, k, sent')
    <3>1. rm'[j].clock[k] = rm[j].clock[k]
      BY <1>2, <1>6, <1>13, <2>4
    <3>2. Sourced(rm[j].clock, k, sent)
      BY <1>1, <2>4 DEF ClocksOK
    <3>3. QED
      BY <1>3, <3>1, <3>2 DEF Sourced
  <2>5. ASSUME NEW p \in sent', NEW k \in Node, p.sender # k PROVE Sourced(p.clock, k, sent')
    <3>1. CASE p \in sent
      <4>1. Sourced(p.clock, k, sent)
        BY <1>1, <2>5, <3>1 DEF ClocksOK
      <4>2. QED
        BY <1>3, <4>1 DEF Sourced
    <3>2. CASE p = x
      <4>1. Sourced(rm'[n].clock, k, sent') /\ p.clock = rm'[n].clock
        BY <1>5, <1>6, <1>13, <2>4, <2>5, <3>2
      <4>2. QED
        BY <4>1
    <3>3. QED
      BY <1>3, <2>5, <3>1, <3>2
  <2>6. QED
    BY <2>2, <2>3, <2>4, <2>5 DEF ClocksOK
<1>15. ASSUME NEW j \in Node, NEW s \in Manager, StoreOK(j, s, sent, past)
       PROVE  /\ m \notin s.store /\ \A y \in s.store : past'[y] = past[y]
              /\ \A y : Knows(s, past, y) => Knows(s, past', y)
              /\ Orderly(s, past) => Orderly(s, past')
  <2> DEFINE pb == past'
  <2>1. (\A q \in sent : q.id # m) /\ (\A q \in sent : pb[q.id] = past[q.id])
    BY <1>7
  <2> HIDE DEF pb
  <2>2. \A y \in s.store : y # m /\ pb[y] = past[y]
    BY <1>15, <2>1 DEF StoreOK
  <2>3. (\A y : Knows(s, past, y) => Knows(s, pb, y)) /\ (Orderly(s, past) => Orderly(s, pb))
    BY <2>2 DEF Knows, Orderly
  <2>4. QED
    BY <2>2, <2>3 DEF pb
<1>16. ASSUME NEW j \in Node, NEW s, WaitOK(j, s, sent) PROVE WaitOK(j, s, sent')
  BY <1>3, <1>16 DEF WaitOK, Arrived
<1>17. ASSUME NEW j \in Node \ {n} PROVE NodeOK(j, rm'[j], sent', past')
  <2> DEFINE s == rm[j]
  <2>1. s \in Manager /\ StoreOK(j, s, sent, past) /\ WaitOK(j, s, sent)
    BY NodeIs
  <2>2. s.clock[n] < x.clock[n] /\ s.clock[n] \in Nat /\ x.clock[n] \in Nat
    BY <1>1, <1>2, <1>5, <1>10
  <2> HIDE DEF s
  <2>3. /\ m \notin s.store
        /\ \A y : Knows(s, past, y) => Knows(s, past', y)
    BY <1>15, <2>1
  <2>4. \A q \in sent' : q.clock[q.sender] <= s.clock[q.sender] => Knows(s, past', q.id)
    <3>1. \A q \in sent : q.clock[q.sender] <= s.clock[q.sender] => Knows(s, past', q.id)
      BY <2>1, <2>3 DEF StoreOK
    <3>2. ~(x.clock[x.sender] <= s.clock[x.sender])
      BY <1>5, <2>2
    <3>3. QED
      BY <1>3, <3>1, <3>2
  <2>5. StoreOK(j, s, sent', past')
    BY <1>3, <1>5, <2>1, <2>3, <2>4 DEF StoreOK
  <2>6. QED
    BY <1>13, <1>16, <2>1, <2>5 DEF NodeOK, s
<1>18. NodeOK(n, z, sent', past')
  <2>1. /\ t.delivered = z.delivered /\ StoreOK(n, t, sent, past) /\ WaitOK(n, t, sent)
    BY <1>4, <1>6 DEF NodeOK
  <2>2. /\ m \notin t.store
        /\ \A y : Knows(t, past, y) => Knows(t, past', y)
    BY <1>2, <1>15, <2>1
  <2>3. WaitOK(n, z, sent')
    <3>1. WaitOK(n, z, sent)
      BY <1>6, <2>1 DEF WaitOK, Arrived
    <3>2. QED
      BY <1>16, <3>1
  <2>4. ASSUME NEW q \in sent', q.id \in z.store
        PROVE  /\ \A k \in Node : q.clock[k] <= z.clock[k]
               /\ q.lamport <= z.lamport
               /\ q.sender # n => q.clock[q.sender] <= z.delivered[q.sender]
    <3>1. CASE q \in sent
      <4>1. q.id \in t.store
        BY <1>2, <1>6, <1>7, <2>4, <3>1
      <4>2. QED
        BY <1>6, <2>1, <3>1, <4>1 DEF StoreOK
    <3>2. CASE q = x
      BY <1>1, <1>2, <1>5, <1>6, <3>2
    <3>3. QED
      BY <1>3, <3>1, <3>2
  <2>5. ASSUME NEW q \in sent', q.clock[q.sender] <= z.clock[q.sender] PROVE Knows(z, past', q.id)
    <3>1. CASE q \in sent
      <4>1. Knows(t, past', q.id)
        BY <1>6, <2>1, <2>2, <2>5, <3>1 DEF StoreOK
      <4>2. QED
        BY <1>2, <1>6, <4>1 DEF Knows
    <3>2. CASE q = x
      BY <1>5, <1>6, <3>2 DEF Knows
    <3>3. QED
      BY <1>3, <3>1, <3>2
  <2>6. \A q \in sent' : q.sender = n => q.id \in z.store
    BY <1>2, <1>3, <1>5, <1>6, <2>1 DEF StoreOK
  <2>7. z.ids \subseteq z.store /\ \A y \in z.store : \E q \in sent' : q.id = y
    BY <1>2, <1>3, <1>5, <1>6, <2>1 DEF StoreOK
  <2>8. \A k \in Node : z.delivered[k] <= z.clock[k]
    BY <1>6, <2>1 DEF StoreOK
  <2>9. StoreOK(n, z, sent', past')
    BY <2>4, <2>5, <2>6, <2>7, <2>8 DEF StoreOK
  <2>10. QED
    BY <1>6, <2>3, <2>9 DEF NodeOK
<1>19. ASSUME NEW j \in Node \ forced' PROVE Orderly(rm'[j], past')
  <2>1. rm[j] \in Manager /\ StoreOK(j, rm[j], sent, past) /\ Orderly(rm[j], past)
    BY <1>3, NodeIs DEF IInv
  <2>2. /\ Orderly(rm[j], past') /\ \A y \in rm[j].store : past'[y] = past[y]
    BY <1>15, <2>1
  <2>3. CASE j # n
    BY <1>13, <2>2, <2>3
  <2>4. CASE j = n
    <3>1. K \subseteq r.store
      BY <1>8, <2>1, <2>4 DEF Knows, Orderly
    <3>2. \A y \in z.store : past'[y] \subseteq z.store
      BY <1>6, <1>7, <2>2, <2>4, <3>1 DEF Orderly
    <3>3. Orderly(z, past')
      BY <1>2, <1>6, <2>1, <2>4, <3>2 DEF Orderly
    <3>4. QED
      BY <1>13, <2>4, <3>3
  <2>5. QED
    BY <2>3, <2>4
<1>20. past' \in [Message -> SUBSET Created'] /\ sent' \subseteq Packet
  <2>1. Created \subseteq Created'
    BY <1>3 DEF Created
  <2>2. past \in [Message -> SUBSET Created] /\ K \in SUBSET Created'
    BY <1>9, <2>1 DEF IInv
  <2>3. QED
    BY <1>1, <1>3, <1>5, <2>1, <2>2
<1>21. extras' \in 0..MaxExtras /\ forced' \subseteq Node
  BY <1>3 DEF IInv
<1>22. \A j \in Node : NodeOK(j, rm'[j], sent', past')
  BY <1>13, <1>17, <1>18
<1>23. QED
  BY <1>12, <1>13, <1>14, <1>19, <1>20, <1>21, <1>22 DEF IInv

-----------------------------------------------------------------------------
(* The invariant holds.                                                    *)

LEMMA InitOK == Init => IInv
<1> SUFFICES ASSUME Init PROVE IInv
  OBVIOUS
<1> DEFINE b == << >>
<1>1. /\ rm = [n \in Node |-> InitialManager] /\ sent = {} /\ extras = 0 /\ forced = {}
      /\ past = [m \in Message |-> {}] /\ \A n \in Node : rm[n] = InitialManager
  BY DEF Init
<1>2. /\ InitialManager \in Manager /\ InitialManager.store = {} /\ InitialManager.ids = {}
      /\ InitialManager.at = 0 /\ InitialManager.buffer = b /\ Len(b) = 0
      /\ \A k \in Node : InitialManager.clock[k] = 0 /\ InitialManager.delivered[k] = 0
      /\ \A m \in Message : InitialManager.calls[m] = 0
  <2>1. b \in Seq([msg : Packet, late : BOOLEAN]) /\ Len(b) = 0
    OBVIOUS
  <2> HIDE DEF b
  <2>2. InitialManager = [clock |-> [k \in Node |-> 0], lamport |-> 0, store |-> {},
             calls |-> [m \in Message |-> 0],
             delivered |-> [k \in Node |-> 0], ids |-> {}, buffer |-> b, at |-> 0]
    BY DEF InitialManager, b
  <2>3. QED
    BY <2>1, <2>2 DEF Manager, Clock
<1> HIDE DEF b
<1>3. \A n \in Node : NodeOK(n, rm[n], sent, past) /\ Orderly(rm[n], past)
  <2> SUFFICES ASSUME NEW n \in Node
               PROVE  NodeOK(n, rm[n], sent, past) /\ Orderly(rm[n], past)
    OBVIOUS
  <2> DEFINE r == rm[n]
  <2>1. /\ r \in Manager /\ r.store = {} /\ r.ids = {} /\ r.at = 0 /\ Len(r.buffer) = 0
        /\ \A k \in Node : r.clock[k] = 0 /\ r.delivered[k] = 0
        /\ \A m \in Message : r.calls[m] = 0
    BY <1>1, <1>2
  <2> HIDE DEF r
  <2>2. StoreOK(n, r, sent, past)
    BY <1>1, <2>1 DEF StoreOK
  <2>3. WaitOK(n, r, sent)
    BY <2>1 DEF WaitOK
  <2>4. QED
    BY <2>1, <2>2, <2>3 DEF NodeOK, Orderly, r
<1>4. ClocksOK(rm, sent) /\ PastOK(sent, past)
  BY <1>1, <1>2 DEF ClocksOK, PastOK, Sourced
<1>5. rm \in [Node -> Manager] /\ past \in [Message -> SUBSET Created]
  BY <1>1, <1>2
<1>6. extras \in 0..MaxExtras
  BY <1>1, BoundsOK
<1>7. QED
  BY <1>1, <1>3, <1>4, <1>5, <1>6 DEF IInv

LEMMA NextKeeps == IInv /\ [Next]_vars => IInv'
<1> SUFFICES ASSUME IInv, [Next]_vars PROVE IInv'
  OBVIOUS
<1>1. CASE UNCHANGED vars
  BY <1>1 DEF vars, IInv, Created
<1>2. ASSUME NEW n \in Node, NEW m \in Message, CreateMessage(n, m) PROVE IInv'
  BY <1>2, CreateKeeps
<1>3. ASSUME NEW n \in Node, NEW p \in sent, ReceiveReplica(n, p) PROVE IInv'
  BY <1>3, ReceiveKeeps
<1>4. ASSUME NEW n \in Node, NEW p \in sent, TryDeliver(n, p) PROVE IInv'
  BY <1>4, TryKeeps
<1>5. ASSUME NEW n \in Node, DeliverNext(n) PROVE IInv'
  BY <1>5, DeliverNextKeeps
<1>6. ASSUME NEW n \in Node, ApplyCommittedEntry(n) PROVE IInv'
  BY <1>6, ApplyKeeps
<1>7. ASSUME NEW n \in Node, Expire(n) PROVE IInv'
  BY <1>7, ExpireKeeps
<1>8. QED
  BY <1>1, <1>2, <1>3, <1>4, <1>5, <1>6, <1>7 DEF Next

\* The invariant the other theorems follow from, over every interleaving of the
\* handlers of create_message, receive_replica and the reorderer's flush.
THEOREM Invariant == Spec => []IInv
BY InitOK, NextKeeps, PTL DEF Spec

\* Types; and what waits in the reorderer came from elsewhere, what it delivered
\* is in the store, and everything in a store was created.
THEOREM TypeCorrect == Spec => []TypeOK
<1>1. IInv => TypeOK
  <2> SUFFICES ASSUME IInv PROVE TypeOK
    OBVIOUS
  <2>1. ASSUME NEW n \in Node
        PROVE  /\ rm[n].ids \subseteq rm[n].store /\ rm[n].store \subseteq Created
               /\ \A k \in DOMAIN rm[n].buffer :
                    rm[n].buffer[k].msg \in {p \in sent : p.sender # n}
               /\ rm[n].at \in 0..Len(rm[n].buffer)
    <3> DEFINE r == rm[n]
    <3>1. /\ r \in Manager /\ StoreOK(n, r, sent, past) /\ WaitOK(n, r, sent)
      BY NodeIs
    <3>2. DOMAIN r.buffer = 1..Len(r.buffer)
      BY <3>1, ManagerOK
    <3> HIDE DEF r
    <3>3. r.ids \subseteq r.store /\ r.store \subseteq Created
      BY <3>1 DEF StoreOK, Created
    <3>4. /\ \A k \in DOMAIN r.buffer : r.buffer[k].msg \in {p \in sent : p.sender # n}
          /\ r.at \in 0..Len(r.buffer)
      BY <3>1, <3>2 DEF WaitOK, Arrived
    <3>5. QED
      BY <3>3, <3>4 DEF r
  <2>2. QED
    BY <2>1 DEF IInv, TypeOK
<1>2. QED
  BY <1>1, Invariant, PTL

\* can_deliver and _flush: of a message it delivered, a node where nothing timed
\* out has all the causes, whatever the order in which the copies came.
THEOREM CausesComeFirst == Spec => []CausalOrder
<1>1. IInv => CausalOrder
  BY DEF IInv, Orderly, CausalOrder
<1>2. QED
  BY <1>1, Invariant, PTL

\* VectorClock: happened_before of the clocks of two messages is causality.
THEOREM ClocksAreRight == Spec => []ClocksTellCausality
<1>1. IInv => ClocksTellCausality
  <2> SUFFICES ASSUME IInv, NEW p \in sent, NEW q \in sent
               PROVE  HappenedBefore(p.clock, q.clock) <=> p.id \in past[q.id]
    BY DEF ClocksTellCausality
  <2>1. /\ p.sender \in Node /\ q.sender \in Node /\ PastOK(sent, past)
        /\ \A k \in Node : p.clock[k] \in Nat /\ q.clock[k] \in Nat
    BY PacketOK DEF IInv
  <2>2. ASSUME HappenedBefore(p.clock, q.clock) PROVE p.id \in past[q.id]
    <3>1. p # q /\ p.clock[p.sender] <= q.clock[p.sender]
      BY <2>1, <2>2 DEF HappenedBefore
    <3>2. QED
      BY <2>1, <3>1 DEF PastOK
  <2>3. ASSUME p.id \in past[q.id] PROVE HappenedBefore(p.clock, q.clock)
    BY <2>1, <2>3 DEF PastOK, HappenedBefore
  <2>4. QED
    BY <2>2, <2>3
<1>2. QED
  BY <1>1, Invariant, PTL

\* LamportClock: a cause has the smaller time, so _sort_key never puts an effect
\* before it.
THEOREM LamportIsRight == Spec => []LamportFollowsCausality
<1>1. IInv => LamportFollowsCausality
  BY DEF IInv, PastOK, LamportFollowsCausality
<1>2. QED
  BY <1>1, Invariant, PTL

\* _flush: when the lock is free, no message in the buffer meets the condition.
THEOREM NothingReady == Spec => []NothingReadyWaits
<1>1. IInv => NothingReadyWaits
  <2> SUFFICES ASSUME IInv, NEW n \in Node, rm[n].at = 0, NEW k \in DOMAIN rm[n].buffer
               PROVE  ~CanDeliver(rm[n].delivered, rm[n].buffer[k].msg)
    BY DEF NothingReadyWaits
  <2>1. rm[n] \in Manager /\ WaitOK(n, rm[n], sent)
    BY NodeIs
  <2>2. k \in 1..Len(rm[n].buffer)
    BY <2>1, ManagerOK
  <2>3. QED
    BY <2>1, <2>2 DEF WaitOK
<1>2. QED
  BY <1>1, Invariant, PTL

\* receive_replica and _mark_delivered: a second copy of a message that was
\* delivered never meets the condition, however many threads brought one.
THEOREM DeliversOnce == Spec => []DeliveredOnce
<1>1. IInv => DeliveredOnce
  <2> SUFFICES ASSUME IInv, NEW n \in Node, NEW k \in DOMAIN rm[n].buffer,
                      rm[n].buffer[k].msg.id \in rm[n].ids
               PROVE  ~CanDeliver(rm[n].delivered, rm[n].buffer[k].msg)
    BY DEF DeliveredOnce
  <2> DEFINE r == rm[n]
             p == r.buffer[k].msg
             s == p.sender
  <2>1. /\ r \in Manager /\ StoreOK(n, r, sent, past) /\ WaitOK(n, r, sent)
        /\ sent \in SUBSET Packet
    BY NodeIs
  <2>2. k \in 1..Len(r.buffer)
    BY <2>1, ManagerOK
  <2>3. p \in sent /\ s # n /\ p.id \in r.store
    BY <2>1, <2>2 DEF WaitOK, Arrived, StoreOK
  <2>4. s \in Node /\ p.clock[s] \in Nat /\ r.delivered[s] \in Nat
    BY <2>1, <2>3, PacketOK, ManagerOK
  <2>5. p.clock[s] <= r.delivered[s]
    BY <2>1, <2>3 DEF StoreOK
  <2> HIDE DEF r, p
  <2>6. ~CanDeliver(r.delivered, p)
    <3>1. ~(p.clock[s] = r.delivered[s] + 1)
      <4> HIDE DEF s
      <4>1. QED
        BY <2>4, <2>5
    <3>2. QED
      BY <2>4, <3>1 DEF CanDeliver
  <2>7. QED
    BY <2>6 DEF r, p
<1>2. QED
  BY <1>1, Invariant, PTL

\* can_deliver: a node where nothing timed out keeps a message that has all its
\* causes there only for events, of its sender or of the node itself, that no
\* message of theirs told it.
THEOREM GapsExplainWaiting == Spec => []WaitsForAGap
<1>1. IInv => WaitsForAGap
  <2> SUFFICES ASSUME IInv PROVE WaitsForAGap
    OBVIOUS
  <2> SUFFICES ASSUME NEW n \in Node \ forced, NEW p \in sent, Unblocked(n, p), p.clock[n] = 0
               PROVE  LET earlier == {q \in sent : q.sender = p.sender /\ q.id \in past[p.id]}
                      IN p.clock[p.sender] > Cardinality(earlier) + 1
    <3>1. \A q \in sent : \A k \in Node : q.clock[k] \in Nat
      BY PacketOK DEF IInv
    <3>2. \A k \in Node \ forced, q \in sent : q.clock[k] > 0 \/ q.clock[k] = 0
      BY <3>1
    <3>3. QED
      BY <3>2 DEF WaitsForAGap
  <2> DEFINE r == rm[n]
             s == p.sender
             earlier == {q \in sent : q.sender = p.sender /\ q.id \in past[p.id]}
             D == 1..r.delivered[s]
             g == [q \in earlier |-> q.clock[s]]
  <2>1. /\ r \in Manager /\ StoreOK(n, r, sent, past) /\ WaitOK(n, r, sent)
        /\ sent \in SUBSET Packet /\ PastOK(sent, past) /\ ClocksOK(rm, sent)
        /\ Orderly(r, past)
    BY NodeIs DEF IInv
  <2>2. /\ p.id \notin r.store /\ past[p.id] \subseteq r.store /\ s # n
        /\ ~CanDeliver(r.delivered, p)
    BY <2>1, ManagerOK DEF Unblocked, WaitOK, Arrived
  <2>3. /\ s \in Node
        /\ \A k \in Node : /\ r.clock[k] \in Nat /\ r.delivered[k] \in Nat
                           /\ r.delivered[k] <= r.clock[k]
        /\ \A q \in sent : q.sender \in Node /\ \A k \in Node : q.clock[k] \in Nat
    BY <2>1, PacketOK, ManagerOK DEF StoreOK
  <2>4. \A k \in Node \ {s} : p.clock[k] <= r.delivered[k]
    <3> SUFFICES ASSUME NEW k \in Node \ {s}, p.clock[k] > r.delivered[k] PROVE FALSE
      BY <2>3
    <3>1. p.clock[k] # 0 /\ k # n
      BY <2>3
    <3>2. PICK q \in sent : q.sender = k /\ q.clock[k] = p.clock[k]
      BY <2>1, <3>1 DEF ClocksOK, Sourced
    <3>3. q.id \in r.store
      <4>1. q # p /\ q.clock[q.sender] <= p.clock[q.sender]
        BY <2>3, <3>2
      <4>2. QED
        BY <2>1, <2>2, <4>1 DEF PastOK
    <3>4. q.clock[k] <= r.delivered[k]
      BY <2>1, <3>1, <3>2, <3>3 DEF StoreOK
    <3>5. QED
      BY <2>3, <3>2, <3>4
  <2>5. p.clock[s] > r.delivered[s] + 1
    <3>1. p.clock[s] # r.delivered[s] + 1
      BY <2>2, <2>4 DEF CanDeliver
    <3>2. ASSUME p.clock[s] <= r.delivered[s] PROVE FALSE
      <4>1. p.clock[s] <= r.clock[s]
        <5>1. p.clock[s] \in Nat /\ r.clock[s] \in Nat /\ r.delivered[s] \in Nat
              /\ r.delivered[s] <= r.clock[s]
          BY <2>3
        <5> HIDE DEF s, r
        <5>2. QED
          BY <3>2, <5>1
      <4>2. Knows(r, past, p.id)
        BY <2>1, <4>1 DEF StoreOK
      <4>3. QED
        BY <2>1, <2>2, <4>2 DEF Knows, Orderly
    <3>3. p.clock[s] \in Nat /\ r.delivered[s] \in Nat
      BY <2>3
    <3> HIDE DEF s, r
    <3>4. QED
      BY <3>1, <3>2, <3>3
  <2>6. \A q \in earlier : q.clock[s] \in D
    <3> SUFFICES ASSUME NEW q \in earlier PROVE q.clock[s] \in D
      OBVIOUS
    <3>1. q \in sent /\ q.sender = s /\ q.id \in r.store
      BY <2>2
    <3>2. q.clock[s] >= 1 /\ q.clock[s] <= r.delivered[s]
      BY <2>1, <2>2, <3>1 DEF StoreOK, PastOK
    <3>3. q.clock[s] \in Nat /\ r.delivered[s] \in Nat
      BY <2>3, <3>1
    <3> HIDE DEF s, r
    <3>4. QED
      BY <3>2, <3>3
  <2>7. \A q, o \in earlier : q.clock[s] = o.clock[s] => q = o
    <3> SUFFICES ASSUME NEW q \in earlier, NEW o \in earlier, q.clock[s] = o.clock[s], q # o
                 PROVE  FALSE
      OBVIOUS
    <3>1. q \in sent /\ o \in sent /\ q.sender = s /\ o.sender = s
      OBVIOUS
    <3>2. q.clock[s] \in Nat /\ o.clock[s] \in Nat
      BY <2>3, <3>1
    <3> HIDE DEF s, earlier
    <3>3. q.clock[q.sender] <= o.clock[q.sender]
      BY <3>1, <3>2
    <3>4. q.id \in past[o.id]
      BY <2>1, <3>1, <3>3 DEF PastOK
    <3>5. q.clock[o.sender] < o.clock[o.sender]
      BY <2>1, <3>1, <3>4 DEF PastOK
    <3>6. QED
      BY <3>1, <3>2, <3>5
  <2>8. r.delivered[s] \in Nat /\ p.clock[s] \in Nat
    BY <2>3
  <2> HIDE DEF r, s, earlier
  <2>9. IsFiniteSet(D) /\ Cardinality(D) = r.delivered[s]
    <3> DEFINE N == r.delivered[s]
    <3>1. N \in Nat /\ D = 1..N
      BY <2>8
    <3> HIDE DEF N, D
    <3>2. IsFiniteSet(1..N) /\ Cardinality(1..N) = IF 1 > N THEN 0 ELSE N - 1 + 1
      BY <3>1, FS_Interval
    <3>3. Cardinality(D) = N
      BY <3>1, <3>2
    <3>4. QED
      BY <3>1, <3>2, <3>3 DEF N
  <2>10. g \in Injection(earlier, D)
    BY <2>6, <2>7 DEF Injection, IsInjective
  <2> HIDE DEF g, D
  <2>11. IsFiniteSet(earlier) /\ Cardinality(earlier) <= r.delivered[s]
    BY <2>9, <2>10, FS_Injection
  <2>12. Cardinality(earlier) \in Nat
    BY <2>11, FS_CardinalityType
  <2>13. p.clock[s] > Cardinality(earlier) + 1
    BY <2>5, <2>8, <2>11, <2>12
  <2>14. QED
    BY <2>13 DEF s, earlier
<1>2. QED
  BY <1>1, Invariant, PTL
=============================================================================
