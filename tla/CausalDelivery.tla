--------------------------- MODULE CausalDelivery ---------------------------
(***************************************************************************)
(* Causal delivery of replicas: VectorClock and ReplicationManager of      *)
(* node/replication.py, LamportClock and MessageReorderer of               *)
(* node/time_sync.py.  Each node creates messages and gets copies of the   *)
(* other nodes' messages, with their clocks, in any order and more than    *)
(* once; a copy whose causes are missing waits in a buffer.                *)
(*                                                                         *)
(* The copies carry the clocks, as in tests/test_integration.py.  The gRPC *)
(* path leaves them out (server.py:80): every copy is then deliverable.    *)
(* create_message is one step.  The handler of a copy is cut where it      *)
(* takes the reorderer's lock and at each message its flush looks at, for  *)
(* other threads of the node use the clocks and the store meanwhile.       *)
(***************************************************************************)
EXTENDS Integers, SequencesExt

CONSTANTS
    Node,
    MessageCount,   \* bound: messages created, all nodes together
    MaxExtras       \* bound: copies that reach a node where one is already on
                    \* its way or waits, and Raft entries applied, together

ASSUME NodeAssumption == IsFiniteSet(Node)
ASSUME BoundsAssumption == {MessageCount, MaxExtras} \subseteq Nat

\* A message's id also ranks its timestamp.  The wall clocks of two nodes need
\* not agree, so ids are created in any order.
Message == 1..MessageCount

VARIABLES
    rm,         \* rm[n]: the ReplicationManager of n, see InitialManager
    sent,       \* the messages create_message made
    extras,     \* counted for the bound
    \* history, read by no action
    past,       \* past[m]: the causes of m, the messages its sender had, and theirs
    forced      \* the nodes that let a buffered message reach BUFFER_TIMEOUT

vars == <<rm, sent, extras, past, forced>>

\* calls[m] is the threads that have a copy of m to hand to the reorderer.
\* delivered, ids and buffer are the reorderer's _delivered, _delivered_ids and
\* _buffer, the last sorted, with whether the message has been in it for
\* BUFFER_TIMEOUT.  `at` is the place a flush has come to, 0 if the lock is free.
\* store holds the ids in the MessageStore.
InitialManager ==
    [clock |-> [k \in Node |-> 0], lamport |-> 0, store |-> {},
     calls |-> [m \in Message |-> 0],
     delivered |-> [k \in Node |-> 0], ids |-> {}, buffer |-> <<>>, at |-> 0]

Init ==
    /\ rm = [n \in Node |-> InitialManager]
    /\ sent = {}
    /\ extras = 0
    /\ past = [m \in Message |-> {}]
    /\ forced = {}

Larger(a, b) == IF a >= b THEN a ELSE b

-----------------------------------------------------------------------------
(* The clocks.  An operator whose name begins with Bad is a mutation of    *)
(* the one after it, used by no specification.                             *)

\* VectorClock.tick and LamportClock.tick.
Tick(r, n) == [r EXCEPT !.clock[n] = @ + 1, !.lamport = @ + 1]

BadMerge(mine, theirs, n) == [mine EXCEPT ![n] = @ + 1]

\* VectorClock.update: the receipt is an event of n, too.
Merge(mine, theirs, n) ==
    [k \in Node |-> Larger(mine[k], theirs[k]) + (IF k = n THEN 1 ELSE 0)]

BadLamportUpdate(mine, theirs) == mine + 1

LamportUpdate(mine, theirs) == Larger(mine, theirs) + 1

HappenedBefore(a, b) == (\A k \in Node : a[k] <= b[k]) /\ (\E k \in Node : a[k] < b[k])

-----------------------------------------------------------------------------
(* MessageReorderer                                                        *)

BadCanDeliver(delivered, p) ==
    \A k \in Node : IF k = p.sender THEN p.clock[k] > delivered[k]
                                    ELSE p.clock[k] <= delivered[k]

BadRepeats(delivered, p) ==
    \A k \in Node : p.clock[k] <= delivered[k] + (IF k = p.sender THEN 1 ELSE 0)

\* The next event of its sender, who knew of nothing that is not delivered.
CanDeliver(delivered, p) ==
    \A k \in Node : IF k = p.sender THEN p.clock[k] = delivered[k] + 1
                                    ELSE p.clock[k] <= delivered[k]

BadMarkOnly(r, n, p) ==
    [r EXCEPT !.ids = @ \union {p.id}, !.delivered[p.sender] = p.clock[p.sender]]

\* The callback of receive_replica, then _mark_delivered.  The callback replaces
\* the message's clock by the node's own before _mark_delivered reads it.
Deliver(r, n, p) ==
    LET c == Merge(r.clock, p.clock, n)
    IN [r EXCEPT !.clock = c, !.store = @ \union {p.id}, !.ids = @ \union {p.id},
                 !.delivered[p.sender] = Larger(@, c[p.sender])]

\* By _sort_key: Lamport time, then timestamp.
Before(p, q) == p.lamport < q.lamport \/ (p.lamport = q.lamport /\ p.id < q.id)

\* Where the stable sort puts a newcomer.
Place(buffer, p) ==
    Cardinality({k \in DOMAIN buffer : ~Before(p, buffer[k].msg)}) + 1

\* What a pass that comes to place i would deliver.
Due(r, i) ==
    {k \in i..Len(r.buffer) :
        r.buffer[k].late \/ CanDeliver(r.delivered, r.buffer[k].msg)}

\* _flush at place i: it begins again if that pass finds nothing more, and ends if
\* the next finds nothing.
FlushFrom(r, i) ==
    [r EXCEPT !.at = IF Due(r, i) # {} THEN i ELSE IF Due(r, 1) # {} THEN 1 ELSE 0]

Buffered(r, p) ==
    IF p.id \in r.ids THEN r
    ELSE FlushFrom([r EXCEPT !.buffer =
                        InsertAt(@, Place(@, p), [msg |-> p, late |-> FALSE])], 1)

BadRelease(r, n, k) ==
    [Deliver(r, n, r.buffer[k].msg) EXCEPT !.buffer = RemoveAt(@, k), !.at = 0]

\* The for loop delivers what is at place k.
Release(r, n, k) ==
    FlushFrom([Deliver(r, n, r.buffer[k].msg) EXCEPT !.buffer = RemoveAt(@, k)], k)

-----------------------------------------------------------------------------
(* ReplicationManager                                                      *)

Created == {p.id : p \in sent}

\* create_message, and write's save to the node's own store.
CreateMessage(n, m) ==
    LET r == Tick(rm[n], n)
    IN /\ m \notin Created
       /\ sent' = sent \union {[id |-> m, sender |-> n, clock |-> r.clock,
                                lamport |-> r.lamport]}
       /\ rm' = [rm EXCEPT ![n] = [r EXCEPT !.store = @ \union {m}]]
       /\ past' = [past EXCEPT ![m] = UNION {{x} \union past[x] : x \in rm[n].store}]
       /\ UNCHANGED <<extras, forced>>

\* Another copy of p is in the hands of a thread, or waits.
Expected(r, p) == r.calls[p.id] > 0 \/ \E k \in DOMAIN r.buffer : r.buffer[k].msg = p

\* A copy that is no duplicate moves the Lamport clock as it arrives; the vector
\* clock moves when it is delivered.
ReceiveReplica(n, p) ==
    /\ p.sender # n /\ p.id \notin rm[n].store
    /\ extras' = extras + (IF Expected(rm[n], p) THEN 1 ELSE 0)
    /\ extras' <= MaxExtras
    /\ rm' = [rm EXCEPT ![n].lamport = LamportUpdate(@, p.lamport),
                        ![n].calls[p.id] = @ + 1]
    /\ UNCHANGED <<sent, past, forced>>

\* Its thread gets the lock; the message may have been delivered by now.
TryDeliver(n, p) ==
    /\ rm[n].at = 0 /\ rm[n].calls[p.id] > 0
    /\ rm' = [rm EXCEPT ![n] = Buffered([rm[n] EXCEPT !.calls[p.id] = @ - 1], p)]
    /\ UNCHANGED <<sent, extras, past, forced>>

\* A flush comes to the next message that is due.
DeliverNext(n) ==
    /\ rm[n].at > 0
    /\ \E k \in Due(rm[n], rm[n].at) :
         /\ \A j \in Due(rm[n], rm[n].at) : k <= j
         /\ rm' = [rm EXCEPT ![n] = Release(@, n, k)]
    /\ UNCHANGED <<sent, extras, past, forced>>

\* A committed Raft entry becomes a message of n that no other node gets.
ApplyCommittedEntry(n) ==
    /\ extras < MaxExtras
    /\ extras' = extras + 1
    /\ rm' = [rm EXCEPT ![n] = Tick(@, n)]
    /\ UNCHANGED <<sent, past, forced>>

\* A buffered message becomes late.  No timer acts on it: the next flush does, by
\* the time at which it begins.  time.time() may be set back, so any may be first.
Expire(n) ==
    /\ rm[n].at = 0
    /\ \E k \in DOMAIN rm[n].buffer :
         ~rm[n].buffer[k].late /\ rm' = [rm EXCEPT ![n].buffer[k].late = TRUE]
    /\ forced' = forced \union {n}
    /\ UNCHANGED <<sent, extras, past>>

Next ==
    \/ \E n \in Node, m \in Message : CreateMessage(n, m)
    \/ \E n \in Node, p \in sent : ReceiveReplica(n, p) \/ TryDeliver(n, p)
    \/ \E n \in Node : DeliverNext(n) \/ ApplyCommittedEntry(n) \/ Expire(n)

Spec == Init /\ [][Next]_vars

-----------------------------------------------------------------------------
(* Properties.                                                             *)

Clock == [Node -> Nat]

Packet == [id : Message, sender : Node, clock : Clock, lamport : Nat]

Manager ==
    [clock : Clock, lamport : Nat, store : SUBSET Message, calls : [Message -> Nat],
     delivered : Clock, ids : SUBSET Message,
     buffer : Seq([msg : Packet, late : BOOLEAN]), at : Nat]

\* The type invariant: what waits was sent by another node, what was delivered is
\* in the store.
TypeOK ==
    /\ rm \in [Node -> Manager]
    /\ \A n \in Node :
         /\ rm[n].ids \subseteq rm[n].store /\ rm[n].store \subseteq Created
         /\ \A k \in DOMAIN rm[n].buffer : rm[n].buffer[k].msg \in {p \in sent : p.sender # n}
         /\ rm[n].at \in 0..Len(rm[n].buffer)
    /\ sent \subseteq Packet
    /\ extras \in 0..MaxExtras
    /\ past \in [Message -> SUBSET Created]
    /\ forced \subseteq Node

\* A node on which no message timed out has, of every message it delivered, all
\* the causes: whatever the order of arrival, and with copies that arrive twice.
CausalOrder ==
    \A n \in Node \ forced : \A m \in rm[n].store : past[m] \subseteq rm[n].store

\* happened_before, on the clocks two messages carry, is causality: it neither
\* misses a cause nor invents one, timeouts included.
ClocksTellCausality ==
    \A p, q \in sent : HappenedBefore(p.clock, q.clock) <=> p.id \in past[q.id]

\* A cause has the smaller Lamport time, although messages are delivered long
\* after they arrived: sorting by it never puts an effect first.
LamportFollowsCausality ==
    \A p, q \in sent : p.id \in past[q.id] => p.lamport < q.lamport

\* No flush leaves a message in the buffer whose condition is met.
NothingReadyWaits ==
    \A n \in Node : rm[n].at = 0 =>
        \A k \in DOMAIN rm[n].buffer : ~CanDeliver(rm[n].delivered, rm[n].buffer[k].msg)

\* What a node has delivered is not delivered to it again by its condition, though
\* two threads may have been given it at once.  (By its timeout it may be.)
DeliveredOnce ==
    \A n \in Node : \A k \in DOMAIN rm[n].buffer :
        rm[n].buffer[k].msg.id \in rm[n].ids
            => ~CanDeliver(rm[n].delivered, rm[n].buffer[k].msg)

\* n has not delivered p, which waits there, and has all causes of it.
Unblocked(n, p) ==
    /\ \E k \in DOMAIN rm[n].buffer : rm[n].buffer[k].msg = p
    /\ rm[n].at = 0 /\ p.id \notin rm[n].store /\ past[p.id] \subseteq rm[n].store

\* Why a message waits although all its causes are there: its sender counted
\* other events than messages, or knew of a message of the receiver's own.
WaitsForAGap ==
    \A n \in Node \ forced, p \in sent :
        LET earlier == {q \in sent : q.sender = p.sender /\ q.id \in past[p.id]}
        IN Unblocked(n, p) => \/ p.clock[n] > 0
                              \/ p.clock[p.sender] > Cardinality(earlier) + 1
=============================================================================
