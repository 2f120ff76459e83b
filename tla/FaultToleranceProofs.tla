------------------------ MODULE FaultToleranceProofs ------------------------
(***************************************************************************)
(* Proofs about FaultTolerance, for every cluster, every number of         *)
(* messages and every bound on crashes and faults: types, that what is     *)
(* owed is stored, that no message a node inserted for a client is         *)
(* forgotten under full replication, that each such duty moves on, and that*)
(* the layer implements ReplicatedInbox.                                   *)
(***************************************************************************)
EXTENDS FaultTolerance, FiniteSetTheorems, TLAPS

-----------------------------------------------------------------------------
(* Type correctness.  An action proof has a step for each part of TypeOK   *)
(* the action can disturb; the others are unchanged.                       *)

LEMMA PeersAreNodes == \A n \in Node : Peers[n] \subseteq Node
BY PeersAssumption DEF PeersAssumption

LEMMA TypeInit == Init => TypeOK
<1> SUFFICES ASSUME Init PROVE TypeOK
  OBVIOUS
<1>1. DiskOK
  BY DEF Init, DiskOK
<1>2. ProcessOK
  BY ThresholdAssumption DEF ThresholdAssumption, Init, ProcessOK
<1>3. ThreadsOK
  BY ServersAssumption
     DEF ServersAssumption, Init, ThreadsOK, HandlerRecord, HandlerPC, ClientRecord,
         IdleHandler, IdleRetry, IdleRecovered
<1>4. BoundsOK /\ HistoryOK
  BY BoundAssumption DEF BoundAssumption, Init, BoundsOK, HistoryOK
<1>5. QED
  BY <1>1, <1>2, <1>3, <1>4 DEF TypeOK

\* Writing one entry of a function of functions.
LEMMA NestedUpdate ==
    ASSUME NEW S, NEW T, NEW V, NEW f \in [S -> [T -> V]],
           NEW s \in S, NEW t \in T, NEW v \in V
    PROVE  /\ [f EXCEPT ![s][t] = v] \in [S -> [T -> V]]
           /\ \A x \in S, y \in T :
                [f EXCEPT ![s][t] = v][x][y] = IF x = s /\ y = t THEN v ELSE f[x][y]
OBVIOUS

\* A call to a peer and the queueing of a failed one keep the disks' types.
LEMMA CallTypes ==
    ASSUME DiskOK, BoundsOK, NEW n \in Node, NEW p \in Node, NEW m \in Message,
           NEW ok \in BOOLEAN, TryReplicate(p, m, ok), QueueUnless(ok, n, p, m)
    PROVE  DiskOK' /\ faults' \in 0..MaxFaults
<1>1. store' \in [Node -> SUBSET Message]
  BY DEF DiskOK, TryReplicate, SaveMessage
<1>2. pending' \in [Node -> SUBSET (Node \X Message)]
  BY DEF DiskOK, QueueUnless, Enqueue
<1>3. faults' \in 0..MaxFaults
  BY BoundAssumption DEF BoundAssumption, BoundsOK, TryReplicate
<1>4. QED
  BY <1>1, <1>2, <1>3 DEF DiskOK

\* Updates of the records of the threads that drain the queue.
LEMMA RecoveredUpdate ==
    ASSUME NEW r \in [started : BOOLEAN, batch : SUBSET Message], NEW m
    PROVE  /\ [r EXCEPT !.started = TRUE] \in [started : BOOLEAN, batch : SUBSET Message]
           /\ [r EXCEPT !.batch = @ \ {m}] \in [started : BOOLEAN, batch : SUBSET Message]
OBVIOUS

LEMMA RetryUpdate ==
    ASSUME NEW r \in [peers : SUBSET Node, batch : SUBSET (Node \X Message)], NEW row
    PROVE  [r EXCEPT !.batch = @ \ {row}]
             \in [peers : SUBSET Node, batch : SUBSET (Node \X Message)]
OBVIOUS

LEMMA HandlerTypes ==
    ASSUME TypeOK, NEW n \in Node, NEW m \in Message, HandlerStep(n, m)
    PROVE  TypeOK'
<1>1. handler[n][m] \in HandlerRecord
  BY DEF TypeOK, ThreadsOK
<1>2. ASSUME NEW h \in HandlerRecord, handler' = [handler EXCEPT ![n][m] = h]
      PROVE  handler' \in [Node -> [Message -> HandlerRecord]]
  BY <1>2, NestedUpdate DEF TypeOK, ThreadsOK
<1>3. CASE GetLivePeers(n, m)
  <2>1. [handler[n][m] EXCEPT !.pc = "sending", !.peers = LivePeers(n)] \in HandlerRecord
    BY <1>1, PeersAreNodes DEF HandlerRecord, HandlerPC, LivePeers
  <2>2. ThreadsOK'
    BY <1>2, <1>3, <2>1 DEF GetLivePeers, TypeOK, ThreadsOK
  <2>3. QED
    BY <1>3, <2>2 DEF GetLivePeers, disk, process, history, TypeOK,
       DiskOK, ProcessOK, BoundsOK, HistoryOK
<1>4. ASSUME NEW p \in Node, ReplicateToPeer(n, m, p) PROVE TypeOK'
  <2> PICK ok \in BOOLEAN :
        /\ TryReplicate(p, m, ok)
        /\ QueueUnless(ok, n, p, m)
        /\ handler' = [handler EXCEPT
             ![n][m] = [handler[n][m] EXCEPT
               !.peers = handler[n][m].peers \ {p},
               !.acks = IF ok THEN handler[n][m].acks \union {p}
                              ELSE handler[n][m].acks]]
    BY <1>4 DEF ReplicateToPeer
  <2>1. [handler[n][m] EXCEPT !.peers = @ \ {p},
                              !.acks = IF ok THEN @ \union {p} ELSE @] \in HandlerRecord
    BY <1>1 DEF HandlerRecord
  <2>2. ThreadsOK'
    BY <1>2, <1>4, <2>1 DEF ReplicateToPeer, TypeOK, ThreadsOK
  <2>3. DiskOK' /\ BoundsOK'
    BY <1>4, CallTypes DEF ReplicateToPeer, TypeOK, BoundsOK
  <2>4. QED
    BY <1>4, <2>2, <2>3 DEF ReplicateToPeer, process, history, TypeOK,
       ProcessOK, HistoryOK
<1>5. CASE EndOfLivePeers(n, m)
  <2>1. [handler[n][m] EXCEPT !.pc = "checking", !.peers = Peers[n]] \in HandlerRecord
    BY <1>1, PeersAreNodes DEF HandlerRecord, HandlerPC
  <2>2. ThreadsOK'
    BY <1>2, <1>5, <2>1 DEF EndOfLivePeers, TypeOK, ThreadsOK
  <2>3. QED
    BY <1>5, <2>2 DEF EndOfLivePeers, disk, process, history, TypeOK,
       DiskOK, ProcessOK, BoundsOK, HistoryOK
<1>6. ASSUME NEW p \in Node, CheckDead(n, m, p) PROVE TypeOK'
  <2>1. [handler[n][m] EXCEPT !.peers = @ \ {p},
                              !.dead = IF alive[n][p] THEN @ ELSE @ \union {p}]
          \in HandlerRecord
    BY <1>1 DEF HandlerRecord
  <2>2. ThreadsOK'
    BY <1>2, <1>6, <2>1 DEF CheckDead, TypeOK, ThreadsOK
  <2>3. QED
    BY <1>6, <2>2 DEF CheckDead, disk, process, history, TypeOK,
       DiskOK, ProcessOK, BoundsOK, HistoryOK
<1>7. ASSUME NEW p \in Node, EnqueueDead(n, m, p) PROVE TypeOK'
  <2>1. [handler[n][m] EXCEPT !.dead = @ \ {p}] \in HandlerRecord
    BY <1>1 DEF HandlerRecord
  <2>2. ThreadsOK'
    BY <1>2, <1>7, <2>1 DEF EnqueueDead, TypeOK, ThreadsOK
  <2>3. DiskOK'
    BY <1>7 DEF EnqueueDead, Enqueue, TypeOK, DiskOK
  <2>4. QED
    BY <1>7, <2>2, <2>3 DEF EnqueueDead, process, history, TypeOK,
       ProcessOK, BoundsOK, HistoryOK
<1>8. CASE FinishHandler(n, m)
  <2>1. IdleHandler \in HandlerRecord
    BY DEF IdleHandler, HandlerRecord, HandlerPC
  <2>2. client' \in [Message -> ClientRecord]
    BY <1>8 DEF FinishHandler, TypeOK, ThreadsOK, ClientRecord, Answered
  <2>3. ThreadsOK'
    BY <1>2, <1>8, <2>1, <2>2 DEF FinishHandler, TypeOK, ThreadsOK
  <2>4. QED
    BY <1>8, <2>3 DEF FinishHandler, disk, process, history, TypeOK,
       DiskOK, ProcessOK, BoundsOK, HistoryOK
<1>9. QED
  BY <1>3, <1>4, <1>5, <1>6, <1>7, <1>8 DEF HandlerStep
LEMMA TypeNext == TypeOK /\ [Next]_vars => TypeOK'
<1> SUFFICES ASSUME TypeOK, [Next]_vars PROVE TypeOK'
  OBVIOUS
<1> USE DEF TypeOK, disk, process, threads, history
<1>1. ASSUME NEW m \in Message, NEW x \in Node \union {NoNode},
             client' = [client EXCEPT ![m] = AfterError(m, x)],
             UNCHANGED <<disk, process, threads, crashes, faults, history>>
      PROVE  TypeOK'
  <2>1. AfterError(m, x) \in ClientRecord
    BY DEF AfterError, ThreadsOK, ClientRecord
  <2>2. client' \in [Message -> ClientRecord]
    BY <1>1, <2>1 DEF ThreadsOK
  <2>3. QED
    BY <1>1, <2>2 DEF DiskOK, ProcessOK, ThreadsOK, BoundsOK, HistoryOK
<1>2. ASSUME NEW m \in Message, ClientTimeout(m) PROVE TypeOK'
  <2>1. client[m].at \in Node \union {NoNode}
    BY DEF ThreadsOK, ClientRecord
  <2>2. QED
    BY <1>1, <1>2, <2>1 DEF ClientTimeout
<1>3. ASSUME NEW n \in Node, NEW m \in Message, SendFails(m, n) PROVE TypeOK'
  BY <1>1, <1>3 DEF SendFails
<1>4. ASSUME NEW n \in Node, NEW m \in Message, HandleClientMessage(n, m) PROVE TypeOK'
  <2>1. store' \in [Node -> SUBSET Message]
    BY <1>4 DEF HandleClientMessage, SaveMessage, DiskOK
  <2>2. [IdleHandler EXCEPT !.pc = "stored"] \in HandlerRecord
    BY DEF IdleHandler, HandlerRecord, HandlerPC
  <2>3. handler' \in [Node -> [Message -> HandlerRecord]]
    BY <1>4, <2>2, NestedUpdate DEF HandleClientMessage, ThreadsOK
  <2>4. client' \in [Message -> ClientRecord]
    BY <1>4 DEF HandleClientMessage, ThreadsOK, ClientRecord
  <2>5. QED
    BY <1>4, <2>1, <2>3, <2>4 DEF HandleClientMessage, DiskOK, ProcessOK, ThreadsOK,
       BoundsOK, HistoryOK
<1>5. ASSUME NEW n \in Node, NEW m \in Message, HandleDuplicate(n, m) PROVE TypeOK'
  <2>1. client' \in [Message -> ClientRecord]
    BY <1>5 DEF HandleDuplicate, Answered, ThreadsOK, ClientRecord
  <2>2. QED
    BY <1>5, <2>1 DEF HandleDuplicate, DiskOK, ProcessOK, ThreadsOK, BoundsOK, HistoryOK
<1>6. ASSUME NEW n \in Node, NEW p \in Node, PingAnswered(n, p) PROVE TypeOK'
  <2>1. missed' \in [Node -> [Node -> 0..Threshold]]
    <3>1. 0 \in 0..Threshold
      BY ThresholdAssumption DEF ThresholdAssumption
    <3>2. QED
      BY <1>6, <3>1, NestedUpdate DEF PingAnswered, ProcessOK
  <2>2. alive' \in [Node -> [Node -> BOOLEAN]]
    BY <1>6, NestedUpdate DEF PingAnswered, ProcessOK
  <2>3. recovered' \in [Node -> [Node -> [started : BOOLEAN, batch : SUBSET Message]]]
    <3>1. [recovered[n][p] EXCEPT !.started = TRUE]
            \in [started : BOOLEAN, batch : SUBSET Message]
      <4>1. recovered[n][p] \in [started : BOOLEAN, batch : SUBSET Message]
        BY DEF ThreadsOK
      <4>2. QED
        BY <4>1, RecoveredUpdate
    <3>2. QED
      BY <1>6, <3>1, NestedUpdate DEF PingAnswered, ThreadsOK
  <2>4. raced' \subseteq Node \X Node \X Message
    BY <1>6 DEF PingAnswered, HistoryOK
  <2>5. QED
    BY <1>6, <2>1, <2>2, <2>3, <2>4
       DEF PingAnswered, DiskOK, ProcessOK, ThreadsOK, BoundsOK, HistoryOK
<1>7. ASSUME NEW n \in Node, NEW p \in Node, PingMissed(n, p) PROVE TypeOK'
  <2> DEFINE count == IF missed[n][p] < Threshold THEN missed[n][p] + 1 ELSE Threshold
  <2>1. count \in 0..Threshold
    BY ThresholdAssumption DEF ThresholdAssumption, ProcessOK
  <2>2. missed' \in [Node -> [Node -> 0..Threshold]]
    BY <1>7, <2>1, NestedUpdate DEF PingMissed, ProcessOK
  <2>3. alive' \in [Node -> [Node -> BOOLEAN]]
    <3>1. (IF count >= Threshold THEN FALSE ELSE alive[n][p]) \in BOOLEAN
      BY DEF ProcessOK
    <3>2. QED
      BY <1>7, <3>1, NestedUpdate DEF PingMissed, ProcessOK
  <2>4. BoundsOK'
    BY <1>7, BoundAssumption DEF BoundAssumption, PingMissed, BoundsOK
  <2>5. QED
    BY <1>7, <2>2, <2>3, <2>4 DEF PingMissed, DiskOK, ProcessOK, ThreadsOK, HistoryOK
<1>8. ASSUME NEW n \in Node, NEW p \in Node, RecoverFromPeer(n, p) PROVE TypeOK'
  <2>1. DiskOK' /\ ProcessOK'
    BY <1>8 DEF RecoverFromPeer, MergeMessages, DiskOK, ProcessOK
  <2>2. BoundsOK'
    BY <1>8, BoundAssumption DEF BoundAssumption, RecoverFromPeer, BoundsOK
  <2>3. QED
    BY <1>8, <2>1, <2>2 DEF RecoverFromPeer, ThreadsOK, HistoryOK
<1>9. ASSUME NEW n \in Node, RetryRound(n) PROVE TypeOK'
  <2>1. ThreadsOK'
    BY <1>9, PeersAreNodes DEF RetryRound, LivePeers, ThreadsOK
  <2>2. QED
    BY <1>9, <2>1 DEF RetryRound, DiskOK, ProcessOK, BoundsOK, HistoryOK
<1>10. ASSUME NEW n \in Node, NEW p \in Node, RetryDrain(n, p) \/ RecoveredDrain(n, p)
       PROVE  TypeOK'
  <2>1. RowsFor(n, p) \subseteq Node \X Message /\ DiskOK'
    BY <1>10 DEF RetryDrain, RecoveredDrain, RowsFor, Drain, DiskOK
  <2>2. {row[2] : row \in RowsFor(n, p)} \subseteq Message
    BY <2>1
  <2>3. CASE RetryDrain(n, p)
    BY <2>3, <2>1 DEF RetryDrain, ProcessOK, ThreadsOK, BoundsOK, HistoryOK
  <2>4. CASE RecoveredDrain(n, p)
    <3>1. [started |-> FALSE, batch |-> recovered[n][p].batch
                                        \union {row[2] : row \in RowsFor(n, p)}]
            \in [started : BOOLEAN, batch : SUBSET Message]
      BY <2>2 DEF ThreadsOK
    <3>2. recovered' \in [Node -> [Node -> [started : BOOLEAN, batch : SUBSET Message]]]
      BY <2>4, <3>1, NestedUpdate DEF RecoveredDrain, ThreadsOK
    <3>3. QED
      BY <2>4, <2>1, <3>2 DEF RecoveredDrain, ProcessOK, ThreadsOK, BoundsOK, HistoryOK
  <2>5. QED
    BY <1>10, <2>3, <2>4
<1>11. ASSUME NEW n \in Node, NEW p \in Node, NEW m \in Message,
              RetrySend(n, p, m) \/ RecoveredSend(n, p, m)
       PROVE  TypeOK'
  <2>1. DiskOK' /\ BoundsOK'
    BY <1>11, CallTypes DEF RetrySend, RecoveredSend, BoundsOK
  <2>2. CASE RetrySend(n, p, m)
    <3>1. retry[n] \in [peers : SUBSET Node, batch : SUBSET (Node \X Message)]
      BY DEF ThreadsOK
    <3>2. retry' \in [Node -> [peers : SUBSET Node, batch : SUBSET (Node \X Message)]]
      BY <2>2, <3>1, RetryUpdate DEF RetrySend, ThreadsOK
    <3>3. QED
      BY <2>1, <2>2, <3>2 DEF RetrySend, ProcessOK, ThreadsOK, HistoryOK
  <2>3. CASE RecoveredSend(n, p, m)
    <3>1. [recovered[n][p] EXCEPT !.batch = @ \ {m}]
            \in [started : BOOLEAN, batch : SUBSET Message]
      <4>1. recovered[n][p] \in [started : BOOLEAN, batch : SUBSET Message]
        BY DEF ThreadsOK
      <4>2. QED
        BY <4>1, RecoveredUpdate
    <3>2. recovered' \in [Node -> [Node -> [started : BOOLEAN, batch : SUBSET Message]]]
      BY <2>3, <3>1, NestedUpdate DEF RecoveredSend, ThreadsOK
    <3>3. QED
      BY <2>1, <2>3, <3>2 DEF RecoveredSend, ProcessOK, ThreadsOK, HistoryOK
  <2>4. QED
    BY <1>11, <2>2, <2>3
<1>12. ASSUME NEW n \in Node, Crash(n) PROVE TypeOK'
  <2>1. ProcessOK'
    BY <1>12, ThresholdAssumption DEF ThresholdAssumption, Crash, ProcessOK
  <2>2. [x \in Message |-> IdleHandler] \in [Message -> HandlerRecord]
    BY DEF IdleHandler, HandlerRecord, HandlerPC
  <2>3. ThreadsOK'
    BY <1>12, <2>2 DEF Crash, IdleRetry, IdleRecovered, ThreadsOK
  <2>4. BoundsOK' /\ HistoryOK'
    BY <1>12, BoundAssumption, PeersAreNodes DEF BoundAssumption, Crash, BoundsOK, HistoryOK
  <2>5. QED
    BY <1>12, <2>1, <2>3, <2>4 DEF Crash, DiskOK
<1>13. ASSUME NEW n \in Node, Start(n) PROVE TypeOK'
  BY <1>13, PeersAreNodes DEF Start, DiskOK, ProcessOK, ThreadsOK, BoundsOK, HistoryOK
<1>14. CASE UNCHANGED vars
  BY <1>14 DEF vars, DiskOK, ProcessOK, ThreadsOK, BoundsOK, HistoryOK
<1>15. QED
  BY <1>2, <1>3, <1>4, <1>5, <1>6, <1>7, <1>8, <1>9, <1>10, <1>11, <1>12, <1>13,
     <1>14, HandlerTypes DEF Next, DrainStep

\* Every variable keeps the type its declaration describes.
THEOREM TypeCorrect == Spec => []TypeOK
BY TypeInit, TypeNext, PTL DEF Spec

-----------------------------------------------------------------------------
(* What steps do to the disks: stores only grow, and rows leave the queue  *)
(* through a drain only.                                                   *)

\* A call with the queueing of its failure adds at most m to p's store and
\* <<p, m>> to n's queue, and at least one of the two is there afterwards.
LEMMA CallEffect ==
    ASSUME DiskOK, NEW n \in Node, NEW p \in Node, NEW m \in Message,
           NEW ok \in BOOLEAN, TryReplicate(p, m, ok), QueueUnless(ok, n, p, m)
    PROVE  /\ \A x \in Node : store[x] \subseteq store'[x]
           /\ \A x \in Node : pending[x] \subseteq pending'[x]
           /\ \A x \in Node : \A row \in pending'[x] :
                 row \in pending[x] \/ (x = n /\ row = <<p, m>>)
           /\ \A x \in Node : \A id \in store'[x] :
                 id \in store[x] \/ (x = p /\ id = m)
           /\ m \in store'[p] \/ <<p, m>> \in pending'[n]
<1>1. \/ store' = store
      \/ store' = [store EXCEPT ![p] = @ \union {m}]
  BY DEF TryReplicate, SaveMessage
<1>2. \/ pending' = pending
      \/ pending' = [pending EXCEPT ![n] = @ \union {<<p, m>>}]
  BY DEF QueueUnless, Enqueue
<1>3. m \in store'[p] \/ <<p, m>> \in pending'[n]
  BY DEF DiskOK, TryReplicate, SaveMessage, QueueUnless, Enqueue
<1>4. QED
  BY <1>1, <1>2, <1>3 DEF DiskOK

LEMMA StoreGrows ==
    ASSUME TypeOK, [Next]_vars
    PROVE  \A x \in Node : store[x] \subseteq store'[x]
<1> USE DEF TypeOK, DiskOK, disk
<1>1. ASSUME NEW n \in Node, NEW m \in Message, SaveMessage(n, m)
      PROVE  \A x \in Node : store[x] \subseteq store'[x]
  BY <1>1 DEF SaveMessage
<1>2. ASSUME NEW n \in Node, NEW m \in Message, NEW p \in Node,
             \/ ReplicateToPeer(n, m, p) \/ RetrySend(n, p, m)
             \/ RecoveredSend(n, p, m)
      PROVE  \A x \in Node : store[x] \subseteq store'[x]
  <2>1. PICK ok \in BOOLEAN : TryReplicate(p, m, ok) /\ QueueUnless(ok, n, p, m)
    BY <1>2 DEF ReplicateToPeer, RetrySend, RecoveredSend
  <2>2. QED
    BY <2>1, CallEffect
<1>3. ASSUME NEW n \in Node, NEW p \in Node, RecoverFromPeer(n, p)
      PROVE  \A x \in Node : store[x] \subseteq store'[x]
  BY <1>3 DEF RecoverFromPeer, MergeMessages
<1>4. ASSUME NEW n \in Node, NEW m \in Message, HandleClientMessage(n, m)
      PROVE  SaveMessage(n, m)
  BY <1>4 DEF HandleClientMessage
<1>5. ASSUME NEW n \in Node, NEW m \in Message,
             \/ SendFails(m, n) \/ HandleDuplicate(n, m)
             \/ GetLivePeers(n, m) \/ EndOfLivePeers(n, m) \/ FinishHandler(n, m)
      PROVE  UNCHANGED store
  BY <1>5 DEF SendFails, HandleDuplicate, GetLivePeers, EndOfLivePeers, FinishHandler
<1>6. ASSUME NEW n \in Node, NEW p \in Node, NEW m \in Message,
             CheckDead(n, m, p) \/ EnqueueDead(n, m, p)
      PROVE  UNCHANGED store
  BY <1>6 DEF CheckDead, EnqueueDead
<1>7. ASSUME NEW n \in Node, NEW p \in Node,
             \/ PingAnswered(n, p) \/ PingMissed(n, p)
             \/ RetryDrain(n, p) \/ RecoveredDrain(n, p)
      PROVE  UNCHANGED store
  BY <1>7 DEF PingAnswered, PingMissed, RetryDrain, RecoveredDrain
<1>8. ASSUME NEW n \in Node, RetryRound(n) \/ Crash(n) \/ Start(n)
      PROVE  UNCHANGED store
  BY <1>8 DEF RetryRound, Crash, Start
<1>9. ASSUME NEW m \in Message, ClientTimeout(m)
      PROVE  UNCHANGED store
  BY <1>9 DEF ClientTimeout
<1>10. CASE UNCHANGED vars
  BY <1>10 DEF vars
<1>11. QED
  BY <1>1, <1>2, <1>3, <1>4, <1>5, <1>6, <1>7, <1>8, <1>9, <1>10
     DEF Next, DrainStep, HandlerStep

-----------------------------------------------------------------------------
(* Nothing that is settled comes undone.                                   *)

\* A duty in the queue or in a drain's batch is still in one of them after a
\* step, or the peer has the message, or the crash of the node is on record.
LEMMA OwedStays ==
    ASSUME TypeOK, [Next]_vars, NEW n \in Node, NEW p \in Peers[n], NEW m \in Message,
           <<p, m>> \in pending[n] \/ Drained(n, p, m)
    PROVE  Settled(n, p, m)'
<1> USE DEF TypeOK, disk, process, threads, history
<1> DEFINE Owed == <<p, m>> \in pending[n] \/ Drained(n, p, m)
<1>0. p \in Node
  BY PeersAreNodes
<1>1. ASSUME UNCHANGED <<pending, retry, recovered>> PROVE Owed'
  BY <1>1 DEF Drained
<1>2. ASSUME NEW x \in Node, NEW y \in Node, NEW id \in Message, ReplicateToPeer(x, id, y)
      PROVE  Owed'
  <2>1. PICK ok \in BOOLEAN : TryReplicate(y, id, ok) /\ QueueUnless(ok, x, y, id)
    BY <1>2 DEF ReplicateToPeer
  <2>2. pending[n] \subseteq pending'[n]
    BY <2>1, CallEffect
  <2>3. QED
    BY <1>2, <2>2 DEF ReplicateToPeer, Drained
<1>3. ASSUME NEW x \in Node, NEW y \in Node, NEW id \in Message, EnqueueDead(x, id, y)
      PROVE  Owed'
  BY <1>3 DEF EnqueueDead, Enqueue, DiskOK, Drained
<1>4. ASSUME NEW x \in Node, NEW y \in Node, PingAnswered(x, y) PROVE Owed'
  <2>1. recovered'[n][p].batch = recovered[n][p].batch
    BY <1>0, <1>4 DEF PingAnswered, ThreadsOK
  <2>2. QED
    BY <1>4, <2>1 DEF PingAnswered, Drained
<1>5. ASSUME NEW x \in Node, RetryRound(x) PROVE Owed'
  <2>1. retry'[n].batch = retry[n].batch
    BY <1>5 DEF RetryRound, ThreadsOK
  <2>2. QED
    BY <1>5, <2>1 DEF RetryRound, Drained
<1>6. ASSUME NEW x \in Node, NEW y \in Node, RetryDrain(x, y) PROVE Owed'
  <2>1. CASE x = n /\ y = p
    BY <1>6, <2>1 DEF RetryDrain, RowsFor, Drained, ThreadsOK
  <2>2. CASE x = n /\ y # p
    <3>1. <<p, m>> \in pending[n] => <<p, m>> \in pending'[n]
      BY <1>6, <2>2 DEF RetryDrain, Drain, RowsFor, DiskOK
    <3>2. <<p, m>> \notin retry[n].batch
      BY <1>6, <2>2 DEF RetryDrain
    <3>3. QED
      BY <1>6, <3>1, <3>2 DEF RetryDrain, Drained
  <2>3. CASE x # n
    BY <1>6, <2>3 DEF RetryDrain, Drain, Drained, DiskOK, ThreadsOK
  <2>4. QED
    BY <2>1, <2>2, <2>3
<1>7. ASSUME NEW x \in Node, NEW y \in Node, RecoveredDrain(x, y) PROVE Owed'
  <2>1. CASE x = n /\ y = p
    <3>1. recovered'[n][p].batch =
            recovered[n][p].batch \union {row[2] : row \in RowsFor(n, p)}
      BY <1>0, <1>7, <2>1 DEF RecoveredDrain, ThreadsOK
    <3>2. <<p, m>> \in pending[n] => <<p, m>> \in RowsFor(n, p)
      BY DEF RowsFor
    <3>3. QED
      BY <1>7, <3>1, <3>2 DEF RecoveredDrain, Drained
  <2>2. CASE ~(x = n /\ y = p)
    <3>1. recovered'[n][p] = recovered[n][p]
      BY <1>0, <1>7, <2>2 DEF RecoveredDrain, ThreadsOK
    <3>2. <<p, m>> \in pending[n] => <<p, m>> \in pending'[n]
      BY <1>7, <2>2 DEF RecoveredDrain, Drain, RowsFor, DiskOK
    <3>3. QED
      BY <1>7, <3>1, <3>2 DEF RecoveredDrain, Drained
  <2>3. QED
    BY <2>1, <2>2
<1>8. ASSUME NEW x \in Node, NEW y \in Node, NEW id \in Message,
             RetrySend(x, y, id) \/ RecoveredSend(x, y, id)
      PROVE  Owed' \/ m \in store'[p]
  <2>1. PICK ok \in BOOLEAN : TryReplicate(y, id, ok) /\ QueueUnless(ok, x, y, id)
    BY <1>8 DEF RetrySend, RecoveredSend
  <2>2. /\ pending[n] \subseteq pending'[n]
        /\ id \in store'[y] \/ <<y, id>> \in pending'[x]
    BY <2>1, CallEffect
  <2>3. CASE x = n /\ y = p /\ id = m
    BY <2>2, <2>3
  <2>4. CASE RetrySend(x, y, id) /\ ~(x = n /\ y = p /\ id = m)
    <3>1. <<p, m>> \in retry[n].batch => <<p, m>> \in retry'[n].batch
      BY <2>4 DEF RetrySend, ThreadsOK
    <3>2. QED
      BY <2>2, <2>4, <3>1 DEF RetrySend, Drained
  <2>5. CASE RecoveredSend(x, y, id) /\ ~(x = n /\ y = p /\ id = m)
    <3>1. m \in recovered[n][p].batch => m \in recovered'[n][p].batch
      BY <1>0, <2>5 DEF RecoveredSend, ThreadsOK
    <3>2. QED
      BY <2>2, <2>5, <3>1 DEF RecoveredSend, Drained
  <2>6. QED
    BY <1>8, <2>3, <2>4, <2>5
<1>9. ASSUME NEW x \in Node, Crash(x) PROVE Settled(n, p, m)'
  <2>1. CASE x = n
    <3>1. pending' = pending /\ store' = store
      BY <1>9 DEF Crash
    <3>2. CASE <<p, m>> \in pending[n] \/ m \in store[p]
      BY <3>1, <3>2 DEF Settled
    <3>3. CASE Drained(n, p, m) /\ m \notin store[p]
      BY <1>9, <2>1, <3>3 DEF Crash, InHand, Settled
    <3>4. QED
      BY <3>2, <3>3
  <2>2. CASE x # n
    BY <1>9, <2>2 DEF Crash, Drained, Settled, ThreadsOK
  <2>3. QED
    BY <2>1, <2>2
<1>10. ASSUME NEW x \in Node, NEW id \in Message,
              \/ SendFails(id, x) \/ HandleClientMessage(x, id) \/ HandleDuplicate(x, id)
              \/ GetLivePeers(x, id) \/ EndOfLivePeers(x, id) \/ FinishHandler(x, id)
       PROVE  UNCHANGED <<pending, retry, recovered>>
  BY <1>10 DEF SendFails, HandleClientMessage, HandleDuplicate, GetLivePeers,
     EndOfLivePeers, FinishHandler
<1>11. ASSUME NEW x \in Node, NEW y \in Node, PingMissed(x, y) \/ RecoverFromPeer(x, y)
       PROVE  UNCHANGED <<pending, retry, recovered>>
  BY <1>11 DEF PingMissed, RecoverFromPeer
<1>12. ASSUME NEW x \in Node, NEW y \in Node, NEW id \in Message, CheckDead(x, id, y)
       PROVE  UNCHANGED <<pending, retry, recovered>>
  BY <1>12 DEF CheckDead
<1>13. ASSUME NEW id \in Message, ClientTimeout(id)
       PROVE  UNCHANGED <<pending, retry, recovered>>
  BY <1>13 DEF ClientTimeout
<1>14. ASSUME NEW x \in Node, Start(x)
       PROVE  UNCHANGED <<pending, retry, recovered>>
  BY <1>14 DEF Start
<1>15. CASE UNCHANGED vars
  BY <1>1, <1>15 DEF vars, Settled
<1>16. ASSUME Owed' \/ m \in store'[p] PROVE Settled(n, p, m)'
  BY <1>16 DEF Settled
<1>17. QED
  BY <1>1, <1>2, <1>3, <1>4, <1>5, <1>6, <1>7, <1>8, <1>9, <1>10, <1>11, <1>12,
     <1>13, <1>14, <1>15, <1>16 DEF Next, DrainStep, HandlerStep

LEMMA HistoryGrows ==
    ASSUME [Next]_vars
    PROVE  dropped \subseteq dropped' /\ raced \subseteq raced'
<1> USE DEF history
<1>1. ASSUME NEW x \in Node, Crash(x)
      PROVE  dropped \subseteq dropped' /\ raced \subseteq raced'
  BY <1>1 DEF Crash
<1>2. ASSUME NEW x \in Node, NEW y \in Node, PingAnswered(x, y)
      PROVE  dropped \subseteq dropped' /\ raced \subseteq raced'
  BY <1>2 DEF PingAnswered
<1>3. ASSUME NEW x \in Node, NEW id \in Message,
             \/ SendFails(id, x) \/ HandleClientMessage(x, id) \/ HandleDuplicate(x, id)
             \/ GetLivePeers(x, id) \/ EndOfLivePeers(x, id) \/ FinishHandler(x, id)
      PROVE  UNCHANGED <<dropped, raced>>
  BY <1>3 DEF SendFails, HandleClientMessage, HandleDuplicate, GetLivePeers,
     EndOfLivePeers, FinishHandler
<1>4. ASSUME NEW x \in Node, NEW y \in Node,
             \/ PingMissed(x, y) \/ RecoverFromPeer(x, y)
             \/ RetryDrain(x, y) \/ RecoveredDrain(x, y)
      PROVE  UNCHANGED <<dropped, raced>>
  BY <1>4 DEF PingMissed, RecoverFromPeer, RetryDrain, RecoveredDrain
<1>5. ASSUME NEW x \in Node, NEW y \in Node, NEW id \in Message,
             \/ ReplicateToPeer(x, id, y) \/ CheckDead(x, id, y) \/ EnqueueDead(x, id, y)
             \/ RetrySend(x, y, id) \/ RecoveredSend(x, y, id)
      PROVE  UNCHANGED <<dropped, raced>>
  BY <1>5 DEF ReplicateToPeer, CheckDead, EnqueueDead, RetrySend, RecoveredSend
<1>6. ASSUME NEW x \in Node, Start(x) \/ RetryRound(x) PROVE UNCHANGED <<dropped, raced>>
  BY <1>6 DEF Start, RetryRound
<1>7. ASSUME NEW id \in Message, ClientTimeout(id) PROVE UNCHANGED <<dropped, raced>>
  BY <1>7 DEF ClientTimeout
<1>8. CASE UNCHANGED vars
  BY <1>8 DEF vars
<1>9. QED
  BY <1>1, <1>2, <1>3, <1>4, <1>5, <1>6, <1>7, <1>8 DEF Next, DrainStep, HandlerStep

LEMMA SettledStays ==
    ASSUME TypeOK, [Next]_vars, NEW n \in Node, NEW p \in Peers[n], NEW m \in Message,
           Settled(n, p, m)
    PROVE  Settled(n, p, m)'
<1>1. CASE m \in store[p]
  BY <1>1, StoreGrows, PeersAreNodes DEF Settled
<1>2. CASE <<p, m>> \in pending[n] \/ Drained(n, p, m)
  BY <1>2, OwedStays
<1>3. CASE <<n, p, m>> \in dropped \union raced
  BY <1>3, HistoryGrows DEF Settled
<1>4. QED
  BY <1>1, <1>2, <1>3 DEF Settled

-----------------------------------------------------------------------------
(* Frames: who moves a handler, and who turns a DEAD peer live.            *)

LEMMA HandlerFrame ==
    ASSUME TypeOK, [Next]_vars, NEW n \in Node, NEW m \in Message,
           ~HandleClientMessage(n, m), ~HandlerStep(n, m), ~Crash(n)
    PROVE  handler'[n][m] = handler[n][m]
<1> USE DEF TypeOK, ThreadsOK, threads
<1>1. ASSUME NEW x \in Node, NEW id \in Message, x # n \/ id # m, NEW h,
             handler' = [handler EXCEPT ![x][id] = h]
      PROVE  handler'[n][m] = handler[n][m]
  BY <1>1
<1>2. ASSUME NEW x \in Node, NEW id \in Message, HandleClientMessage(x, id)
      PROVE  handler'[n][m] = handler[n][m]
  BY <1>1, <1>2 DEF HandleClientMessage
<1>3. ASSUME NEW x \in Node, NEW id \in Message, HandlerStep(x, id)
      PROVE  handler'[n][m] = handler[n][m]
  <2>1. x # n \/ id # m
    BY <1>3
  <2>2. PICK h : handler' = [handler EXCEPT ![x][id] = h]
    <3>1. CASE GetLivePeers(x, id) \/ EndOfLivePeers(x, id) \/ FinishHandler(x, id)
      BY <3>1 DEF GetLivePeers, EndOfLivePeers, FinishHandler
    <3>2. ASSUME NEW y \in Node,
                 \/ ReplicateToPeer(x, id, y) \/ CheckDead(x, id, y)
                 \/ EnqueueDead(x, id, y)
          PROVE  \E h : handler' = [handler EXCEPT ![x][id] = h]
      BY <3>2 DEF ReplicateToPeer, CheckDead, EnqueueDead
    <3>3. QED
      BY <1>3, <3>1, <3>2 DEF HandlerStep
  <2>3. QED
    BY <1>1, <2>1, <2>2
<1>4. ASSUME NEW x \in Node, Crash(x) PROVE handler'[n][m] = handler[n][m]
  BY <1>4 DEF Crash
<1>5. ASSUME NEW x \in Node, NEW id \in Message,
             SendFails(id, x) \/ HandleDuplicate(x, id)
      PROVE  UNCHANGED handler
  BY <1>5 DEF SendFails, HandleDuplicate
<1>6. ASSUME NEW x \in Node, NEW y \in Node,
             \/ PingAnswered(x, y) \/ PingMissed(x, y) \/ RecoverFromPeer(x, y)
             \/ RetryDrain(x, y) \/ RecoveredDrain(x, y)
      PROVE  UNCHANGED handler
  BY <1>6 DEF PingAnswered, PingMissed, RecoverFromPeer, RetryDrain, RecoveredDrain
<1>7. ASSUME NEW x \in Node, NEW y \in Node, NEW id \in Message,
             RetrySend(x, y, id) \/ RecoveredSend(x, y, id)
      PROVE  UNCHANGED handler
  BY <1>7 DEF RetrySend, RecoveredSend
<1>8. ASSUME NEW x \in Node, Start(x) \/ RetryRound(x) PROVE UNCHANGED handler
  BY <1>8 DEF Start, RetryRound
<1>9. ASSUME NEW id \in Message, ClientTimeout(id) PROVE UNCHANGED handler
  BY <1>9 DEF ClientTimeout
<1>10. CASE UNCHANGED vars
  BY <1>10 DEF vars
<1>11. QED
  BY <1>2, <1>3, <1>4, <1>5, <1>6, <1>7, <1>8, <1>9, <1>10 DEF Next, DrainStep

LEMMA AliveFrame ==
    ASSUME TypeOK, [Next]_vars, NEW n \in Node, NEW p \in Node,
           ~PingAnswered(n, p), ~Crash(n), alive'[n][p]
    PROVE  alive[n][p]
<1> USE DEF TypeOK, ProcessOK, process
<1>1. ASSUME NEW x \in Node, NEW y \in Node, PingAnswered(x, y) \/ PingMissed(x, y)
      PROVE  alive[n][p]
  <2>1. CASE PingAnswered(x, y)
    <3>1. x # n \/ y # p
      BY <2>1
    <3>2. alive'[n][p] = alive[n][p]
      BY <2>1, <3>1 DEF PingAnswered
    <3>3. QED
      BY <3>2
  <2>2. CASE PingMissed(x, y)
    <3>1. PICK b : (b => alive[x][y]) /\ alive' = [alive EXCEPT ![x][y] = b]
      BY <2>2 DEF PingMissed
    <3>2. QED
      BY <3>1
  <2>3. QED
    BY <1>1, <2>1, <2>2
<1>2. ASSUME NEW x \in Node, Crash(x) PROVE alive[n][p]
  BY <1>2 DEF Crash
<1>3. ASSUME NEW x \in Node, NEW id \in Message,
             \/ SendFails(id, x) \/ HandleClientMessage(x, id) \/ HandleDuplicate(x, id)
             \/ GetLivePeers(x, id) \/ EndOfLivePeers(x, id) \/ FinishHandler(x, id)
      PROVE  UNCHANGED alive
  BY <1>3 DEF SendFails, HandleClientMessage, HandleDuplicate, GetLivePeers,
     EndOfLivePeers, FinishHandler
<1>4. ASSUME NEW x \in Node, NEW y \in Node,
             \/ RecoverFromPeer(x, y) \/ RetryDrain(x, y) \/ RecoveredDrain(x, y)
      PROVE  UNCHANGED alive
  BY <1>4 DEF RecoverFromPeer, RetryDrain, RecoveredDrain
<1>5. ASSUME NEW x \in Node, NEW y \in Node, NEW id \in Message,
             \/ ReplicateToPeer(x, id, y) \/ CheckDead(x, id, y) \/ EnqueueDead(x, id, y)
             \/ RetrySend(x, y, id) \/ RecoveredSend(x, y, id)
      PROVE  UNCHANGED alive
  BY <1>5 DEF ReplicateToPeer, CheckDead, EnqueueDead, RetrySend, RecoveredSend
<1>6. ASSUME NEW x \in Node, Start(x) \/ RetryRound(x) PROVE UNCHANGED alive
  BY <1>6 DEF Start, RetryRound
<1>7. ASSUME NEW id \in Message, ClientTimeout(id) PROVE UNCHANGED alive
  BY <1>7 DEF ClientTimeout
<1>8. CASE UNCHANGED vars
  BY <1>8 DEF vars
<1>9. QED
  BY <1>1, <1>2, <1>3, <1>4, <1>5, <1>6, <1>7, <1>8 DEF Next, DrainStep, HandlerStep

-----------------------------------------------------------------------------
(* Every queued id has its row: QueuedIsStored.                            *)

LEMMA QueuedIsStoredInit == Init => QueuedIsStored
BY DEF Init, QueuedIsStored, Drained, IdleRetry, IdleRecovered

\* A step puts <<p, m>> in n's queue or batches only where m is already stored.
LEMMA QueueGrows ==
    ASSUME TypeOK, QueuedIsStored, [Next]_vars,
           NEW n \in Node, NEW p \in Node, NEW m \in Message,
           (<<p, m>> \in pending[n] \/ Drained(n, p, m))'
    PROVE  \/ <<p, m>> \in pending[n] \/ Drained(n, p, m)
           \/ handler[n][m] # IdleHandler
<1> USE DEF TypeOK, disk, process, threads
<1> DEFINE Owed == <<p, m>> \in pending[n] \/ Drained(n, p, m)
<1>1. ASSUME UNCHANGED <<pending, retry, recovered>> PROVE Owed
  BY <1>1 DEF Drained
<1>2. ASSUME NEW x \in Node, NEW y \in Node, NEW id \in Message, ReplicateToPeer(x, id, y)
      PROVE  Owed \/ handler[n][m] # IdleHandler
  <2>1. PICK ok \in BOOLEAN : TryReplicate(y, id, ok) /\ QueueUnless(ok, x, y, id)
    BY <1>2 DEF ReplicateToPeer
  <2>2. <<p, m>> \in pending'[n] => <<p, m>> \in pending[n] \/ (n = x /\ m = id)
    <3>1. \/ pending' = pending
          \/ pending' = [pending EXCEPT ![x] = pending[x] \union {<<y, id>>}]
      BY <2>1 DEF QueueUnless, Enqueue
    <3>2. QED
      BY <3>1 DEF DiskOK
  <2>3. handler[x][id] # IdleHandler
    BY <1>2 DEF ReplicateToPeer, IdleHandler
  <2>4. QED
    BY <1>2, <2>2, <2>3 DEF ReplicateToPeer, Drained
<1>3. ASSUME NEW x \in Node, NEW y \in Node, NEW id \in Message, EnqueueDead(x, id, y)
      PROVE  Owed \/ handler[n][m] # IdleHandler
  <2>1. handler[x][id] # IdleHandler
    BY <1>3 DEF EnqueueDead, IdleHandler
  <2>2. <<p, m>> \in pending'[n] => <<p, m>> \in pending[n] \/ (n = x /\ m = id)
    BY <1>3 DEF EnqueueDead, Enqueue, DiskOK
  <2>3. QED
    BY <1>3, <2>1, <2>2 DEF EnqueueDead, Drained
<1>4. ASSUME NEW x \in Node, NEW y \in Node, PingAnswered(x, y) PROVE Owed
  <2>1. recovered'[n][p].batch = recovered[n][p].batch
    BY <1>4 DEF PingAnswered, ThreadsOK
  <2>2. QED
    BY <1>4, <2>1 DEF PingAnswered, Drained
<1>5. ASSUME NEW x \in Node, RetryRound(x) PROVE Owed
  <2>1. retry'[n].batch = retry[n].batch
    BY <1>5 DEF RetryRound, ThreadsOK
  <2>2. QED
    BY <1>5, <2>1 DEF RetryRound, Drained
<1>6. ASSUME NEW x \in Node, NEW y \in Node, RetryDrain(x, y) PROVE Owed
  <2>1. <<p, m>> \in pending'[n] => <<p, m>> \in pending[n]
    BY <1>6 DEF RetryDrain, Drain, DiskOK
  <2>2. <<p, m>> \in retry'[n].batch => Owed
    BY <1>6 DEF RetryDrain, RowsFor, ThreadsOK, Drained
  <2>3. QED
    BY <1>6, <2>1, <2>2 DEF RetryDrain, Drained
<1>7. ASSUME NEW x \in Node, NEW y \in Node, RecoveredDrain(x, y) PROVE Owed
  <2>1. <<p, m>> \in pending'[n] => <<p, m>> \in pending[n]
    BY <1>7 DEF RecoveredDrain, Drain, DiskOK
  <2>2. CASE n = x /\ p = y
    <3>1. recovered'[n][p].batch =
            recovered[n][p].batch \union {row[2] : row \in RowsFor(n, p)}
      BY <1>7, <2>2 DEF RecoveredDrain, ThreadsOK
    <3>2. \A row \in RowsFor(n, p) : row = <<p, row[2]>> /\ row \in pending[n]
      BY DEF RowsFor, DiskOK
    <3>3. m \in {row[2] : row \in RowsFor(n, p)} => <<p, m>> \in pending[n]
      BY <3>2
    <3>4. QED
      BY <1>7, <2>1, <3>1, <3>3 DEF RecoveredDrain, Drained
  <2>3. CASE ~(n = x /\ p = y)
    <3>1. recovered'[n][p] = recovered[n][p]
      BY <1>7, <2>3 DEF RecoveredDrain, ThreadsOK
    <3>2. QED
      BY <1>7, <2>1, <3>1 DEF RecoveredDrain, Drained
  <2>4. QED
    BY <2>2, <2>3
<1>8. ASSUME NEW x \in Node, NEW y \in Node, NEW id \in Message, RetrySend(x, y, id)
      PROVE  Owed
  <2>1. PICK ok \in BOOLEAN : TryReplicate(y, id, ok) /\ QueueUnless(ok, x, y, id)
    BY <1>8 DEF RetrySend
  <2>2. <<p, m>> \in pending'[n] =>
          <<p, m>> \in pending[n] \/ (n = x /\ p = y /\ m = id)
    <3>1. \/ pending' = pending
          \/ pending' = [pending EXCEPT ![x] = pending[x] \union {<<y, id>>}]
      BY <2>1 DEF QueueUnless, Enqueue
    <3>2. QED
      BY <3>1 DEF DiskOK
  <2>3. <<p, m>> \in retry'[n].batch => <<p, m>> \in retry[n].batch
    BY <1>8 DEF RetrySend, ThreadsOK
  <2>4. QED
    BY <1>8, <2>2, <2>3 DEF RetrySend, Drained
<1>9. ASSUME NEW x \in Node, NEW y \in Node, NEW id \in Message, RecoveredSend(x, y, id)
      PROVE  Owed
  <2>1. PICK ok \in BOOLEAN : TryReplicate(y, id, ok) /\ QueueUnless(ok, x, y, id)
    BY <1>9 DEF RecoveredSend
  <2>2. <<p, m>> \in pending'[n] =>
          <<p, m>> \in pending[n] \/ (n = x /\ p = y /\ m = id)
    <3>1. \/ pending' = pending
          \/ pending' = [pending EXCEPT ![x] = pending[x] \union {<<y, id>>}]
      BY <2>1 DEF QueueUnless, Enqueue
    <3>2. QED
      BY <3>1 DEF DiskOK
  <2>3. m \in recovered'[n][p].batch => m \in recovered[n][p].batch
    BY <1>9 DEF RecoveredSend, ThreadsOK
  <2>4. QED
    BY <1>9, <2>2, <2>3 DEF RecoveredSend, Drained
<1>10. ASSUME NEW x \in Node, Crash(x) PROVE Owed
  BY <1>10 DEF Crash, Drained, IdleRetry, IdleRecovered, ThreadsOK
<1>11. ASSUME NEW x \in Node, NEW id \in Message,
              \/ SendFails(id, x) \/ HandleClientMessage(x, id) \/ HandleDuplicate(x, id)
              \/ GetLivePeers(x, id) \/ EndOfLivePeers(x, id) \/ FinishHandler(x, id)
       PROVE  UNCHANGED <<pending, retry, recovered>>
  BY <1>11 DEF SendFails, HandleClientMessage, HandleDuplicate, GetLivePeers,
     EndOfLivePeers, FinishHandler
<1>12. ASSUME NEW x \in Node, NEW y \in Node, PingMissed(x, y) \/ RecoverFromPeer(x, y)
       PROVE  UNCHANGED <<pending, retry, recovered>>
  BY <1>12 DEF PingMissed, RecoverFromPeer
<1>13. ASSUME NEW x \in Node, NEW y \in Node, NEW id \in Message, CheckDead(x, id, y)
       PROVE  UNCHANGED <<pending, retry, recovered>>
  BY <1>13 DEF CheckDead
<1>14. ASSUME NEW id \in Message, ClientTimeout(id)
       PROVE  UNCHANGED <<pending, retry, recovered>>
  BY <1>14 DEF ClientTimeout
<1>15. ASSUME NEW x \in Node, Start(x) PROVE UNCHANGED <<pending, retry, recovered>>
  BY <1>15 DEF Start
<1>16. CASE UNCHANGED vars
  BY <1>1, <1>16 DEF vars
<1>17. QED
  BY <1>1, <1>2, <1>3, <1>4, <1>5, <1>6, <1>7, <1>8, <1>9, <1>10, <1>11, <1>12,
     <1>13, <1>14, <1>15, <1>16 DEF Next, DrainStep, HandlerStep

LEMMA QueuedIsStoredNext ==
    ASSUME TypeOK, QueuedIsStored, [Next]_vars PROVE QueuedIsStored'
<1> SUFFICES ASSUME NEW n \in Node, NEW p \in Node, NEW m \in Message,
                    (\/ handler[n][m] # IdleHandler
                     \/ <<p, m>> \in pending[n]
                     \/ Drained(n, p, m))'
             PROVE  m \in store'[n]
  BY DEF QueuedIsStored
<1>1. CASE handler[n][m] # IdleHandler
  BY <1>1, StoreGrows DEF QueuedIsStored
<1>2. CASE HandleClientMessage(n, m)
  BY <1>2 DEF HandleClientMessage, SaveMessage, TypeOK, DiskOK
<1>3. CASE (<<p, m>> \in pending[n] \/ Drained(n, p, m))'
  BY <1>3, QueueGrows, StoreGrows DEF QueuedIsStored
<1>4. CASE handler'[n][m] # IdleHandler /\ handler[n][m] = IdleHandler /\ Crash(n)
  BY <1>4 DEF Crash, TypeOK, ThreadsOK
<1>5. CASE handler[n][m] = IdleHandler /\ HandlerStep(n, m)
  BY <1>5 DEF HandlerStep, GetLivePeers, ReplicateToPeer, EndOfLivePeers, CheckDead,
     EnqueueDead, FinishHandler, IdleHandler
<1>6. QED
  BY <1>1, <1>2, <1>3, <1>4, <1>5, HandlerFrame

\* A node never holds the id of a message it does not have on its own disk.
THEOREM QueuedStored == Spec => []QueuedIsStored
<1>1. QueuedIsStored /\ TypeOK /\ [Next]_vars => QueuedIsStored'
  BY QueuedIsStoredNext
<1>2. QED
  BY <1>1, QueuedIsStoredInit, TypeCorrect, PTL DEF Spec


-----------------------------------------------------------------------------
(* The peers that answered are off the handler's list.                     *)

LEMMA AcksLeftTheListNext ==
    ASSUME TypeOK, AcksLeftTheList, [Next]_vars PROVE AcksLeftTheList'
<1> USE DEF TypeOK, ThreadsOK
<1> DEFINE A(n, m) ==
      /\ handler[n][m].pc = "stored" => handler[n][m].acks = {}
      /\ handler[n][m].pc = "sending" =>
            /\ handler[n][m].peers \subseteq Peers[n]
            /\ handler[n][m].acks \subseteq Peers[n] \ handler[n][m].peers
<1> SUFFICES ASSUME NEW n \in Node, NEW m \in Message PROVE A(n, m)'
  BY DEF AcksLeftTheList
<1>1. A(n, m)
  BY DEF AcksLeftTheList
<1>2. CASE HandleClientMessage(n, m)
  <2>1. handler'[n][m] = [IdleHandler EXCEPT !.pc = "stored"]
    BY <1>2 DEF HandleClientMessage
  <2>2. QED
    BY <2>1 DEF IdleHandler
<1>3. CASE Crash(n)
  <2>1. handler'[n][m] = IdleHandler
    BY <1>3 DEF Crash
  <2>2. QED
    BY <2>1 DEF IdleHandler
<1>4. CASE GetLivePeers(n, m)
  <2>1. /\ handler[n][m].pc = "stored"
        /\ handler'[n][m] = [handler[n][m] EXCEPT !.pc = "sending", !.peers = LivePeers(n)]
    BY <1>4 DEF GetLivePeers
  <2>2. /\ handler'[n][m].pc = "sending" /\ handler'[n][m].peers = LivePeers(n)
        /\ handler'[n][m].acks = handler[n][m].acks
    BY <2>1 DEF HandlerRecord
  <2>3. QED
    BY <1>1, <2>1, <2>2 DEF LivePeers
<1>5. ASSUME NEW p \in Node, ReplicateToPeer(n, m, p) PROVE A(n, m)'
  <2>1. PICK ok \in BOOLEAN : handler' = [handler EXCEPT
          ![n][m] = [handler[n][m] EXCEPT
            !.peers = handler[n][m].peers \ {p},
            !.acks = IF ok THEN handler[n][m].acks \union {p}
                           ELSE handler[n][m].acks]]
    BY <1>5 DEF ReplicateToPeer
  <2>2. /\ handler'[n][m].pc = handler[n][m].pc
        /\ handler'[n][m].peers = handler[n][m].peers \ {p}
        /\ handler'[n][m].acks \subseteq handler[n][m].acks \union {p}
    BY <2>1 DEF HandlerRecord
  <2>3. handler[n][m].pc = "sending" /\ p \in handler[n][m].peers
    BY <1>5 DEF ReplicateToPeer
  <2>4. QED
    BY <1>1, <2>2, <2>3
<1>6. CASE EndOfLivePeers(n, m)
  BY <1>6 DEF EndOfLivePeers, HandlerRecord
<1>7. ASSUME NEW p \in Node, CheckDead(n, m, p) PROVE A(n, m)'
  BY <1>7 DEF CheckDead, HandlerRecord
<1>8. ASSUME NEW p \in Node, EnqueueDead(n, m, p) PROVE A(n, m)'
  BY <1>8 DEF EnqueueDead, HandlerRecord
<1>9. CASE FinishHandler(n, m)
  BY <1>9 DEF FinishHandler, IdleHandler
<1>10. CASE handler'[n][m] = handler[n][m]
  BY <1>1, <1>10, PeersAreNodes
<1>11. QED
  BY <1>2, <1>3, <1>4, <1>5, <1>6, <1>7, <1>8, <1>9, <1>10, HandlerFrame DEF HandlerStep

-----------------------------------------------------------------------------
(* Under full replication the loop over the live peers ends with an empty  *)
(* list: as long as a peer is on it, fewer than Needed have answered.      *)

LEMMA LoopEndsEmpty ==
    ASSUME TypeOK, AcksLeftTheList, FullReplication,
           NEW n \in Node, NEW m \in Message, EndOfLivePeers(n, m)
    PROVE  handler[n][m].peers = {}
<1>1. SUFFICES ASSUME NEW p \in handler[n][m].peers,
                      Cardinality(handler[n][m].acks) >= Needed
               PROVE  FALSE
  BY DEF EndOfLivePeers
<1> DEFINE acks == handler[n][m].acks
           others == Peers[n] \ {p}
<1>2. acks \subseteq others /\ p \in Peers[n]
  BY DEF AcksLeftTheList, EndOfLivePeers
<1>3. IsFiniteSet(Peers[n])
  BY NodeAssumption, PeersAreNodes, FS_Subset DEF NodeAssumption
<1>4. IsFiniteSet(others) /\ Cardinality(others) = Cardinality(Peers[n]) - 1
  BY <1>2, <1>3, FS_RemoveElement
<1>5. Cardinality(acks) <= Cardinality(others)
  BY <1>2, <1>4, FS_Subset
<1>6. /\ Cardinality(Peers[n]) \in Nat /\ Cardinality(acks) \in Nat
      /\ Cardinality(others) \in Nat
  BY <1>2, <1>3, <1>4, FS_Subset, FS_CardinalityType
<1>7. Needed \in Int /\ Needed >= Cardinality(Peers[n])
  BY FactorAssumption DEF FactorAssumption, FullReplication, Needed
<1> HIDE DEF acks, others
<1>8. Cardinality(acks) >= Needed
  BY <1>1 DEF acks
<1>9. QED
  BY <1>4, <1>5, <1>6, <1>7, <1>8

-----------------------------------------------------------------------------
(* A peer the handler has passed over as live is settled.                  *)

LEMMA LivePeersSettledNext ==
    ASSUME TypeOK, FullReplication, AcksLeftTheList, LivePeersSettled, [Next]_vars
    PROVE  LivePeersSettled'
<1> USE DEF TypeOK, ThreadsOK
<1> DEFINE PassedOver(n, m, p) ==
      \/ handler[n][m].pc = "sending" /\ p \notin handler[n][m].peers
      \/ handler[n][m].pc = "checking" /\ p \in handler[n][m].peers
<1> SUFFICES ASSUME NEW n \in Node, NEW m \in Message, NEW p \in Peers[n],
                    PassedOver(n, m, p)', alive'[n][p]
             PROVE  Settled(n, p, m)'
  BY DEF LivePeersSettled
<1>0. p \in Node
  BY PeersAreNodes
<1>1. PassedOver(n, m, p) /\ alive[n][p] => Settled(n, p, m)'
  <2>1. SUFFICES ASSUME PassedOver(n, m, p), alive[n][p] PROVE Settled(n, p, m)'
    OBVIOUS
  <2>2. Settled(n, p, m)
    BY <2>1 DEF LivePeersSettled
  <2>3. QED
    BY <2>2, SettledStays
<1>2. CASE HandleClientMessage(n, m)
  <2>1. handler'[n][m] = [IdleHandler EXCEPT !.pc = "stored"]
    BY <1>2 DEF HandleClientMessage
  <2>2. QED
    BY <2>1 DEF IdleHandler
<1>3. CASE Crash(n)
  BY <1>3 DEF Crash, IdleHandler
<1>4. CASE GetLivePeers(n, m)
  <2>1. handler'[n][m] = [handler[n][m] EXCEPT !.pc = "sending", !.peers = LivePeers(n)]
    BY <1>4 DEF GetLivePeers
  <2>2. handler'[n][m].pc = "sending" /\ handler'[n][m].peers = LivePeers(n)
    BY <2>1 DEF HandlerRecord
  <2>3. UNCHANGED alive
    BY <1>4 DEF GetLivePeers, process
  <2>4. QED
    BY <2>2, <2>3 DEF LivePeers
<1>5. ASSUME NEW q \in Node, ReplicateToPeer(n, m, q) PROVE Settled(n, p, m)'
  <2>1. UNCHANGED alive /\ handler[n][m].pc = "sending"
    BY <1>5 DEF ReplicateToPeer, process
  <2>2. PICK ok \in BOOLEAN :
          /\ TryReplicate(q, m, ok) /\ QueueUnless(ok, n, q, m)
          /\ handler' = [handler EXCEPT
               ![n][m] = [handler[n][m] EXCEPT
                 !.peers = handler[n][m].peers \ {q},
                 !.acks = IF ok THEN handler[n][m].acks \union {q}
                                ELSE handler[n][m].acks]]
    BY <1>5 DEF ReplicateToPeer
  <2>3. handler'[n][m].pc = "sending" /\ handler'[n][m].peers = handler[n][m].peers \ {q}
    BY <2>1, <2>2 DEF HandlerRecord
  <2>4. CASE p = q
    BY <2>2, <2>4, CallEffect DEF Settled
  <2>5. CASE p # q
    BY <1>1, <2>1, <2>3, <2>5
  <2>6. QED
    BY <2>4, <2>5
<1>6. CASE EndOfLivePeers(n, m)
  <2>1. handler[n][m].peers = {} /\ handler[n][m].pc = "sending" /\ UNCHANGED alive
    BY <1>6, LoopEndsEmpty DEF EndOfLivePeers, process
  <2>2. QED
    BY <1>1, <2>1
<1>7. ASSUME NEW q \in Node, CheckDead(n, m, q) PROVE Settled(n, p, m)'
  <2>1. /\ handler[n][m].pc = "checking" /\ UNCHANGED alive
        /\ handler' = [handler EXCEPT
             ![n][m] = [handler[n][m] EXCEPT
               !.peers = handler[n][m].peers \ {q},
               !.dead = IF alive[n][q] THEN handler[n][m].dead
                                       ELSE handler[n][m].dead \union {q}]]
    BY <1>7 DEF CheckDead, process
  <2>2. handler'[n][m].pc = "checking" /\ handler'[n][m].peers = handler[n][m].peers \ {q}
    BY <2>1 DEF HandlerRecord
  <2>3. QED
    BY <1>1, <2>1, <2>2
<1>8. ASSUME NEW q \in Node, EnqueueDead(n, m, q) PROVE Settled(n, p, m)'
  <2>1. /\ handler[n][m].pc = "checking" /\ handler[n][m].peers = {}
        /\ handler' = [handler EXCEPT ![n][m] = [handler[n][m] EXCEPT
                         !.dead = handler[n][m].dead \ {q}]]
    BY <1>8 DEF EnqueueDead
  <2>2. handler'[n][m].pc = "checking" /\ handler'[n][m].peers = {}
    BY <2>1 DEF HandlerRecord
  <2>3. QED
    BY <2>2
<1>9. CASE FinishHandler(n, m)
  BY <1>9 DEF FinishHandler, IdleHandler
<1>10. CASE handler'[n][m] = handler[n][m] /\ PingAnswered(n, p)
  <2>1. CASE alive[n][p]
    BY <1>1, <1>10, <2>1
  <2>2. CASE ~alive[n][p]
    <3>1. PassedOver(n, m, p) => StillToCheck(n, p, m)
      BY DEF StillToCheck
    <3>2. UNCHANGED store
      BY <1>10 DEF PingAnswered, disk
    <3>3. m \notin store[p] => <<n, p, m>> \in raced'
      BY <1>10, <2>2, <3>1 DEF PingAnswered
    <3>4. QED
      BY <3>2, <3>3 DEF Settled
  <2>3. QED
    BY <2>1, <2>2
<1>11. CASE handler'[n][m] = handler[n][m] /\ ~PingAnswered(n, p) /\ ~Crash(n)
  <2>1. alive[n][p]
    BY <1>0, <1>11, AliveFrame
  <2>2. QED
    BY <1>1, <1>11, <2>1
<1>12. QED
  BY <1>2, <1>3, <1>4, <1>5, <1>6, <1>7, <1>8, <1>9, <1>10, <1>11, HandlerFrame
  DEF HandlerStep

-----------------------------------------------------------------------------
(* No message is forgotten.                                                *)

\* Only handle_client_message takes responsibility for a message.
LEMMA AcceptedFrame ==
    ASSUME TypeOK, [Next]_vars, NEW n \in Node, NEW m \in Message,
           ~HandleClientMessage(n, m), <<n, m>> \in accepted'
    PROVE  <<n, m>> \in accepted
<1> USE DEF history
<1>1. ASSUME NEW x \in Node, NEW id \in Message, HandleClientMessage(x, id)
      PROVE  <<n, m>> \in accepted
  <2>1. <<x, id>> # <<n, m>>
    BY <1>1
  <2>2. QED
    BY <1>1, <2>1 DEF HandleClientMessage
<1>2. ASSUME NEW x \in Node, NEW id \in Message,
             \/ SendFails(id, x) \/ HandleDuplicate(x, id)
             \/ GetLivePeers(x, id) \/ EndOfLivePeers(x, id) \/ FinishHandler(x, id)
      PROVE  UNCHANGED accepted
  BY <1>2 DEF SendFails, HandleDuplicate, GetLivePeers, EndOfLivePeers, FinishHandler
<1>3. ASSUME NEW x \in Node, NEW y \in Node,
             \/ PingAnswered(x, y) \/ PingMissed(x, y) \/ RecoverFromPeer(x, y)
             \/ RetryDrain(x, y) \/ RecoveredDrain(x, y)
      PROVE  UNCHANGED accepted
  BY <1>3 DEF PingAnswered, PingMissed, RecoverFromPeer, RetryDrain, RecoveredDrain
<1>4. ASSUME NEW x \in Node, NEW y \in Node, NEW id \in Message,
             \/ ReplicateToPeer(x, id, y) \/ CheckDead(x, id, y) \/ EnqueueDead(x, id, y)
             \/ RetrySend(x, y, id) \/ RecoveredSend(x, y, id)
      PROVE  UNCHANGED accepted
  BY <1>4 DEF ReplicateToPeer, CheckDead, EnqueueDead, RetrySend, RecoveredSend
<1>5. ASSUME NEW x \in Node, Start(x) \/ RetryRound(x) \/ Crash(x)
      PROVE  UNCHANGED accepted
  BY <1>5 DEF Start, RetryRound, Crash
<1>6. ASSUME NEW id \in Message, ClientTimeout(id) PROVE UNCHANGED accepted
  BY <1>6 DEF ClientTimeout
<1>7. CASE UNCHANGED vars
  BY <1>7 DEF vars
<1>8. QED
  BY <1>1, <1>2, <1>3, <1>4, <1>5, <1>6, <1>7 DEF Next, DrainStep, HandlerStep

\* A handler that still has to see to p goes on holding it, or settles it.
LEMMA HandlerSettles ==
    ASSUME TypeOK, LivePeersSettled, [Next]_vars,
           NEW n \in Node, NEW m \in Message, NEW p \in Peers[n],
           HandlerHolds(n, p, m), ~Crash(n), ~HandleClientMessage(n, m)
    PROVE  HandlerHolds(n, p, m)' \/ Settled(n, p, m)'
<1> USE DEF TypeOK, ThreadsOK
<1>0. p \in Node
  BY PeersAreNodes
<1>1. CASE GetLivePeers(n, m)
  <2>1. handler' = [handler EXCEPT
          ![n][m] = [handler[n][m] EXCEPT !.pc = "sending", !.peers = LivePeers(n)]]
    BY <1>1 DEF GetLivePeers
  <2>2. handler'[n][m].pc = "sending"
    BY <2>1 DEF HandlerRecord
  <2>3. QED
    BY <2>2 DEF HandlerHolds
<1>2. ASSUME NEW q \in Node, ReplicateToPeer(n, m, q) PROVE HandlerHolds(n, p, m)'
  <2>1. PICK ok \in BOOLEAN : handler' = [handler EXCEPT
          ![n][m] = [handler[n][m] EXCEPT
            !.peers = handler[n][m].peers \ {q},
            !.acks = IF ok THEN handler[n][m].acks \union {q}
                           ELSE handler[n][m].acks]]
    BY <1>2 DEF ReplicateToPeer
  <2>2. handler'[n][m].pc = handler[n][m].pc
    BY <2>1 DEF HandlerRecord
  <2>3. handler[n][m].pc = "sending"
    BY <1>2 DEF ReplicateToPeer
  <2>4. QED
    BY <2>2, <2>3 DEF HandlerHolds
<1>3. CASE EndOfLivePeers(n, m)
  <2>1. handler' = [handler EXCEPT
          ![n][m] = [handler[n][m] EXCEPT !.pc = "checking", !.peers = Peers[n]]]
    BY <1>3 DEF EndOfLivePeers
  <2>2. handler'[n][m].pc = "checking" /\ handler'[n][m].peers = Peers[n]
    BY <2>1 DEF HandlerRecord
  <2>3. QED
    BY <2>2 DEF HandlerHolds
<1>4. ASSUME NEW q \in Node, CheckDead(n, m, q)
      PROVE  HandlerHolds(n, p, m)' \/ Settled(n, p, m)'
  <2> DEFINE d == IF alive[n][q] THEN handler[n][m].dead
                                 ELSE handler[n][m].dead \union {q}
  <2>1. /\ handler[n][m].pc = "checking" /\ q \in handler[n][m].peers
        /\ handler' = [handler EXCEPT
             ![n][m] = [handler[n][m] EXCEPT
               !.peers = handler[n][m].peers \ {q}, !.dead = d]]
    BY <1>4 DEF CheckDead
  <2>2. /\ handler'[n][m].pc = "checking"
        /\ handler'[n][m].peers = handler[n][m].peers \ {q}
        /\ handler'[n][m].dead = d
    <3> HIDE DEF d
    <3>1. QED
      BY <2>1 DEF HandlerRecord
  <2>3. CASE p = q /\ alive[n][p]
    <3>1. Settled(n, p, m)
      BY <2>1, <2>3 DEF LivePeersSettled
    <3>2. QED
      BY <3>1, SettledStays
  <2>4. CASE p # q \/ ~alive[n][p]
    BY <2>1, <2>2, <2>4 DEF HandlerHolds
  <2>5. QED
    BY <2>3, <2>4
<1>5. ASSUME NEW q \in Node, EnqueueDead(n, m, q)
      PROVE  HandlerHolds(n, p, m)' \/ Settled(n, p, m)'
  <2>1. /\ handler[n][m].pc = "checking" /\ handler[n][m].peers = {}
        /\ handler' = [handler EXCEPT ![n][m] = [handler[n][m] EXCEPT
                         !.dead = handler[n][m].dead \ {q}]]
        /\ pending' = [pending EXCEPT ![n] = pending[n] \union {<<q, m>>}]
    BY <1>5 DEF EnqueueDead, Enqueue
  <2>2. handler'[n][m].dead = handler[n][m].dead \ {q}
    BY <2>1 DEF HandlerRecord
  <2>3. p \in handler[n][m].dead
    BY <2>1 DEF HandlerHolds
  <2>4. CASE p = q
    BY <2>1, <2>4 DEF Settled, DiskOK
  <2>5. CASE p # q
    BY <2>2, <2>3, <2>5 DEF HandlerHolds
  <2>6. QED
    BY <2>4, <2>5
<1>6. CASE FinishHandler(n, m)
  BY <1>6 DEF FinishHandler, HandlerHolds
<1>7. CASE handler'[n][m] = handler[n][m]
  BY <1>7 DEF HandlerHolds
<1>8. QED
  BY <1>1, <1>2, <1>3, <1>4, <1>5, <1>6, <1>7, HandlerFrame DEF HandlerStep

LEMMA NoMessageForgottenNext ==
    ASSUME TypeOK, FullReplication, LivePeersSettled, NoMessageForgotten, [Next]_vars
    PROVE  NoMessageForgotten'
<1> SUFFICES ASSUME NEW n \in Node, NEW m \in Message, NEW p \in Peers[n],
                    <<n, m>> \in accepted'
             PROVE  HandlerHolds(n, p, m)' \/ Settled(n, p, m)'
  BY DEF NoMessageForgotten, Covered, InHand, Settled
<1>0. p \in Node
  BY PeersAreNodes
<1>1. CASE HandleClientMessage(n, m)
  <2>1. handler' = [handler EXCEPT ![n][m] = [IdleHandler EXCEPT !.pc = "stored"]]
    BY <1>1 DEF HandleClientMessage
  <2>2. handler'[n][m] = [IdleHandler EXCEPT !.pc = "stored"]
    BY <2>1 DEF TypeOK, ThreadsOK
  <2>3. handler'[n][m].pc = "stored"
    BY <2>2 DEF IdleHandler
  <2>4. QED
    BY <2>3 DEF HandlerHolds
<1>2. CASE ~HandleClientMessage(n, m)
  <2>1. <<n, m>> \in accepted
    BY <1>2, AcceptedFrame
  <2>2. HandlerHolds(n, p, m) \/ Settled(n, p, m)
    BY <2>1 DEF NoMessageForgotten, Covered, InHand, Settled
  <2>3. CASE Settled(n, p, m)
    BY <2>3, SettledStays
  <2>4. CASE HandlerHolds(n, p, m) /\ ~Crash(n)
    BY <1>2, <2>4, HandlerSettles
  <2>5. CASE HandlerHolds(n, p, m) /\ ~Settled(n, p, m) /\ Crash(n)
    <3>1. m \notin store[p] /\ InHand(n, p, m)
      BY <2>5 DEF InHand, Settled
    <3>2. <<n, p, m>> \in {t \in {n} \X Peers[n] \X Message :
                             t[3] \notin store[t[2]] /\ InHand(n, t[2], t[3])}
      BY <3>1
    <3>3. <<n, p, m>> \in dropped'
      BY <2>5, <3>2 DEF Crash
    <3>4. QED
      BY <3>3 DEF Settled
  <2>6. QED
    BY <2>2, <2>3, <2>4, <2>5
<1>3. QED
  BY <1>1, <1>2

ListsOK == FullReplication => AcksLeftTheList /\ LivePeersSettled

LEMMA ListsAreOK == Spec => []ListsOK
<1>1. Init => ListsOK
  BY DEF Init, ListsOK, AcksLeftTheList, LivePeersSettled, IdleHandler
<1>2. ListsOK /\ TypeOK /\ [Next]_vars => ListsOK'
  <2>1. FullReplication' <=> FullReplication
    BY DEF FullReplication
  <2>2. QED
    BY <2>1, AcksLeftTheListNext, LivePeersSettledNext DEF ListsOK
<1>3. QED
  BY <1>1, <1>2, TypeCorrect, PTL DEF Spec

\* Under full replication the loop over the live peers leaves nobody out: a peer
\* it has passed over, and one still live of those it did not get to, has the
\* message or is owed it.
THEOREM NoLivePeerIsPassedOver == Spec => [](FullReplication => LivePeersSettled)
<1>1. ListsOK => (FullReplication => LivePeersSettled)
  BY DEF ListsOK
<1>2. QED
  BY <1>1, ListsAreOK, PTL

\* Under full replication, of a message a node inserted for a client the node
\* knows, for every peer, that the peer has it or that it is still owed; the only
\* exceptions are the node's own crash and a peer that comes back between
\* get_live_peers and is_alive.
THEOREM NothingForgotten == Spec => []NoMessageForgotten
<1>1. Init => NoMessageForgotten
  BY DEF Init, NoMessageForgotten
<1>2. ListsOK /\ NoMessageForgotten /\ TypeOK /\ [Next]_vars => NoMessageForgotten'
  <2>1. CASE ~FullReplication
    BY <2>1 DEF NoMessageForgotten, FullReplication
  <2>2. CASE FullReplication
    BY <2>2, NoMessageForgottenNext DEF ListsOK
  <2>3. QED
    BY <2>1, <2>2
<1>3. QED
  BY <1>1, <1>2, ListsAreOK, TypeCorrect, PTL DEF Spec

-----------------------------------------------------------------------------
(* The layer implements ReplicatedInbox: a step of the fault-tolerance     *)
(* layer is a step of the inbox or leaves it as it was.                    *)

LEMMA InboxStep ==
    ASSUME TypeOK, QueuedIsStored, [Next]_vars
    PROVE  [Inbox!Next]_<<store, {m \in Message : client[m].pc = "acked"}>>
<1> USE DEF TypeOK, DiskOK, ThreadsOK
<1> DEFINE Confirmed == {m \in Message : client[m].pc = "acked"}
           Stutter == UNCHANGED <<store, Confirmed>>
<1> SUFFICES Stutter \/ Inbox!Next
  OBVIOUS
<1>0. ASSUME NEW x \in Node, NEW id \in Message, handler[x][id].pc # "idle"
      PROVE  id \in store[x]
  <2>1. handler[x][id] # IdleHandler
    BY <1>0 DEF IdleHandler
  <2>2. QED
    BY <2>1 DEF QueuedIsStored
<1>1. ASSUME UNCHANGED <<store, client>> PROVE Stutter
  BY <1>1
<1>2. ASSUME NEW x \in Node, NEW y \in Node, NEW id \in Message, id \in store[x],
             NEW ok \in BOOLEAN, TryReplicate(y, id, ok), UNCHANGED client
      PROVE  Stutter \/ Inbox!Next
  <2>1. CASE UNCHANGED store
    BY <1>1, <1>2, <2>1
  <2>2. CASE SaveMessage(y, id)
    <3>1. {id} \in SUBSET store[x]
      BY <1>2
    <3>2. store' = [store EXCEPT ![y] = store[y] \union {id}]
      BY <2>2 DEF SaveMessage
    <3>3. Inbox!Spread(x, y)
      BY <1>2, <3>1, <3>2 DEF Inbox!Spread
    <3>4. QED
      BY <3>3 DEF Inbox!Next
  <2>3. QED
    BY <1>2, <2>1, <2>2 DEF TryReplicate
<1>3. ASSUME NEW x \in Node, NEW id \in Message, HandleClientMessage(x, id)
      PROVE  Inbox!Next
  <2>1. store' = [store EXCEPT ![x] = store[x] \union {id}]
    BY <1>3 DEF HandleClientMessage, SaveMessage
  <2>2. client[id].pc = "idle"
        /\ client' = [client EXCEPT ![id] = [pc |-> "waiting", at |-> x,
                                            untried |-> client[id].untried \ {x}]]
    BY <1>3 DEF HandleClientMessage
  <2>3. \A m \in Message : client'[m].pc = "acked" <=> client[m].pc = "acked"
    BY <2>2
  <2>4. Confirmed' = Confirmed
    BY <2>3
  <2>5. Inbox!Submit(x, id)
    BY <2>1, <2>4 DEF Inbox!Submit
  <2>6. QED
    BY <2>5 DEF Inbox!Next
<1>4. ASSUME NEW x \in Node, NEW id \in Message, id \in store[x], UNCHANGED store,
             client' = [client EXCEPT ![id] = Answered]
      PROVE  Inbox!Next
  <2>1. \A m \in Message : client'[m].pc = "acked" <=> client[m].pc = "acked" \/ m = id
    BY <1>4 DEF Answered
  <2>2. Confirmed' = Confirmed \union {id}
    BY <2>1
  <2>3. Inbox!Confirm(id)
    BY <1>4, <2>2 DEF Inbox!Confirm
  <2>4. QED
    BY <2>3 DEF Inbox!Next
<1>5. ASSUME NEW id \in Message, NEW x \in Node \union {NoNode},
             client[id].pc \in {"idle", "waiting"}, UNCHANGED store,
             client' = [client EXCEPT ![id] = AfterError(id, x)]
      PROVE  Stutter
  <2>1. \A m \in Message : client'[m].pc = "acked" <=> client[m].pc = "acked"
    BY <1>5 DEF AfterError
  <2>2. QED
    BY <1>5, <2>1
<1>6. ASSUME NEW x \in Node, NEW id \in Message, SendFails(id, x) PROVE Stutter
  BY <1>5, <1>6 DEF SendFails, disk
<1>7. ASSUME NEW id \in Message, ClientTimeout(id) PROVE Stutter
  <2>1. client[id].at \in Node \union {NoNode}
    BY DEF ClientRecord
  <2>2. QED
    BY <1>5, <1>7, <2>1 DEF ClientTimeout, disk
<1>8. ASSUME NEW x \in Node, NEW id \in Message, HandleDuplicate(x, id) PROVE Inbox!Next
  BY <1>4, <1>8 DEF HandleDuplicate, disk
<1>9. ASSUME NEW x \in Node, NEW id \in Message, FinishHandler(x, id)
      PROVE  Stutter \/ Inbox!Next
  <2>1. id \in store[x]
    BY <1>0, <1>9 DEF FinishHandler
  <2>2. UNCHANGED store
    BY <1>9 DEF FinishHandler, disk
  <2>3. client' = client \/ client' = [client EXCEPT ![id] = Answered]
    BY <1>9 DEF FinishHandler
  <2>4. QED
    BY <1>1, <1>4, <2>1, <2>2, <2>3
<1>10. ASSUME NEW x \in Node, NEW y \in Node, NEW id \in Message,
              \/ ReplicateToPeer(x, id, y) \/ RetrySend(x, y, id)
              \/ RecoveredSend(x, y, id)
       PROVE  Stutter \/ Inbox!Next
  <2>1. UNCHANGED client /\ \E ok \in BOOLEAN : TryReplicate(y, id, ok)
    BY <1>10 DEF ReplicateToPeer, RetrySend, RecoveredSend
  <2>2. id \in store[x]
    <3>1. CASE ReplicateToPeer(x, id, y)
      BY <1>0, <3>1 DEF ReplicateToPeer
    <3>2. CASE RetrySend(x, y, id) \/ RecoveredSend(x, y, id)
      BY <3>2 DEF RetrySend, RecoveredSend, Drained, QueuedIsStored
    <3>3. QED
      BY <1>10, <3>1, <3>2
  <2>3. QED
    BY <1>2, <2>1, <2>2
<1>11. ASSUME NEW x \in Node, NEW y \in Node, RecoverFromPeer(x, y)
       PROVE  Stutter \/ Inbox!Next
  <2>1. UNCHANGED client
    BY <1>11 DEF RecoverFromPeer
  <2>2. CASE UNCHANGED store
    BY <1>1, <2>1, <2>2
  <2>3. CASE MergeMessages(x, store[y])
    <3>1. store[y] \in SUBSET store[y]
      OBVIOUS
    <3>2. store' = [store EXCEPT ![x] = store[x] \union store[y]]
      BY <2>3 DEF MergeMessages
    <3>3. Inbox!Spread(y, x)
      BY <2>1, <3>1, <3>2 DEF Inbox!Spread
    <3>4. QED
      BY <3>3 DEF Inbox!Next
  <2>4. QED
    BY <1>11, <2>2, <2>3 DEF RecoverFromPeer
<1>12. ASSUME NEW x \in Node, NEW id \in Message,
              GetLivePeers(x, id) \/ EndOfLivePeers(x, id)
       PROVE  UNCHANGED <<store, client>>
  BY <1>12 DEF GetLivePeers, EndOfLivePeers, disk
<1>13. ASSUME NEW x \in Node, NEW y \in Node, NEW id \in Message,
              CheckDead(x, id, y) \/ EnqueueDead(x, id, y)
       PROVE  UNCHANGED <<store, client>>
  BY <1>13 DEF CheckDead, EnqueueDead, disk
<1>14. ASSUME NEW x \in Node, NEW y \in Node,
              \/ PingAnswered(x, y) \/ PingMissed(x, y)
              \/ RetryDrain(x, y) \/ RecoveredDrain(x, y)
       PROVE  UNCHANGED <<store, client>>
  BY <1>14 DEF PingAnswered, PingMissed, RetryDrain, RecoveredDrain, disk
<1>15. ASSUME NEW x \in Node, RetryRound(x) \/ Crash(x) \/ Start(x)
       PROVE  UNCHANGED <<store, client>>
  BY <1>15 DEF RetryRound, Crash, Start, disk
<1>16. CASE UNCHANGED vars
  BY <1>1, <1>16 DEF vars, disk
<1>17. QED
  BY <1>1, <1>3, <1>6, <1>7, <1>8, <1>9, <1>10, <1>11, <1>12, <1>13, <1>14, <1>15, <1>16
  DEF Next, DrainStep, HandlerStep

\* The fault-tolerance layer implements the inbox: through crashes, failed calls
\* and retries no store loses a row, rows come from clients or from other stores,
\* and success is reported of stored messages only.
THEOREM Refinement == Spec => ImplementsInbox
<1>1. Init => Inbox!Init
  BY DEF Init, Inbox!Init
<1>2. TypeOK /\ QueuedIsStored /\ [Next]_vars
        => [Inbox!Next]_<<store, {m \in Message : client[m].pc = "acked"}>>
  BY InboxStep
<1>3. QED
  BY <1>1, <1>2, TypeCorrect, QueuedStored, PTL DEF Spec, ImplementsInbox, Inbox!Spec

-----------------------------------------------------------------------------
(* A duty moves on.  What a node has to do for a message and a peer goes   *)
(* through stages, and each step takes it on or leaves it where it is; only*)
(* a call that fails, or a crash, takes it back.                           *)

\* In the handler: found DEAD; to be looked at; in the loop; about to begin.
HandlerStage(h, p) ==
    IF p \in h.dead THEN 3
    ELSE IF h.pc = "checking" /\ p \in h.peers THEN 4
    ELSE IF h.pc = "sending" THEN 5
    ELSE IF h.pc = "stored" THEN 6 ELSE 7

\* How far the duty of n to bring m to p is from its end: done; drained by a thread;
\* in the queue; in the handler.  A duty that n does not have is the farthest.
Stage(n, p, m) ==
    IF m \in store[p] THEN 0
    ELSE IF Drained(n, p, m) THEN 1
    ELSE IF <<p, m>> \in pending[n] THEN 2 ELSE HandlerStage(handler[n][m], p)

Sends(n, p, m) == RetrySend(n, p, m) \/ RecoveredSend(n, p, m)

\* The steps of n's threads that are next for the duty.
NextForDuty(n, p, m) ==
    \/ Stage(n, p, m) = 1 /\ Sends(n, p, m)
    \/ Stage(n, p, m) = 2 /\ (RetryDrain(n, p) \/ RecoveredDrain(n, p))
    \/ Stage(n, p, m) = 3 /\ EnqueueDead(n, m, p)
    \/ Stage(n, p, m) = 4 /\ CheckDead(n, m, p)
    \/ Stage(n, p, m) = 5 /\ (ReplicateToPeer(n, m, p) \/ EndOfLivePeers(n, m))
    \/ Stage(n, p, m) = 6 /\ GetLivePeers(n, m)

\* The call of a thread that drained the duty fails, and it goes back to the queue.
SendIsLost(n, p, m) ==
    /\ Sends(n, p, m) /\ (~up[p] \/ faults' = faults + 1)
    /\ Stage(n, p, m) = 1 /\ Stage(n, p, m)' \in {1, 2}

DutyStep(n, p, m) ==
    \/ <<n, p, m>> \in dropped' \union raced'
    \/ /\ Stage(n, p, m)' <= Stage(n, p, m)
       /\ NextForDuty(n, p, m) => Stage(n, p, m)' < Stage(n, p, m)
    \/ SendIsLost(n, p, m)

\* A row that was drained is sent, or stays with the thread.
LEMMA DrainedMoves ==
    ASSUME TypeOK, [Next]_vars, NEW n \in Node, NEW p \in Peers[n], NEW m \in Message,
           Drained(n, p, m), ~Sends(n, p, m), ~Crash(n)
    PROVE  Drained(n, p, m)'
<1> USE DEF TypeOK, disk, process, threads, history
<1>0. p \in Node
  BY PeersAreNodes
<1>1. ASSUME UNCHANGED <<retry, recovered>> PROVE Drained(n, p, m)'
  BY <1>1 DEF Drained
<1>2. ASSUME NEW x \in Node, NEW y \in Node, PingAnswered(x, y) PROVE Drained(n, p, m)'
  <2>1. recovered'[n][p].batch = recovered[n][p].batch
    BY <1>0, <1>2 DEF PingAnswered, ThreadsOK
  <2>2. QED
    BY <1>2, <2>1 DEF PingAnswered, Drained
<1>3. ASSUME NEW x \in Node, RetryRound(x) PROVE Drained(n, p, m)'
  <2>1. retry'[n].batch = retry[n].batch
    BY <1>3 DEF RetryRound, ThreadsOK
  <2>2. QED
    BY <1>3, <2>1 DEF RetryRound, Drained
<1>4. ASSUME NEW x \in Node, NEW y \in Node, RetryDrain(x, y) PROVE Drained(n, p, m)'
  <2>1. <<p, m>> \in retry[n].batch => <<p, m>> \in retry'[n].batch
    BY <1>4 DEF RetryDrain, ThreadsOK
  <2>2. QED
    BY <1>4, <2>1 DEF RetryDrain, Drained
<1>5. ASSUME NEW x \in Node, NEW y \in Node, RecoveredDrain(x, y) PROVE Drained(n, p, m)'
  <2>1. recovered[n][p].batch \subseteq recovered'[n][p].batch
    BY <1>0, <1>5 DEF RecoveredDrain, ThreadsOK
  <2>2. QED
    BY <1>5, <2>1 DEF RecoveredDrain, Drained
<1>6. ASSUME NEW x \in Node, NEW y \in Node, NEW id \in Message, RetrySend(x, y, id)
      PROVE  Drained(n, p, m)'
  <2>1. <<p, m>> # <<y, id>> \/ x # n
    BY <1>6 DEF Sends
  <2>2. <<p, m>> \in retry[n].batch => <<p, m>> \in retry'[n].batch
    BY <1>6, <2>1 DEF RetrySend, ThreadsOK
  <2>3. QED
    BY <1>6, <2>2 DEF RetrySend, Drained
<1>7. ASSUME NEW x \in Node, NEW y \in Node, NEW id \in Message, RecoveredSend(x, y, id)
      PROVE  Drained(n, p, m)'
  <2>1. ~(x = n /\ y = p /\ id = m)
    BY <1>7 DEF Sends
  <2>2. m \in recovered[n][p].batch => m \in recovered'[n][p].batch
    BY <1>0, <1>7, <2>1 DEF RecoveredSend, ThreadsOK
  <2>3. QED
    BY <1>7, <2>2 DEF RecoveredSend, Drained
<1>8. ASSUME NEW x \in Node, Crash(x) PROVE Drained(n, p, m)'
  BY <1>8 DEF Crash, Drained, ThreadsOK
<1>9. ASSUME NEW x \in Node, NEW id \in Message,
             \/ SendFails(id, x) \/ HandleClientMessage(x, id) \/ HandleDuplicate(x, id)
             \/ GetLivePeers(x, id) \/ EndOfLivePeers(x, id) \/ FinishHandler(x, id)
      PROVE  UNCHANGED <<retry, recovered>>
  BY <1>9 DEF SendFails, HandleClientMessage, HandleDuplicate, GetLivePeers,
     EndOfLivePeers, FinishHandler
<1>10. ASSUME NEW x \in Node, NEW y \in Node, PingMissed(x, y) \/ RecoverFromPeer(x, y)
       PROVE  UNCHANGED <<retry, recovered>>
  BY <1>10 DEF PingMissed, RecoverFromPeer
<1>11. ASSUME NEW x \in Node, NEW y \in Node, NEW id \in Message,
              ReplicateToPeer(x, id, y) \/ CheckDead(x, id, y) \/ EnqueueDead(x, id, y)
       PROVE  UNCHANGED <<retry, recovered>>
  BY <1>11 DEF ReplicateToPeer, CheckDead, EnqueueDead
<1>12. ASSUME NEW id \in Message, ClientTimeout(id) PROVE UNCHANGED <<retry, recovered>>
  BY <1>12 DEF ClientTimeout
<1>13. ASSUME NEW x \in Node, Start(x) PROVE UNCHANGED <<retry, recovered>>
  BY <1>13 DEF Start
<1>14. CASE UNCHANGED vars
  BY <1>1, <1>14 DEF vars
<1>15. QED
  BY <1>1, <1>2, <1>3, <1>4, <1>5, <1>6, <1>7, <1>8, <1>9, <1>10, <1>11, <1>12,
     <1>13, <1>14 DEF Next, DrainStep, HandlerStep

\* A handler takes a duty on until it is settled.
LEMMA HandlerMoves ==
    ASSUME TypeOK, LivePeersSettled, QueuedIsStored, [Next]_vars,
           NEW n \in Node, NEW m \in Message, NEW p \in Peers[n], ~Settled(n, p, m)'
    PROVE  LET k == HandlerStage(handler[n][m], p)
               l == HandlerStage(handler'[n][m], p)
           IN /\ l <= k
              /\ EnqueueDead(n, m, p) => k # 3
              /\ k = 4 /\ CheckDead(n, m, p) => l < 4
              /\ ~ReplicateToPeer(n, m, p)
              /\ k = 5 /\ EndOfLivePeers(n, m) => l < 5
              /\ k = 6 /\ GetLivePeers(n, m) => l < 6
<1> DEFINE h == handler[n][m]
           g == handler'[n][m]
           k == HandlerStage(h, p)
           l == HandlerStage(g, p)
<1> USE DEF TypeOK, ThreadsOK
<1>0. p \in Node /\ h \in HandlerRecord
  BY PeersAreNodes
<1>1. ~Settled(n, p, m) /\ <<p, m>> \notin pending'[n] /\ m \notin store'[p]
      /\ <<n, p, m>> \notin dropped'
  BY SettledStays DEF Settled
<1>2. ASSUME GetLivePeers(n, m) PROVE l <= k /\ (k = 6 => l < 6)
  <2>1. g = [h EXCEPT !.pc = "sending", !.peers = LivePeers(n)] /\ h.pc = "stored"
    BY <1>2 DEF GetLivePeers
  <2>2. g.pc = "sending" /\ g.dead = h.dead
    BY <1>0, <2>1 DEF HandlerRecord
  <2>3. QED
    BY <2>1, <2>2 DEF HandlerStage
<1>3. ASSUME NEW q \in Node, ReplicateToPeer(n, m, q) PROVE q # p /\ l <= k
  <2>1. PICK ok \in BOOLEAN :
          /\ TryReplicate(q, m, ok) /\ QueueUnless(ok, n, q, m)
          /\ handler' = [handler EXCEPT
               ![n][m] = [handler[n][m] EXCEPT
                 !.peers = handler[n][m].peers \ {q},
                 !.acks = IF ok THEN handler[n][m].acks \union {q}
                                ELSE handler[n][m].acks]]
    BY <1>3 DEF ReplicateToPeer
  <2>2. q # p
    BY <1>1, <2>1, CallEffect
  <2>3. g.pc = h.pc /\ g.dead = h.dead /\ h.pc = "sending"
    BY <1>0, <1>3, <2>1 DEF HandlerRecord, ReplicateToPeer
  <2>4. QED
    BY <2>2, <2>3 DEF HandlerStage
<1>4. ASSUME EndOfLivePeers(n, m) PROVE l <= k /\ (k = 5 => l < 5)
  <2>1. g = [h EXCEPT !.pc = "checking", !.peers = Peers[n]] /\ h.pc = "sending"
    BY <1>4 DEF EndOfLivePeers
  <2>2. g.pc = "checking" /\ g.dead = h.dead /\ g.peers = Peers[n]
    BY <1>0, <2>1 DEF HandlerRecord
  <2>3. QED
    BY <2>1, <2>2 DEF HandlerStage
<1>5. ASSUME NEW q \in Node, CheckDead(n, m, q) PROVE l <= k /\ (q = p /\ k = 4 => l < 4)
  <2> DEFINE d == IF alive[n][q] THEN h.dead ELSE h.dead \union {q}
  <2>1. /\ h.pc = "checking" /\ q \in h.peers
        /\ handler' = [handler EXCEPT
             ![n][m] = [handler[n][m] EXCEPT !.peers = h.peers \ {q}, !.dead = d]]
    BY <1>5 DEF CheckDead
  <2>2. g.pc = "checking" /\ g.peers = h.peers \ {q} /\ g.dead = d
    <3> HIDE DEF d
    <3>1. QED
      BY <1>0, <2>1 DEF HandlerRecord
  <2>3. p = q => ~alive[n][p]
    BY <1>1, <2>1 DEF LivePeersSettled
  <2>4. CASE p = q
    <3>1. p \in g.dead
      BY <2>2, <2>3, <2>4
    <3>2. l = 3 /\ (k = 3 \/ k = 4)
      BY <2>1, <2>4, <3>1 DEF HandlerStage
    <3>3. QED
      BY <3>2
  <2>5. CASE p # q
    <3>1. (p \in g.dead <=> p \in h.dead) /\ (p \in g.peers <=> p \in h.peers)
      BY <2>2, <2>5
    <3>2. QED
      BY <2>1, <2>2, <2>5, <3>1 DEF HandlerStage
  <2>6. QED
    BY <2>4, <2>5
<1>6. ASSUME NEW q \in Node, EnqueueDead(n, m, q) PROVE q # p /\ l <= k
  <2>1. /\ q # p /\ h.pc = "checking"
        /\ g = [h EXCEPT !.dead = h.dead \ {q}]
    BY <1>0, <1>1, <1>6 DEF EnqueueDead, Enqueue, DiskOK
  <2>2. g.pc = h.pc /\ g.peers = h.peers /\ g.dead = h.dead \ {q}
    BY <1>0, <2>1 DEF HandlerRecord
  <2>3. QED
    BY <2>1, <2>2 DEF HandlerStage
<1>7. ASSUME FinishHandler(n, m) PROVE l <= k
  <2>1. h.pc = "checking" /\ h.peers = {} /\ h.dead = {}
    BY <1>7 DEF FinishHandler
  <2>2. k = 7
    BY <2>1 DEF HandlerStage
  <2>3. QED
    BY <2>2 DEF HandlerStage
<1>8. ASSUME HandleClientMessage(n, m) PROVE l <= k
  <2>1. h = IdleHandler
    BY <1>0, <1>8 DEF HandleClientMessage, QueuedIsStored
  <2>2. k = 7
    BY <2>1 DEF HandlerStage, IdleHandler
  <2>3. QED
    BY <2>2 DEF HandlerStage
<1>9. ASSUME Crash(n) PROVE l <= k
  <2>1. ~HandlerHolds(n, p, m)
    <3>1. SUFFICES ASSUME HandlerHolds(n, p, m) PROVE FALSE
      OBVIOUS
    <3>2. m \notin store[p]
      BY <1>1 DEF Settled
    <3>3. <<n, p, m>> \in {t \in {n} \X Peers[n] \X Message :
                             t[3] \notin store[t[2]] /\ InHand(n, t[2], t[3])}
      BY <3>1, <3>2 DEF InHand
    <3>4. QED
      BY <1>1, <1>9, <3>3 DEF Crash
  <2>2. k = 7
    BY <2>1 DEF HandlerStage, HandlerHolds
  <2>3. QED
    BY <2>2 DEF HandlerStage
<1>10. ASSUME g = h PROVE l <= k
  BY <1>10 DEF HandlerStage
<1>11. l <= k
  BY <1>2, <1>3, <1>4, <1>5, <1>6, <1>7, <1>8, <1>9, <1>10, HandlerFrame DEF HandlerStep
<1>12. QED
  BY <1>0, <1>2, <1>3, <1>4, <1>5, <1>6, <1>11

\* No step takes a duty back but a call that fails, and that one to the queue and no
\* farther; the other exceptions are those of NoMessageForgotten, the crash of the node
\* and a peer that returns in the middle of the handler.  And whatever step of the
\* node's threads is next for the duty takes it on.  By NothingForgotten a duty is at
\* stage 6 at most, so six such steps end it once no call fails (fault.py:508-611):
\* the safety core of EventuallyReplicated.
DutiesMoveOn ==
    [][FullReplication => \A n \in Node, m \in Message : \A p \in Peers[n] :
          DutyStep(n, p, m)]_vars

THEOREM DutiesAreTakenOn == Spec => DutiesMoveOn
<1>1. ASSUME TypeOK, QueuedIsStored, FullReplication, LivePeersSettled, [Next]_vars,
             NEW n \in Node, NEW m \in Message, NEW p \in Peers[n]
      PROVE  DutyStep(n, p, m)
  <2> DEFINE k == Stage(n, p, m)
             l == Stage(n, p, m)'
             Lost == <<n, p, m>> \in dropped' \union raced'
             Moves == l <= k /\ (NextForDuty(n, p, m) => l < k)
  <2>0. p \in Node
    BY PeersAreNodes
  <2>1. CASE m \in store[p]
    <3>1. m \in store'[p]
      BY <1>1, <2>0, <2>1, StoreGrows
    <3>2. k = 0 /\ l = 0
      BY <2>1, <3>1 DEF Stage
    <3>3. QED
      BY <3>2 DEF NextForDuty, DutyStep
  <2>2. ASSUME ~Lost, <<p, m>> \in pending[n] \/ Drained(n, p, m)
        PROVE  l \in 0..2 /\ (m \notin store'[p] => l \in {1, 2})
    <3>1. m \in store'[p] \/ <<p, m>> \in pending'[n] \/ Drained(n, p, m)'
      BY <1>1, <2>2, OwedStays DEF Settled
    <3>2. QED
      BY <3>1 DEF Stage
  <2>3. CASE m \notin store[p] /\ Drained(n, p, m) /\ ~Lost
    <3>1. k = 1
      BY <2>3 DEF Stage
    <3>2. ASSUME Sends(n, p, m) PROVE m \in store'[p] \/ SendIsLost(n, p, m)
      <4>1. PICK ok \in BOOLEAN : TryReplicate(p, m, ok)
        BY <3>2 DEF Sends, RetrySend, RecoveredSend
      <4>2. m \in store'[p] \/ ~up[p] \/ faults' = faults + 1
        BY <1>1, <2>0, <4>1 DEF TryReplicate, SaveMessage, TypeOK, DiskOK
      <4>3. m \notin store'[p] => l \in {1, 2}
        BY <2>2, <2>3
      <4>4. QED
        BY <3>1, <3>2, <4>2, <4>3 DEF SendIsLost
    <3>3. CASE m \in store'[p]
      <4>1. l = 0
        BY <3>3 DEF Stage
      <4>2. QED
        BY <3>1, <4>1 DEF DutyStep
    <3>4. CASE m \notin store'[p] /\ ~Sends(n, p, m)
      <4>1. ~Crash(n)
        <5>1. ASSUME Crash(n) PROVE Lost
          <6>1. <<n, p, m>> \in {t \in {n} \X Peers[n] \X Message :
                                   t[3] \notin store[t[2]] /\ InHand(n, t[2], t[3])}
            BY <2>3 DEF InHand
          <6>2. QED
            BY <5>1, <6>1 DEF Crash
        <5>2. QED
          BY <2>3, <5>1
      <4>2. Drained(n, p, m)'
        BY <1>1, <2>3, <3>4, <4>1, DrainedMoves
      <4>3. l = 1 /\ ~NextForDuty(n, p, m)
        BY <3>1, <3>4, <4>2 DEF Stage, NextForDuty
      <4>4. QED
        BY <3>1, <4>3 DEF DutyStep
    <3>5. QED
      BY <3>2, <3>3, <3>4 DEF DutyStep
  <2>4. CASE m \notin store[p] /\ ~Drained(n, p, m) /\ <<p, m>> \in pending[n] /\ ~Lost
    <3>1. k = 2 /\ l \in 0..2
      BY <2>2, <2>4 DEF Stage
    <3>2. ASSUME RetryDrain(n, p) PROVE Drained(n, p, m)'
      BY <1>1, <2>4, <3>2 DEF RetryDrain, RowsFor, Drained, TypeOK, ThreadsOK
    <3>3. ASSUME RecoveredDrain(n, p) PROVE Drained(n, p, m)'
      <4>1. recovered'[n][p].batch =
              recovered[n][p].batch \union {row[2] : row \in RowsFor(n, p)}
        BY <1>1, <2>0, <3>3 DEF RecoveredDrain, TypeOK, ThreadsOK
      <4>2. <<p, m>> \in RowsFor(n, p)
        BY <2>4 DEF RowsFor
      <4>3. QED
        BY <4>1, <4>2 DEF Drained
    <3>4. NextForDuty(n, p, m) => l \in 0..1
      BY <3>1, <3>2, <3>3 DEF NextForDuty, Stage
    <3>5. QED
      BY <3>1, <3>4 DEF DutyStep
  <2>5. CASE m \notin store[p] /\ ~Drained(n, p, m) /\ <<p, m>> \notin pending[n] /\ ~Lost
    <3> DEFINE c == HandlerStage(handler[n][m], p)
               d == HandlerStage(handler'[n][m], p)
    <3>1. k = c /\ c \in 3..7
      BY <2>5 DEF Stage, HandlerStage
    <3>2. CASE Settled(n, p, m)'
      <4>1. l \in 0..2
        BY <2>5, <3>2 DEF Settled, Stage
      <4>2. QED
        BY <3>1, <4>1 DEF DutyStep
    <3>3. CASE ~Settled(n, p, m)'
      <4>1. l = d /\ d \in 3..7
        BY <3>3 DEF Settled, Stage, HandlerStage
      <4>2. /\ d <= c
            /\ EnqueueDead(n, m, p) => c # 3
            /\ c = 4 /\ CheckDead(n, m, p) => d < 4
            /\ ~ReplicateToPeer(n, m, p)
            /\ c = 5 /\ EndOfLivePeers(n, m) => d < 5
            /\ c = 6 /\ GetLivePeers(n, m) => d < 6
        BY <1>1, <3>3, HandlerMoves
      <4> HIDE DEF c, d
      <4>3. NextForDuty(n, p, m) => d < c
        BY <3>1, <4>2 DEF NextForDuty
      <4>4. QED
        BY <3>1, <4>1, <4>2, <4>3 DEF DutyStep
    <3>4. QED
      BY <3>2, <3>3
  <2>6. CASE Lost
    BY <2>6 DEF DutyStep
  <2>7. QED
    BY <2>1, <2>3, <2>4, <2>5, <2>6
<1>2. TypeOK /\ QueuedIsStored /\ ListsOK /\ [Next]_vars =>
        [FullReplication => \A n \in Node, m \in Message : \A p \in Peers[n] :
           DutyStep(n, p, m)]_vars
  BY <1>1 DEF ListsOK
<1>3. QED
  BY <1>2, TypeCorrect, QueuedStored, ListsAreOK, PTL DEF Spec, DutiesMoveOn
=============================================================================
