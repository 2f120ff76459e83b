--------------------------- MODULE FaultTolerance ---------------------------
(***************************************************************************)
(* The fault-tolerance layer of a HiveChat cluster: node/fault.py, with    *)
(* the RPC handlers of node/server.py that reach it and the fail-over loop *)
(* of client/client.py that feeds it.                                      *)
(*                                                                         *)
(* A node keeps two SQLite tables, the message store and the queue of      *)
(* replicas still owed to a peer; both survive a crash.  Everything else   *)
(* (the failure detector, the gRPC handler threads, the retry thread, the  *)
(* threads started when a peer comes back) lives in memory and dies with   *)
(* the process.  Each of those threads is a family of actions here, cut at *)
(* the points where the code takes a lock, commits a transaction or makes  *)
(* a call to another node.                                                 *)
(***************************************************************************)
EXTENDS Integers, FiniteSets

CONSTANTS
    Node,               \* the nodes of the cluster
    Peers,              \* Peers[n]: the nodes n was started with, --peers
    Message,            \* message ids, one for each send_with_failover call
    Servers,            \* Servers[m]: the servers the client that sends m knows
    NoNode,             \* the client is not talking to any node
    ReplicationFactor,  \* copies wanted, this node's own included
    Threshold,          \* missed heartbeats after which a peer is DEAD
    MaxCrashes,         \* bound: crashes of processes, all nodes together
    MaxFaults           \* bound: RPCs to a running node that fail or time out

ASSUME NodeAssumption == IsFiniteSet(Node) /\ NoNode \notin Node
ASSUME PeersAssumption == Peers \in [Node -> SUBSET Node]
ASSUME ServersAssumption == Servers \in [Message -> SUBSET Node]
ASSUME ThresholdAssumption == Threshold \in Nat \ {0}
ASSUME FactorAssumption == ReplicationFactor \in Nat \ {0}
ASSUME BoundAssumption == MaxCrashes \in Nat /\ MaxFaults \in Nat

VARIABLES
    \* SQLite, on disk
    store,      \* store[n]: ids in n's messages table
    pending,    \* pending[n]: rows <<peer, id>> of n's pending_queue table
    \* the process
    up,         \* up[n]: n's process runs and its gRPC server answers
    fetching,   \* fetching[n]: peers recover_from_peers has still to ask
    alive,      \* alive[n][p]: FailureDetector._status
    missed,     \* missed[n][p]: FailureDetector._missed, up to Threshold
    \* the threads
    handler,    \* handler[n][m]: the thread serving SendMessage(m) at n
    retry,      \* retry[n]: the _retry_loop thread
    recovered,  \* recovered[n][p]: the _on_peer_recovered(p) thread
    client,     \* client[m]: the send_with_failover call that sends m
    \* bounds
    crashes, faults,
    \* history, read by no action
    accepted,   \* <<n, m>>: n inserted m on behalf of a client
    dropped,    \* <<n, p, m>>: a crash of n took the duty to bring m to p
    raced       \* <<n, p, m>>: p, lacking m, came back while n replicated m

disk    == <<store, pending>>
process == <<up, fetching, alive, missed>>
threads == <<handler, retry, recovered>>
history == <<accepted, dropped, raced>>
vars == <<disk, process, threads, client, crashes, faults, history>>

-----------------------------------------------------------------------------
(* The threads' local state.                                               *)

HandlerPC == {"idle", "stored", "sending", "checking"}

IdleHandler == [pc |-> "idle", peers |-> {}, acks |-> {}, dead |-> {}]
IdleRetry == [peers |-> {}, batch |-> {}]
IdleRecovered == [started |-> FALSE, batch |-> {}]

Needed == ReplicationFactor - 1

\* A drain of n took the row <<p, m>> off the queue and m is not sent yet.
Drained(n, p, m) ==
    <<p, m>> \in retry[n].batch \/ m \in recovered[n][p].batch

\* The handler of m at n has still to send m to p, or to see about it.
HandlerHolds(n, p, m) ==
    \/ handler[n][m].pc \in {"stored", "sending"}
    \/ handler[n][m].pc = "checking" /\ p \in handler[n][m].peers
    \/ p \in handler[n][m].dead

\* n has, in the memory of some thread, the duty to bring m to peer p.
InHand(n, p, m) == HandlerHolds(n, p, m) \/ Drained(n, p, m)

\* n has read the list of live peers for m and has not asked is_alive(p) yet.
StillToCheck(n, p, m) ==
    \/ handler[n][m].pc = "sending"
    \/ handler[n][m].pc = "checking" /\ p \in handler[n][m].peers

Init ==
    /\ store = [n \in Node |-> {}]
    /\ pending = [n \in Node |-> {}]
    /\ up = [n \in Node |-> TRUE]
    /\ fetching = [n \in Node |-> {}]
    /\ alive = [n \in Node |-> [p \in Node |-> TRUE]]
    /\ missed = [n \in Node |-> [p \in Node |-> 0]]
    /\ handler = [n \in Node |-> [m \in Message |-> IdleHandler]]
    /\ retry = [n \in Node |-> IdleRetry]
    /\ recovered = [n \in Node |-> [p \in Node |-> IdleRecovered]]
    /\ client = [m \in Message |-> [pc |-> "idle", at |-> NoNode, untried |-> Servers[m]]]
    /\ crashes = 0 /\ faults = 0
    /\ accepted = {} /\ dropped = {} /\ raced = {}

-----------------------------------------------------------------------------
(* PersistentMessageStore, PendingReplicationQueue and the detector's list *)
(* of live peers.  An operator whose name begins with Bad is a mutation of *)
(* the one after it, for the checks to catch; no specification uses it.    *)

BadSaveMessage(n, m) == UNCHANGED store

\* The row is on disk when save_message returns.
SaveMessage(n, m) == store' = [store EXCEPT ![n] = @ \union {m}]

BadMergeMessages(n, incoming) == store' = [store EXCEPT ![n] = incoming]

MergeMessages(n, incoming) == store' = [store EXCEPT ![n] = @ \union incoming]

BadEnqueue(n, p, m) == pending' = [pending EXCEPT ![n] = @ \union {<<m, p>>}]

\* INSERT OR IGNORE.
Enqueue(n, p, m) == pending' = [pending EXCEPT ![n] = @ \union {<<p, m>>}]

RowsFor(n, p) == {row \in pending[n] : row[1] = p}

\* drain(p) reads and deletes p's rows in one transaction; from then on their
\* ids are in the memory of the thread that called it, and only there.
Drain(n, p) == pending' = [pending EXCEPT ![n] = @ \ RowsFor(n, p)]

BadLivePeers(n) == {p \in Peers[n] : ~alive[n][p]}

LivePeers(n) == {p \in Peers[n] : alive[n][p]}

-----------------------------------------------------------------------------
(* client.py: send_with_failover, and SendMessage -> handle_client_message. *)
(* A client is constructed with its own ordered list of servers, so the    *)
(* next server is any that it has not tried; the id is made before the     *)
(* loop.  The way of a request to the server is not a step of its own.     *)

Answered == [pc |-> "acked", at |-> NoNode, untried |-> {}]

\* The RPC raised: on to the next server, or RuntimeError after the last.
AfterError(m, n) ==
    LET left == client[m].untried \ {n}
    IN [pc |-> IF left = {} THEN "failed" ELSE "idle", at |-> NoNode, untried |-> left]

\* The request does not reach n: n is down, or the call is lost on the way.
SendFails(m, n) ==
    /\ client[m].pc = "idle" /\ n \in client[m].untried
    /\ client' = [client EXCEPT ![m] = AfterError(m, n)]
    /\ UNCHANGED <<disk, process, threads, crashes, faults, history>>

\* save_message inserts the row: a handler thread goes on to replicate it.
HandleClientMessage(n, m) ==
    /\ up[n]
    /\ client[m].pc = "idle" /\ n \in client[m].untried
    /\ m \notin store[n]
    /\ SaveMessage(n, m)
    /\ handler' = [handler EXCEPT ![n][m] = [IdleHandler EXCEPT !.pc = "stored"]]
    /\ client' = [client EXCEPT ![m] = [pc |-> "waiting", at |-> n,
                                        untried |-> @.untried \ {n}]]
    /\ accepted' = accepted \union {<<n, m>>}
    /\ UNCHANGED <<pending, process, retry, recovered, crashes, faults,
                   dropped, raced>>

\* save_message hits the primary key: "duplicate_ignored", answered at once.
HandleDuplicate(n, m) ==
    /\ up[n]
    /\ client[m].pc = "idle" /\ n \in client[m].untried
    /\ m \in store[n]
    /\ client' = [client EXCEPT ![m] = Answered]
    /\ UNCHANGED <<disk, process, threads, crashes, faults, history>>

\* SEND_TIMEOUT passes or the server dies.  What a server has begun goes on.
ClientTimeout(m) ==
    /\ client[m].pc = "waiting"
    /\ client' = [client EXCEPT ![m] = AfterError(m, client[m].at)]
    /\ UNCHANGED <<disk, process, threads, crashes, faults, history>>

-----------------------------------------------------------------------------
(* _try_replicate(p, m): the Replicate RPC.  The peer's                    *)
(* handle_replica_message inserts the row or ignores a duplicate and always*)
(* answers success; a call to a running node may still fail before or      *)
(* after the row is inserted.                                              *)

TryReplicate(p, m, ok) ==
    \/ up[p] /\ ok /\ SaveMessage(p, m) /\ UNCHANGED faults
    \/ /\ up[p] /\ ~ok
       /\ faults < MaxFaults /\ faults' = faults + 1
       /\ SaveMessage(p, m) \/ UNCHANGED store
    \/ ~up[p] /\ ~ok /\ UNCHANGED <<store, faults>>

BadQueueUnless(ok, n, p, m) == UNCHANGED pending

\* A failed call is put (back) in the queue; nothing happens in between that a
\* crash before the call could not also have caused, so it is one step.
QueueUnless(ok, n, p, m) ==
    IF ok THEN UNCHANGED pending ELSE Enqueue(n, p, m)

(* _replicate_to_live_peers, in the handler thread of m at n.              *)

GetLivePeers(n, m) ==
    /\ up[n]
    /\ handler[n][m].pc = "stored"
    /\ handler' = [handler EXCEPT
         ![n][m] = [handler[n][m] EXCEPT !.pc = "sending", !.peers = LivePeers(n)]]
    /\ UNCHANGED <<disk, process, retry, recovered, client, crashes, faults, history>>

ReplicateToPeer(n, m, p) ==
    /\ up[n]
    /\ handler[n][m].pc = "sending"
    /\ p \in handler[n][m].peers
    /\ Cardinality(handler[n][m].acks) < Needed
    /\ \E ok \in BOOLEAN :
         /\ TryReplicate(p, m, ok)
         /\ QueueUnless(ok, n, p, m)
         /\ handler' = [handler EXCEPT
              ![n][m] = [handler[n][m] EXCEPT
                !.peers = handler[n][m].peers \ {p},
                !.acks = IF ok THEN handler[n][m].acks \union {p}
                               ELSE handler[n][m].acks]]
    /\ UNCHANGED <<process, retry, recovered, client, crashes, history>>

\* The loop ends (no peer is left, or enough of them answered) and the
\* comprehension over dead_peers begins.
EndOfLivePeers(n, m) ==
    /\ up[n]
    /\ handler[n][m].pc = "sending"
    /\ handler[n][m].peers = {} \/ Cardinality(handler[n][m].acks) >= Needed
    /\ handler' = [handler EXCEPT
         ![n][m] = [handler[n][m] EXCEPT !.pc = "checking", !.peers = Peers[n]]]
    /\ UNCHANGED <<disk, process, retry, recovered, client, crashes, faults, history>>

\* One is_alive(p) of that comprehension; each takes the detector's lock anew.
CheckDead(n, m, p) ==
    /\ up[n]
    /\ handler[n][m].pc = "checking"
    /\ p \in handler[n][m].peers
    /\ handler' = [handler EXCEPT
         ![n][m] = [handler[n][m] EXCEPT
           !.peers = handler[n][m].peers \ {p},
           !.dead = IF alive[n][p] THEN handler[n][m].dead
                                   ELSE handler[n][m].dead \union {p}]]
    /\ UNCHANGED <<disk, process, retry, recovered, client, crashes, faults, history>>

\* The comprehension is complete: its peers are enqueued one by one.
EnqueueDead(n, m, p) ==
    /\ up[n]
    /\ handler[n][m].pc = "checking" /\ handler[n][m].peers = {}
    /\ p \in handler[n][m].dead
    /\ Enqueue(n, p, m)
    /\ handler' = [handler EXCEPT ![n][m] = [handler[n][m] EXCEPT !.dead = handler[n][m].dead \ {p}]]
    /\ UNCHANGED <<store, process, retry, recovered, client, crashes, faults, history>>

\* The handler returns "stored_and_replicated", to a client that still waits.
FinishHandler(n, m) ==
    /\ up[n]
    /\ handler[n][m].pc = "checking"
    /\ handler[n][m].peers = {} /\ handler[n][m].dead = {}
    /\ handler' = [handler EXCEPT ![n][m] = IdleHandler]
    /\ client' = IF client[m].pc = "waiting" /\ client[m].at = n
                 THEN [client EXCEPT ![m] = Answered] ELSE client
    /\ UNCHANGED <<disk, process, retry, recovered, crashes, faults, history>>

-----------------------------------------------------------------------------
(* FailureDetector._ping_peer.                                             *)

\* The peer answered.  A DEAD peer is alive again and its thread is started.
PingAnswered(n, p) ==
    /\ up[n] /\ up[p] /\ p \in Peers[n]
    /\ missed' = [missed EXCEPT ![n][p] = 0]
    /\ alive' = [alive EXCEPT ![n][p] = TRUE]
    /\ recovered' = IF alive[n][p] THEN recovered
                    ELSE [recovered EXCEPT ![n][p] = [recovered[n][p] EXCEPT !.started = TRUE]]
    /\ raced' = IF alive[n][p] THEN raced
                ELSE raced \union {<<n, p, m>> : m \in
                       {x \in Message \ store[p] : StillToCheck(n, p, x)}}
    /\ UNCHANGED <<disk, up, fetching, handler, retry, client, crashes, faults,
                   accepted, dropped>>

\* No answer: the peer is down, or up but too slow for HEARTBEAT_TIMEOUT.
PingMissed(n, p) ==
    LET count == IF missed[n][p] < Threshold THEN missed[n][p] + 1 ELSE Threshold
    IN /\ up[n] /\ p \in Peers[n]
       /\ IF up[p] THEN faults < MaxFaults /\ faults' = faults + 1
                   ELSE UNCHANGED faults
       /\ missed' = [missed EXCEPT ![n][p] = count]
       /\ alive' = [alive EXCEPT ![n][p] = IF count >= Threshold THEN FALSE ELSE @]
       /\ UNCHANGED <<disk, up, fetching, threads, client, crashes, history>>

-----------------------------------------------------------------------------
(* The two threads that drain the queue.                                   *)

\* _retry_loop: the snapshot of live peers at the head of a round.  A round
\* over an empty queue does nothing and is no step.
RetryRound(n) ==
    /\ up[n]
    /\ retry[n] = IdleRetry /\ pending[n] # {}
    /\ retry' = [retry EXCEPT ![n] = [retry[n] EXCEPT !.peers = LivePeers(n)]]
    /\ UNCHANGED <<disk, process, handler, recovered, client, crashes, faults, history>>

\* The next peer of the round: pending_count(p) > 0, then drain(p).
RetryDrain(n, p) ==
    /\ up[n]
    /\ p \in retry[n].peers
    /\ retry[n].batch = {}
    /\ retry' = [retry EXCEPT ![n] = [peers |-> retry[n].peers \ {p},
                                      batch |-> RowsFor(n, p)]]
    /\ Drain(n, p)
    /\ UNCHANGED <<store, process, handler, recovered, client, crashes, faults, history>>

RetrySend(n, p, m) ==
    /\ up[n]
    /\ <<p, m>> \in retry[n].batch
    /\ \E ok \in BOOLEAN : TryReplicate(p, m, ok) /\ QueueUnless(ok, n, p, m)
    /\ retry' = [retry EXCEPT ![n] = [retry[n] EXCEPT !.batch = @ \ {<<p, m>>}]]
    /\ UNCHANGED <<process, handler, recovered, client, crashes, history>>

\* _on_peer_recovered(p).  Threads for one peer share a batch.
RecoveredDrain(n, p) ==
    /\ up[n]
    /\ recovered[n][p].started
    /\ recovered' = [recovered EXCEPT
         ![n][p] = [started |-> FALSE, batch |-> recovered[n][p].batch
                                        \union {row[2] : row \in RowsFor(n, p)}]]
    /\ Drain(n, p)
    /\ UNCHANGED <<store, process, handler, retry, client, crashes, faults, history>>

RecoveredSend(n, p, m) ==
    /\ up[n]
    /\ m \in recovered[n][p].batch
    /\ \E ok \in BOOLEAN : TryReplicate(p, m, ok) /\ QueueUnless(ok, n, p, m)
    /\ recovered' = [recovered EXCEPT ![n][p] = [recovered[n][p] EXCEPT !.batch = @ \ {m}]]
    /\ UNCHANGED <<process, handler, retry, client, crashes, history>>

-----------------------------------------------------------------------------
(* Processes stop at any point and are started again on the same files.    *)
(* What a crash takes from memory gets the value __init__ will give it.    *)

Crash(n) ==
    /\ up[n]
    /\ crashes < MaxCrashes
    /\ crashes' = crashes + 1
    /\ up' = [up EXCEPT ![n] = FALSE]
    /\ fetching' = [fetching EXCEPT ![n] = {}]
    /\ alive' = [alive EXCEPT ![n] = [p \in Node |-> TRUE]]
    /\ missed' = [missed EXCEPT ![n] = [p \in Node |-> 0]]
    /\ handler' = [handler EXCEPT ![n] = [m \in Message |-> IdleHandler]]
    /\ retry' = [retry EXCEPT ![n] = IdleRetry]
    /\ recovered' = [recovered EXCEPT ![n] = [p \in Node |-> IdleRecovered]]
    /\ dropped' = dropped \union
         {t \in {n} \X Peers[n] \X Message : t[3] \notin store[t[2]] /\ InHand(n, t[2], t[3])}
    /\ UNCHANGED <<disk, client, faults, accepted, raced>>

\* HiveChatNode.start on the old files: the gRPC server and the detector run,
\* every peer is presumed alive, and recover_from_peers is about to begin.
Start(n) ==
    /\ ~up[n]
    /\ up' = [up EXCEPT ![n] = TRUE]
    /\ fetching' = [fetching EXCEPT ![n] = Peers[n]]
    /\ UNCHANGED <<disk, alive, missed, threads, client, crashes, faults, history>>

\* One peer of recover_from_peers: GetMessages, then merge_messages.  A fetch
\* that fails yields nothing and the loop goes on.
RecoverFromPeer(n, p) ==
    /\ up[n]
    /\ p \in fetching[n]
    /\ fetching' = [fetching EXCEPT ![n] = @ \ {p}]
    /\ \/ /\ up[p]
          /\ MergeMessages(n, store[p])
          /\ UNCHANGED faults
       \/ ~up[p] /\ UNCHANGED <<store, faults>>
       \/ /\ up[p]
          /\ faults < MaxFaults /\ faults' = faults + 1
          /\ UNCHANGED store
    /\ UNCHANGED <<pending, up, alive, missed, threads, client, crashes, history>>

-----------------------------------------------------------------------------
HandlerStep(n, m) ==
    \/ GetLivePeers(n, m)
    \/ \E p \in Node : ReplicateToPeer(n, m, p)
    \/ EndOfLivePeers(n, m)
    \/ \E p \in Node : CheckDead(n, m, p)
    \/ \E p \in Node : EnqueueDead(n, m, p)
    \/ FinishHandler(n, m)

DrainStep(n) ==
    \/ RetryRound(n)
    \/ \E p \in Node : RetryDrain(n, p) \/ RecoveredDrain(n, p)
    \/ \E p \in Node, m \in Message : RetrySend(n, p, m) \/ RecoveredSend(n, p, m)

Next ==
    \/ \E m \in Message : ClientTimeout(m)
    \/ \E n \in Node, m \in Message :
          \/ SendFails(m, n)
          \/ HandleClientMessage(n, m) \/ HandleDuplicate(n, m)
          \/ HandlerStep(n, m)
    \/ \E n \in Node, p \in Node :
          PingAnswered(n, p) \/ PingMissed(n, p) \/ RecoverFromPeer(n, p)
    \/ \E n \in Node : DrainStep(n) \/ Crash(n) \/ Start(n)

Spec == Init /\ [][Next]_vars

-----------------------------------------------------------------------------
(* Fairness: every thread of a running process is scheduled, pings are sent*)
(* for ever, and a process that stopped is started again by its operator.  *)
(* Faults and crashes being bounded, calls to running nodes succeed in the *)
(* end; no fairness is asked of the client, of faults or of crashes.       *)

Fairness ==
    /\ \A n \in Node, m \in Message : WF_vars(HandlerStep(n, m))
    /\ \A n \in Node : WF_vars(Start(n)) /\ WF_vars(RetryRound(n))
    /\ \A n \in Node, p \in Node :
         /\ WF_vars(PingAnswered(n, p))
         /\ WF_vars(RetryDrain(n, p)) /\ WF_vars(RecoveredDrain(n, p))
         /\ WF_vars(RecoverFromPeer(n, p))
         /\ \A m \in Message : /\ WF_vars(RetrySend(n, p, m))
                               /\ WF_vars(RecoveredSend(n, p, m))

FairSpec == Spec /\ Fairness

-----------------------------------------------------------------------------
(* What the layer promises of its disks: ReplicatedInbox, with the store as*)
(* what is held and the clients' successes as what is confirmed.           *)

Inbox == INSTANCE ReplicatedInbox WITH
             held <- store,
             confirmed <- {m \in Message : client[m].pc = "acked"}

-----------------------------------------------------------------------------
(* Properties.                                                             *)

HandlerRecord ==
    [pc : HandlerPC, peers : SUBSET Node, acks : SUBSET Node, dead : SUBSET Node]

ClientRecord ==
    [pc : {"idle", "waiting", "acked", "failed"},
     at : Node \union {NoNode}, untried : SUBSET Node]

DiskOK ==
    /\ store \in [Node -> SUBSET Message]
    /\ pending \in [Node -> SUBSET (Node \X Message)]

ProcessOK ==
    /\ up \in [Node -> BOOLEAN]
    /\ fetching \in [Node -> SUBSET Node]
    /\ alive \in [Node -> [Node -> BOOLEAN]]
    /\ missed \in [Node -> [Node -> 0..Threshold]]

ThreadsOK ==
    /\ handler \in [Node -> [Message -> HandlerRecord]]
    /\ retry \in [Node -> [peers : SUBSET Node, batch : SUBSET (Node \X Message)]]
    /\ recovered \in [Node -> [Node -> [started : BOOLEAN, batch : SUBSET Message]]]
    /\ client \in [Message -> ClientRecord]

BoundsOK == crashes \in 0..MaxCrashes /\ faults \in 0..MaxFaults

HistoryOK ==
    /\ accepted \subseteq Node \X Message
    /\ dropped \subseteq Node \X Node \X Message
    /\ raced \subseteq Node \X Node \X Message

\* The type invariant: what each variable's comment says of it.
TypeOK == DiskOK /\ ProcessOK /\ ThreadsOK /\ BoundsOK /\ HistoryOK

\* The duty of n to bring m to p is done, queued on disk, or in a thread's hands.
Covered(n, p, m) ==
    m \in store[p] \/ <<p, m>> \in pending[n] \/ InHand(n, p, m)

FullReplication == \A n \in Node : Needed >= Cardinality(Peers[n])

\* Under full replication a node that inserted a client's message never loses
\* track of a peer that lacks it, but in two ways: its own crash took the duty
\* from memory, or the detector changed its mind about the peer between
\* get_live_peers and is_alive (fault.py:509 and 523).  Failed calls, answers
\* that come too late, concurrent drains and crashes of peers lose nothing.
NoMessageForgotten ==
    FullReplication =>
        \A n \in Node, m \in Message : \A p \in Peers[n] :
            <<n, m>> \in accepted =>
                Covered(n, p, m) \/ <<n, p, m>> \in dropped \union raced

\* Every id in a queue, a batch or a handler has its row in the node's own
\* message store, across crashes: the lookup that turns an id back into a
\* message ("Message was purged; skip", fault.py:579 and 605) always finds it.
QueuedIsStored ==
    \A n \in Node, p \in Node, m \in Message :
        \/ handler[n][m] # IdleHandler
        \/ <<p, m>> \in pending[n]
        \/ Drained(n, p, m)
        => m \in store[n]

\* What makes NoMessageForgotten inductive.  The peers that answered the loop of
\* a handler are no longer on its list, so under full replication the loop ends
\* with an empty list; and a peer the handler has passed over as live has
\* nothing to wait for from it.
Settled(n, p, m) ==
    \/ m \in store[p] \/ <<p, m>> \in pending[n] \/ Drained(n, p, m)
    \/ <<n, p, m>> \in dropped \union raced

AcksLeftTheList ==
    \A n \in Node, m \in Message :
        /\ handler[n][m].pc = "stored" => handler[n][m].acks = {}
        /\ handler[n][m].pc = "sending" =>
              /\ handler[n][m].peers \subseteq Peers[n]
              /\ handler[n][m].acks \subseteq Peers[n] \ handler[n][m].peers

LivePeersSettled ==
    \A n \in Node, m \in Message : \A p \in Peers[n] :
        /\ handler[n][m].pc = "sending" /\ p \notin handler[n][m].peers /\ alive[n][p]
              => Settled(n, p, m)
        /\ handler[n][m].pc = "checking" /\ p \in handler[n][m].peers /\ alive[n][p]
              => Settled(n, p, m)

\* The detailed design implements the abstract inbox: no store ever loses a
\* row, a row comes from a client or from another node's store, and success is
\* reported of stored messages only, whatever crashes and is retried.
ImplementsInbox == Inbox!Spec

\* Every message a node inserts for a client reaches every peer in the end,
\* unless the two losses above took it; through any mix of failed calls,
\* crashes and restarts (README.md:89, the queue "is automatically drained").
EventuallyReplicated ==
    \A n \in Node, p \in Node, m \in Message :
        (<<n, m>> \in accepted /\ p \in Peers[n]) ~>
            (m \in store[p] \/ <<n, p, m>> \in dropped \union raced)

\* fault.py:306 says of the queue that it "Survives node restarts": a crash
\* loses no row that was queued for a peer which still lacks the message.
QueueSurvivesRestart ==
    [][\A n \in Node : Crash(n) =>
         \A p \in Peers[n], m \in Message :
             (Drained(n, p, m) \/ <<p, m>> \in pending[n]) /\ m \notin store[p]
                 => <<p, m>> \in pending'[n]]_vars

\* README.md:474: every node holds a complete copy.  So of a message whose
\* sender was told success, every node has the row, or is owed it by some
\* node, or is about to fetch it from one that has it.
AckedReachesAll ==
    \A m \in Message : client[m].pc = "acked" =>
        \A p \in Node :
            \/ m \in store[p]
            \/ \E n \in Node : p \in Peers[n] /\ Covered(n, p, m)
            \/ \E n \in fetching[p] : m \in store[n]
=============================================================================
