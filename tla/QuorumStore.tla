---------------------------- MODULE QuorumStore ----------------------------
(***************************************************************************)
(* Quorum writes and reads: MessageStore and ReplicationManager.write,     *)
(* read and receive_replica of node/replication.py, over the gRPC handlers *)
(* of node/server.py.                                                      *)
(*                                                                         *)
(* A node has two stores.  write saves to the MessageStore, in memory; a   *)
(* Replicate RPC saves to the SQLite table of the fault-tolerance layer,   *)
(* on disk, and to the MessageStore; a GetMessages RPC answers from the    *)
(* table.  What passes between the tables by other ways is the subject of  *)
(* FaultTolerance and left out here, but for the fetch after a restart.    *)
(*                                                                         *)
(* One chat: _read_from_peer labels all it fetches with the chat asked for.*)
(* A replica is filed under its receiver instead (server.py:75), a field   *)
(* create_message does not set, so a read of the chat never finds it in    *)
(* the reader's own MessageStore.                                          *)
(***************************************************************************)
EXTENDS Integers, Sequences, FiniteSets

CONSTANTS
    Node,
    Message,    \* message ids; create_message makes a new one for each write
    NoNode,     \* the writer of a message not written yet
    PeerList,   \* PeerList[n]: the peers of n in the order it was given them
    QuorumW,
    QuorumR,
    MaxCrashes, \* bound: crashes of processes, all nodes together
    MaxFaults   \* bound: RPCs to a running node that fail or time out

Peers(n) == Node \ {n}

ASSUME NodeAssumption == IsFiniteSet(Node) /\ NoNode \notin Node
ASSUME PeersAssumption ==
    /\ PeerList \in [Node -> Seq(Node)]
    /\ \A n \in Node : /\ Len(PeerList[n]) = Cardinality(Node) - 1
                       /\ \A p \in Peers(n) : \E k \in DOMAIN PeerList[n] : PeerList[n][k] = p
\* server.py:228-229 takes the smaller of two and the size of the cluster.
ASSUME QuorumAssumption == {QuorumW, QuorumR} \subseteq 1..Cardinality(Node)
ASSUME BoundAssumption == {MaxCrashes, MaxFaults} \subseteq Nat

VARIABLES
    memory,     \* memory[n][m]: m in n's MessageStore: its status, or a replica
    disk,       \* disk[n]: ids in n's SQLite table
    up,         \* up[n]: n's process runs
    writer,     \* writer[m]: the write call of m
    reader,     \* reader[n]: the read call at n
    crashes, faults,
    lastRead    \* history: what the last whole read at n returned

vars == <<memory, disk, up, writer, reader, crashes, faults, lastRead>>

IdleWriter == [pc |-> "idle", at |-> NoNode, left |-> <<>>, acks |-> 0]

\* known: what was committed when the read began; whole: no peer failed.  Both
\* are history.
IdleReader == [pc |-> "idle", left |-> <<>>, reads |-> 0, result |-> {},
               known |-> {}, whole |-> TRUE]

Nothing == [m \in Message |-> "none"]

Init ==
    /\ memory = [n \in Node |-> Nothing]
    /\ disk = [n \in Node |-> {}]
    /\ up = [n \in Node |-> TRUE]
    /\ writer = [m \in Message |-> IdleWriter]
    /\ reader = [n \in Node |-> IdleReader]
    /\ crashes = 0 /\ faults = 0
    /\ lastRead = [n \in Node |-> {}]

-----------------------------------------------------------------------------
(* write.  An operator whose name begins with Bad is a mutation of the one *)
(* after it, used by no specification.                                     *)

\* A new id is no duplicate.
BeginWrite(n, m) ==
    /\ up[n]
    /\ writer[m].pc = "idle"
    /\ memory' = [memory EXCEPT ![n][m] = "pending"]
    /\ writer' = [writer EXCEPT ![m] = [pc |-> "forwarding", at |-> n,
                                        left |-> PeerList[n], acks |-> 1]]
    /\ UNCHANGED <<disk, up, reader, crashes, faults, lastRead>>

\* FaultServicer.Replicate at p: handle_replica_message, then receive_replica,
\* whose reorderer lets a message without a clock through at once.
BadReceive(p, m) ==
    /\ memory' = [memory EXCEPT ![p][m] = "replica"]
    /\ UNCHANGED disk

BadFiling(p, m) ==
    /\ disk' = [disk EXCEPT ![p] = @ \union {m}]
    /\ memory' = [memory EXCEPT ![p][m] = "committed"]

Receive(p, m) ==
    /\ disk' = [disk EXCEPT ![p] = @ \union {m}]
    /\ memory' = [memory EXCEPT ![p][m] = IF @ = "none" THEN "replica" ELSE @]

\* Whether an RPC to p fails.  A node that is down does not answer.
RpcOk(p) == up[p] /\ UNCHANGED faults
RpcFails(p) == IF up[p] THEN faults < MaxFaults /\ faults' = faults + 1
                        ELSE UNCHANGED faults

BadAcks(acks, ok) == acks + 1

Acks(acks, ok) == IF ok THEN acks + 1 ELSE acks

\* _forward_to_peer; a call to a running node may fail before or after p saved.
Forward(m) ==
    LET w == writer[m]
        p == Head(w.left)
    IN /\ w.pc = "forwarding" /\ w.left # <<>>
       /\ \E ok \in BOOLEAN :
            /\ IF ok THEN RpcOk(p) ELSE RpcFails(p)
            /\ \/ up[p] /\ Receive(p, m)
               \/ ~ok /\ UNCHANGED <<memory, disk>>
            /\ writer' = [writer EXCEPT ![m] = [w EXCEPT !.left = Tail(@),
                                                         !.acks = Acks(@, ok)]]
       /\ UNCHANGED <<up, reader, crashes, lastRead>>

\* All peers were asked: mark_committed and True, or False with m left pending.
EndWrite(m) ==
    LET w == writer[m]
    IN /\ w.pc = "forwarding" /\ w.left = <<>>
       /\ IF w.acks >= QuorumW
          THEN /\ memory' = [memory EXCEPT ![w.at][m] = "committed"]
               /\ writer' = [writer EXCEPT ![m].pc = "committed"]
          ELSE /\ writer' = [writer EXCEPT ![m].pc = "refused"]
               /\ UNCHANGED memory
       /\ UNCHANGED <<disk, up, reader, crashes, faults, lastRead>>

Committed == {m \in Message : writer[m].pc = "committed"}

-----------------------------------------------------------------------------
(* read                                                                    *)

\* get_by_chat: what this node wrote and committed.
Local(n) == {m \in Message : memory[n][m] = "committed"}

BeginRead(n) ==
    /\ up[n]
    /\ reader[n].pc = "idle"
    /\ reader' = [reader EXCEPT ![n] = [pc |-> "reading", left |-> PeerList[n], reads |-> 1,
                                        result |-> Local(n), known |-> Committed,
                                        whole |-> TRUE]]
    /\ UNCHANGED <<memory, disk, up, writer, crashes, faults, lastRead>>

BadFetched(p) == Local(p)

\* _read_from_peer: GetMessages answers with the table.
Fetched(p) == disk[p]

\* A peer that fails yields nothing and counts as read.
ReadFromPeer(n) ==
    LET r == reader[n]
        p == Head(r.left)
    IN /\ r.pc = "reading" /\ r.left # <<>> /\ r.reads < QuorumR
       /\ \E ok \in BOOLEAN :
            /\ IF ok THEN RpcOk(p) ELSE RpcFails(p)
            /\ reader' = [reader EXCEPT ![n] =
                 [r EXCEPT !.left = Tail(@), !.reads = @ + 1,
                           !.result = IF ok THEN @ \union Fetched(p) ELSE @,
                           !.whole = @ /\ ok]]
       /\ UNCHANGED <<memory, disk, up, writer, crashes, lastRead>>

ReadEnds(n) ==
    reader[n].pc = "reading" /\ (reader[n].left = <<>> \/ reader[n].reads >= QuorumR)

EndRead(n) ==
    /\ ReadEnds(n)
    /\ reader' = [reader EXCEPT ![n] = IdleReader]
    /\ lastRead' = IF reader[n].whole THEN [lastRead EXCEPT ![n] = reader[n].result]
                                      ELSE lastRead
    /\ UNCHANGED <<memory, disk, up, writer, crashes, faults>>

-----------------------------------------------------------------------------
\* The MessageStore and the calls in progress are lost with the process.
Crash(n) ==
    /\ up[n]
    /\ crashes < MaxCrashes /\ crashes' = crashes + 1
    /\ up' = [up EXCEPT ![n] = FALSE]
    /\ memory' = [memory EXCEPT ![n] = Nothing]
    /\ writer' = [m \in Message |->
                    IF writer[m].pc = "forwarding" /\ writer[m].at = n
                    THEN [writer[m] EXCEPT !.pc = "lost"] ELSE writer[m]]
    /\ reader' = [reader EXCEPT ![n] = IdleReader]
    /\ UNCHANGED <<disk, faults, lastRead>>

\* recover_from_peers fills the table, from the peers that answer, not the
\* MessageStore.
Start(n) ==
    /\ ~up[n]
    /\ up' = [up EXCEPT ![n] = TRUE]
    /\ \E from \in SUBSET {p \in Peers(n) : up[p]} :
         disk' = [disk EXCEPT ![n] = @ \union UNION {disk[p] : p \in from}]
    /\ UNCHANGED <<memory, writer, reader, crashes, faults, lastRead>>

Next ==
    \/ \E n \in Node, m \in Message : BeginWrite(n, m)
    \/ \E m \in Message : Forward(m) \/ EndWrite(m)
    \/ \E n \in Node : BeginRead(n) \/ ReadFromPeer(n) \/ EndRead(n)
    \/ \E n \in Node : Crash(n) \/ Start(n)

Spec == Init /\ [][Next]_vars

-----------------------------------------------------------------------------
(* Properties.                                                             *)

WriterRecord ==
    [pc : {"idle", "forwarding", "committed", "refused", "lost"},
     at : Node \union {NoNode}, left : Seq(Node), acks : 0..Cardinality(Node)]

ReaderRecord ==
    [pc : {"idle", "reading"}, left : Seq(Node), reads : 0..Cardinality(Node),
     result : SUBSET Message, known : SUBSET Message, whole : BOOLEAN]

\* The type invariant; only the writer holds a message as its own, and a node
\* that is down has nothing in memory.
TypeOK ==
    /\ memory \in [Node -> [Message -> {"none", "pending", "committed", "replica"}]]
    /\ disk \in [Node -> SUBSET Message]
    /\ up \in [Node -> BOOLEAN]
    /\ writer \in [Message -> WriterRecord]
    /\ reader \in [Node -> ReaderRecord]
    /\ crashes \in 0..MaxCrashes /\ faults \in 0..MaxFaults
    /\ lastRead \in [Node -> SUBSET Message]
    /\ \A n \in Node, m \in Message :
         memory[n][m] \in {"pending", "committed"} => writer[m].at = n
    /\ \A n \in Node : ~up[n] => memory[n] = Nothing /\ reader[n] = IdleReader

Copies(m) == {p \in Peers(writer[m].at) : m \in disk[p]}

\* A write that met its quorum is on the disks of QuorumW - 1 nodes besides its
\* writer, for ever: whichever processes crash, and although the memory that
\* counted it is lost.
CommittedIsOnDisks ==
    \A m \in Committed : Cardinality(Copies(m)) >= QuorumW - 1

\* Write and read quorums that overlap on disks: the writer's own copy is not on
\* its disk, so the two have to exceed the nodes by two.
WideQuorums == QuorumW + QuorumR > Cardinality(Node) + 1

\* With wide quorums a read that no peer failed returns all that was committed
\* before it began, or has it on its node's disk (whose MessageStore lost it).
WideReadSeesCommitted ==
    WideQuorums =>
        \A n \in Node : ReadEnds(n) /\ reader[n].whole
            => reader[n].known \subseteq reader[n].result \union disk[n]

\* With wide quorums a whole read returns all that an earlier one at that node
\* returned, even what the node had in its MessageStore and lost in a crash.
MonotonicReads ==
    WideQuorums =>
        \A n \in Node : ReadEnds(n) /\ reader[n].whole
            => lastRead[n] \subseteq reader[n].result

\* README.md:139: "W + R > N -> reads always see the latest committed write".
ReadSeesCommitted ==
    QuorumW + QuorumR > Cardinality(Node) =>
        \A n \in Node : ReadEnds(n) => reader[n].known \subseteq reader[n].result
=============================================================================
