# HiveChat, specified

HiveChat is a small replicated chat service in Python: a few nodes that talk
gRPC, each with a SQLite file, and clients that fail over between them. This
directory holds its specification: TLA+ modules translated from the source, the
TLC configurations that check them on small instances, and theorems with proofs
for TLAPS. Line numbers are those of the repository this directory belongs to;
a bare file name is under `src/node/`.

## 1. The system

| part | state | operations | talks to |
| --- | --- | --- | --- |
| fault tolerance, `fault.py` | two SQLite tables (messages; rows owed to a peer), the failure detector's view of each peer, threads | client message, replica, ping, retry round, peer recovered, recover from peers | every peer over `Heartbeat`, `Replicate`, `GetMessages`; called by `server.py` |
| Raft, `consensus.py` | term, vote, log, commit index, role, what a leader knows of its peers | election, vote, append, client message, sync, and the tests' crash, recovery and partition | the peers' objects, by direct calls; hands committed entries to `replication.py` |
| replication manager, `replication.py` | an in-memory store with statuses, a vector clock | create, quorum write and read, receive a replica, apply a Raft entry | the peers over `Replicate` and `GetMessages`; the reorderer and the clocks |
| reorderer and Lamport clock, `time_sync.py` | what was delivered of each sender, a buffer | try to deliver, flush with a timeout, tick, update | called by the replication manager, calls back into its store |
| clock synchronisation, `time_sync.py`, `time_sync_service.py` | windows of offset and round-trip samples, the reference, the interval | sync loop, add or reject a sample, change the reference | the reference node over gRPC |
| server, `server.py` | wires the parts together; a pool of ten threads | RPC handlers, start, stop | all of the above |
| client, `../client/client.py` | its list of servers and the last that worked | send with fail-over, receive | `SendMessage`, `GetMessages` |
| web client, `../web_client.py` | one client object per user, the users online | send, inbox, chat view, each in a thread of its own | the client's methods; every server's `GetMessages` |
| fault injection, `fault_injection.py` | the faults that are on | partition, corrupt sample, delay, clock jump | the sync thread |
| settings, logs, report | no state of the cluster | | |

How they interact. A client's message goes to one node, which commits it to its
own table, pushes it to the peers its detector thinks alive, and queues it for
those it thinks dead. Three kinds of thread touch the queue: handlers, one retry
thread, and a thread for each recovery the detector notices. A node that
restarts first asks every peer for all its messages. Beside that path, every
replica also goes through the replication manager, whose clocks and reorderer
keep causal order where the message carries a clock. Raft is complete but runs in
the tests only: the server gives it no peers (`server.py:241`).

What is hard here, by part (the full list, each at its line, is in `PROJECT.json`
under `hazards`):

* **Fault tolerance.** State read under one lock and used after it (the detector
  is asked twice, `fault.py:509` and `523`); rows deleted before the work is done
  (`341`); calls that fail after they took effect; crashes between any two steps;
  a client that repeats a message elsewhere.
* **Raft.** Contested elections, logs that diverge and are cut back, leaders
  deposed without knowing it, what a crash may forget.
* **Causal delivery.** Copies in any order and more than once, in several threads of a
  node; the Lamport clock moves on arrival and the vector clock on delivery; gaps in
  the clocks that no message fills, a buffer that only another arrival empties.
* **Quorums.** Two stores with different lives, a quorum counted on one of them
  and read from the other, failed peers that count as read.
* **Clock synchronisation.** Samples that arrive after the reference changed, a
  filter that may reject everything for ever, a thread that an exception ends.
* **Server threads.** Handlers that keep a thread of their own server while they
  wait for one of a peer's, heartbeats that wait in the same queue, nodes that hang
  rather than crash.
* **Web client.** Requests at the same time over one client object, each moving the
  index the others go by; late answers; failures that look like an empty inbox.

## 2. The modules

| module | models | checked by | proofs |
| --- | --- | --- | --- |
| `FaultTolerance` | `fault.py`, its RPC handlers in `server.py`, the fail-over loop of `client.py` | `MCFaultTolerance`, four runs | `FaultToleranceProofs` |
| `ReplicatedInbox` | what that layer promises, with no word of crashes, queues or threads | `FT_live`, as the property `ImplementsInbox` | `FaultToleranceProofs!Refinement` |
| `Raft` | `consensus.py` | `MCRaft`, two runs | `RaftProofs`, `RaftLogProofs` |
| `ReplicatedLog` | what consensus promises: one log of committed entries, handed to each node in order | `Raft_safety`, as the property `ImplementsLog` | `RaftLogProofs!Refinement` |
| `CausalDelivery` | `VectorClock` and the create/receive path of `replication.py`; `LamportClock` and `MessageReorderer` of `time_sync.py` | `MCCausalDelivery`, one run | `CausalDeliveryProofs` |
| `QuorumStore` | `MessageStore`, `write`, `read` and the two RPC handlers they call | `MCQuorumStore`, two runs | `QuorumStoreProofs` |
| `TimeSync` | `TimeSyncer` of `time_sync.py`, `time_sync_service.py`, what `fault_injection.py` does to them | `MCTimeSync`, one run | `TimeSyncProofs` |
| `ServerPool` | the thread pools and call timeouts of `server.py`, with the handler and the detector of `fault.py` in time | `MCServerPool`, one run | `ServerPoolProofs` |
| `WebChat` | `client.py` as `web_client.py` uses it, and its chat view, over a cluster that is `ReplicatedInbox` | `MCWebChat`, one run | `WebChatProofs` |

How they compose. `FaultTolerance` shows that the servers' tables and the success
reported to senders behave as `ReplicatedInbox`; `WebChat` has servers of which just
that is assumed and shows that the user's side, with fail-over and threads of its
own, is again a `ReplicatedInbox`. `ServerPool` takes the handler and the detector of
`FaultTolerance`, leaves the queue out and puts threads and time in. `Raft`
implements `ReplicatedLog`, whose `applied` is what `apply_committed_entry` of
`CausalDelivery` is called with.

An operator whose name begins with `Bad` is a mutation of the definition after
it. No specification uses it; `PROJECT.json` pairs each with the property that
must catch it.

### FaultTolerance

`store` and `pending` are the two tables and survive a crash; all else is memory.
A thread is a record with a program counter, cut where the code takes a lock,
commits a transaction or calls another node: `handler[n][m]` is the thread of
`handle_client_message`, `retry[n]` that of `_retry_loop`, `recovered[n][p]` that of
`_on_peer_recovered`, `client[m]` a call of `send_with_failover`. The handler goes
through the code's own order: insert the row (`HandleClientMessage`), read the list
of live peers (`GetLivePeers`), send to each (`ReplicateToPeer`), ask again for each
peer whether it is dead (`CheckDead`), queue those (`EnqueueDead`), answer
(`FinishHandler`). `Crash` may fall between any two steps, `Start` runs the process
on the old files, `RecoverFromPeer` is one fetch of the recovery.

`Peers[n]` is the list `n` was started with. The lists need not mirror each other: in
the quick start of the repository (`../README.md:318-333`) each node knows the earlier
ones only, and a duty is towards one's own peers. The runs have lists of all other
nodes, the proofs any.

A Replicate call to a running node can succeed, or fail before or after the peer
stored the row; one that reaches the peer after its caller gave up counts as
stored at the time-out. Three variables are history: who accepted what
(`accepted`), which duties a crash took from memory (`dropped`), and which messages
met the change of mind of the detector (`raced`).

Abstractions: a failed call and the queueing of its message are one step (a crash
in between does what a crash before the call does); threads for one peer's
recovery share one batch; a fetch and its merge are one step; a retry round over
an empty queue is none; the peers of a loop come in any order; a request's way to
the server is no step; the initial state is a fresh cluster whose empty recovery
is over; the missed-heartbeat count stops at its threshold, where the code compares
with `>=` only; an orderly `stop` is a `Crash`. Metrics, latencies and the event log are left out, and so are
messages that fail validation, which no client of the repository builds.

### Raft

The nodes are objects of one process and an RPC is a method call, so one call of a
public method, with all the calls it makes, is one action; calls, crashes,
recoveries and partitions interleave in any order. The state of a node is one
record and the RPC handlers (`RequestVote`, `AppendEntries`) are functions from it
to the next. Indices are one higher than the code's. The backtracking loop of
`_send_append_entries_to_peer` is given in closed form, `SendToPeer` and `AfterSending`;
`SendLoop` is the loop itself, try by try, and the property `SendToPeerIsTheLoop` says
that the two agree for every leader and peer, from every `next_index`. `recover` may be
called for a node that is active, as its code does not ask. `set_peers` runs before
the first step.

History: `elected` (who won which term), `forgotten` (terms in which a recovery
threw away a vote), `unchecked` (`sync_from_leader` committed past an append the node
refused). The last two are the code's own departures from Raft. The first is a
finding (`Raft_vote`); the second lets a node apply entries of its own log that nobody
else has, when `sync_from_leader` takes over the commit index after an append that
failed (`consensus.py:753-756`). The other properties say what holds as long as
neither happens.

`ReplicatedLog` has no terms, votes or faults. The refinement maps `committed` to the
longest of the nodes' applied sequences and `applied` to each node's own. A step of
`Raft` is then a commit by one node, which is handed the whole log at once, or some
nodes catching up, or neither.

### CausalDelivery

The state of a node is one record, its `ReplicationManager` with the clocks and the
reorderer. The handler of a copy is cut where the code is: `ReceiveReplica` looks for a
duplicate and moves the Lamport clock (`replication.py:367-374`), `TryDeliver` takes the
reorderer's lock and puts the copy in the sorted buffer (`time_sync.py:511-516`),
`DeliverNext` is one delivery of a flush, with its callback. `calls[m]` counts the threads
between the first two, so any number of copies of one message may have passed the
duplicate check; `at` is the place in the buffer a flush has come to, 0 when the lock is
free. Between two deliveries other threads of the node may create messages, apply a
Raft entry or receive. `FlushFrom` passes over what cannot be delivered to the next that
can, in this pass or from the start of the next, and ends with the pass that finds none.
`create_message` is one step, its two ticks and the save together.

The clock arithmetic is the code's: receipt counts as an event; the callback replaces
the message's clock by the receiver's before `_mark_delivered` reads it
(`replication.py:381`, `time_sync.py:582`). `Expire` lets a waiting message reach its
time-out, which acts at the next `try_deliver` only, as in the code; any waiting message
may be first, as both times are `time.time()`, which may be set back. `past[m]`, history,
holds the true causes of a message. The ids also rank the timestamps and are created in
any order, since clocks of different nodes need not agree.

A message may wait though all its causes are there. Replies do so as a rule: a receipt
counts as an event of the receiver (`replication.py:109`), so the clock of its next
message has a gap, and one's own messages never count as delivered; only the time-out
releases it, although "Once the missing dependency arrives, we flush everything that is
now unblocked" (`time_sync.py:464-466`). The chain of three in `../tests/test_time_sync.py`
is delivered because its clocks, made by hand, count no receipts. `WaitsForAGap` says
that, on a node where nothing timed out, nothing else makes a message wait.

### QuorumStore

Each node has the in-memory store that `write` fills and the table that a `Replicate`
RPC fills beside it; `GetMessages`, which `read` uses, answers from the table. A
replica is filed in memory under its `receiver`, which `create_message` does not set,
so a later read of the chat at the replica's own node does not find it
(`server.py:75`, `replication.py:56`). Peers are asked in the order of the node's list,
calls may fail, processes may crash. `known` and `whole` in a read are history:
what was committed when it began, and whether every peer it asked answered. The
quorums are any numbers up to the size of the cluster (`server.py:228-229` computes a
majority), and each node has its own order of peers.

Left out: the fault-tolerance path that fills both stores too (`FaultTolerance` is
about that), `apply_sync` and `get_sync_state`, which only the tests call, and a
second write of the same message (`replication.py:248`, which answers success
without a quorum), since `create_message` makes a new id each time.

### TimeSync

One node's sync thread, one action for each stretch between two looks at shared
state, because `_sync_loop` takes the lock only in `_add_sample` while `set_reference`
may come from the command loop at any time: choose the reference (`DoSync`), the
call (`Answer`, `CallFails`), the three separate looks at the round-trip history
(`CheckHistory`, `Judge`, `Reject`), `AddSample`, `AdaptInterval`. Clocks are skews; an
answer has a way there and a way back, each from a finite set, for the call has a
timeout (`time_sync_service.py:106`); medians are kept doubled to stay integers.
`corrupt_sample` of the fault injector calls `_add_sample` in a thread of its own and has
the same separate looks (`CorruptSample`, `JudgeCorrupt`, `AddCorrupt`). The origin of each
sample is history. The references are any nodes: the server's
Raft node has no peers, so the command `elect` always wins and may name a reference
again and again.

Three things the model makes visible, provisos of properties rather than runs, as
no sentence of the repository denies them:

* `set_reference` empties the history without regard to the sync thread; if that
  falls between the look at its length (`time_sync.py:338`) and the median (`340`, `355`),
  `statistics.median` raises, nothing catches it, and the thread is gone
  (`thread.pc = "dead"`).
* A failed call records a made-up round trip, the time between two readings of the
  clock. Three of those and every real answer exceeds three times the median; a
  rejected one is not recorded, so this lasts (`LockedOut`). A lasting slow-down of the
  network by more than the factor does the same.
* A change of reference leaves `_prev_offset` alone, so the next round compares
  offsets of two references; `MisledOnce` says that it does so for one round only.

A fourth is denied by sentences of the repository. `_adapt_interval` is to "gradually slow
down toward the default" (`time_sync.py:297`), with "Don't exceed the configured default"
at its second bound (`302`), and `../README.md:161` says "Syncs every 5 seconds"; but both
bounds are `MAX_SYNC_INTERVAL`, 30 seconds (`298-303`), and a stable clock soon polls every
30. `Adapted` is as the code. No run is spent on it, as two rounds of polling show it: a
property that says "no slower than the default" fails at the first stable round.

Left out: statistics and the log; the injected delay, which is slept before the
first reading of the clock and so changes no sample; the injected clock jump, which
changes what `get_adjusted_time` returns only; a second sync thread, which `start` after
`stop` might make and the server never does.

### ServerPool

The pool of a server serves all its RPCs, and `SendMessage` keeps its thread while it
calls one live peer after the other. `running` is the handlers that hold a thread,
each with the peer it waits for and for how long; a call is served when the peer has a
free thread (`Free`), else it stays in the peer's queue until its timeout. Time is
discrete: `Tick` happens only when nothing is due, and each wait has a counter up to its
timeout. A request whose caller gave up is taken off the queue, as gRPC cancels it
there; a handler already running goes on. A node may hang: it is reachable and
answers nothing. `Heartbeat` and `Replicate` handlers need a thread for no time.

The pool is the reason that a server which works can be taken for dead: its threads
all wait for a node that hangs, heartbeats time out in the queue, and three rounds of
that suffice. The run shows that such a false death does occur, and that it heals.

### WebChat

`web_client.py` keeps one `HiveChatClient` for a user and server list, and Flask serves
each request in a thread; so a send, an inbox poll and another send may go through
`send_with_failover` and `receive_messages` of one object at the same time. `index` is
its `_current_index`, read anew for each attempt. `call[c]` is the thread of a request: which
attempt, at which server, waiting or broken off. The chat view asks every server in
turn and merges. A request that reached a server is handled in its own time
(`Handle`), also after its caller gave up. When a server crashes, a call whose answer
was on its way may take it all the same, later, and set the index then (`client.py:84`);
the others are broken off. History: `steady`, the servers that ran since
the request began and failed no call of it, emptied when another request moves the
index under it; `owed`, what such servers held when a view began.

What the proviso means: two requests that share the object may make one of them ask
a server twice and leave another out, and so give up although that one works
(`client.py:79`). `GivesUpForAReason` holds of all other cases.

Of the three kinds of request only sends and inboxes read and set the index. The page
polls the view (`../templates/index.html:589,638`), which does neither; an inbox is asked
for when a user types `/inbox` (`client.py:190`) or calls `/api/messages`. So nothing makes the
index leave a server that stays down until somebody sends or asks, and `FindsTheServer`
is about users who go on asking. The inbox cannot tell "no
messages" from "no server": `receive_messages` returns an empty list for both.

## 3. The runs

Each configuration's constants are its bounds. Every action fires in some passing
run. Deadlock is checked in `Time_align`, `Pool` and `Web`, where time, polls or faults
never end; elsewhere it is not, since the bounds on messages and faults let the
system come to rest.

| run | instance | what it shows |
| --- | --- | --- |
| `FT_batch` | 2 nodes, 2 messages, 1 crash, 2 failed calls | `QueuedIsStored`, `NoMessageForgotten`, `LivePeersSettled`: two messages make a batch, the least with which a drain can race a handler and another drain |
| `FT_live` | 2 nodes, both known to the client, 1 message, 1 crash, 1 failed call | `EventuallyReplicated` under fairness, and `ImplementsInbox` |
| `FT_restart` | 2 nodes, 2 crashes | *violation* of `QueueSurvivesRestart`: one crash makes the peer's row, the second loses it between `drain` and the call |
| `FT_acked` | 3 nodes, 1 crash | *violation* of `AckedReachesAll` |
| `Raft_safety` | 3 nodes, 2 terms, logs of 2, one node faulty at a time | election safety, log matching, leader completeness, state machine safety, what is committed on a majority for ever (`CommittedOnMajority`), the loop's closed form, what a leader counts at its peers (`MatchIndexIsHeld`), and the refinement `ImplementsLog` |
| `Raft_vote` | 3 nodes, 1 term | *violation* of `ElectionSafety` |
| `Causal_order` | 3 nodes, 2 messages, 3 further copies or Raft entries, any number of time-outs | causal order, both clocks, `DeliveredOnce`, and `WaitsForAGap`: why a message still waits |
| `Quorum_wide` | 3 nodes, W = 2, R = 3, 2 crashes, 1 failed call | durability of a committed write; what a read sees if the quorums overlap on disks |
| `Quorum_read` | 3 nodes, W = R = 2, no failure | *violation* of `ReadSeesCommitted` |
| `Time_align` | 2 references, clocks 60 ahead and behind, windows of 3, 2 changes of reference, 1 corrupt sample, any outages | `OneLateSample`, `MajorityAligns`, `MisledOnce`; under fairness `EventuallyAligned` |
| `Pool` | 3 servers with 1 thread, 2 clients that know 2 of them, the third may hang | `HandlersEnd`, `HangIsDetected`, `FalseDeathsHeal` |
| `Web` | 3 servers, a send, an inbox and a view at the same time, 2 crashes or timeouts | `GivesUpForAReason`, `ViewIsComplete`, `ImplementsInbox`; under fairness `FindsTheServer` |

Why the bounds are enough. Duties, drains and detector races concern one pair of
nodes, so two nodes show them and the proofs cover the rest; a third is needed for
fail-over only. In Raft two terms give a deposed leader and its successor, logs of
two a conflict that is cut back with an entry kept below it. The case that needs
more, an entry of an old term that a majority has and a later leader overwrites
(figure 8 of the Raft paper), wants three terms and logs of two and is out of
TLC's reach here: the rule against it (`consensus.py:643`) is in the model, no run
exercises it. `CONSTRAINT Sound` keeps `Raft_safety` from going on from a state where
one of the two known departures happened; `VIEW` leaves out what no step and no
property reads. In `Causal_order` two
messages give a cause and its effect, two of one sender that one flush delivers, and
two that are concurrent; a third node gets them in either order, and three extras
let a further copy arrive before, during and after the delivery of the first. With
three messages a single extra is more than TLC can do here (over ten million states),
so the forks and joins of causes are covered by the proofs, whose invariant was
checked on an instance of three messages without extras.
In `Quorum_wide` one message suffices, since the state of messages is independent; two crashes take both the writer's memory and another node's.

In `Time_align` a window of three is the least with a middle and the least at which the
filter acts (`time_sync.py:338`). The two ways to call, round trips of 4 and 12, are one
factor `RTT_REJECT_MULTIPLIER` apart, so that each is accepted after the other and
simulated round trips of 0 or 1 can lock both out; the skews are more than the drift
threshold apart; two changes give two late samples a chance to meet. In `Pool` a tick
is 2.5 seconds, with which the code's times become: a round of heartbeats (2 s of
timeout and 3 s of sleep) as long as a call to a peer (5 s) and as a client's (5 s),
three missed pings as in the code. One thread stands for the pool of ten, as one
message does for the ten that fill it; the fewer threads, the easier they are all
taken. In `Web` two failures, before or after the server acted, leave one of three
servers that works; so the run shows that no request gives up by them alone, and
that the only one to give up is one whose index was moved. (With two servers and three
failures, where a request may also fail for want of servers, all five properties
hold as well; with three and three the run takes longer than it is worth.)

### What the violations say

All four are findings, with the sentence of the repository they contradict.

1. `FT_restart` — `drain` deletes rows before they are sent (`fault.py:341`); a crash
   loses them, though the queue "Survives node restarts" (`306`).
2. `FT_acked` — a server dies halfway through replication, the next has a copy and
   answers success as a duplicate (`fault.py:468`); nobody owes the copy to the
   third (`README.md:474`).
3. `Raft_vote` — `recover` clears the vote and keeps the term (`consensus.py:714`), so
   two leaders can win it (`109-111`).
4. `Quorum_read` — a committed write is on the writer in memory, at the others on
   disk, and a read that meets the writer only over the wire misses it
   (`README.md:139`).

3 and 4 were replayed on the Python code, with the RPCs replaced by direct calls.

Other departures are recorded as history variables and appear as provisos of the
properties that hold without them:

* `raced` in `FaultTolerance`: a peer found dead by `get_live_peers` (`fault.py:509`) and
  alive by `is_alive` (`523`) gets neither a copy nor a row, although an offline peer is
  to find the message in the queue (`README.md:89`).
* `unchecked` in `Raft`: `sync_from_leader` commits what the node's own log holds
  even when the node refused the leader's entries (`753-756`, against `124`).
* the gap in `WaitsForAGap` of `CausalDelivery`: a reply waits at every other node until
  it times out, although all its causes are there; replayed on the Python code, too.
* `LockedOut` and the thread that is `dead` in `TimeSync`; the index moved under a
  request (`steady`) in `WebChat`.

A property with such a proviso says nothing of the case it leaves out, nor of its
likeness elsewhere: `EventuallyReplicated` of what a crash takes between `drain` and the
send (`dropped`, which is what `FT_restart` is about), the Raft properties of what
`unchecked` let in, `WideReadSeesCommitted` of reads one of whose peers failed (`whole`;
`replication.py:321` counts it as read), `EventuallyAligned` of a thread that died or a
reference that is locked out, `GivesUpForAReason` of a request whose index was moved. The
list of hazards in `PROJECT.json` names no property for those, and says why.

## 4. Fairness

In `FT_live`, weak fairness is given to each thread of a running process
(the operating system schedules it; no step of theirs waits for another thread of
the model for ever, as every call has a time-out), to pings (`_monitor_loop` never
ends), and to `Start` (the operator restarts a node). It is given to each peer's
drain and each send separately: the loops go over all peers and all ids of a
batch. Clients, failures and crashes get none. Failures are bounded in number, which
stands for "calls to a running node succeed in the end"; a link that is down for
ever would make the claim false, and rightly.

In `Time_align` the sync thread alone is fair: it is scheduled, and its call has a
timeout. Outages, partitions, corrupt samples and changes of reference come and go as
they like; `EventuallyAligned` asks only for what follows once a reference stays and
answers. In
`Pool` one weak fairness over all that is due and the tick of the clock says that time
passes and that due timeouts fire; nobody has to send or to hang. In `Web` each request's
steps and each server's handlers are fair, since they are threads and every RPC has a
timeout. The start of a request is not: nobody has to send, to ask or to look.
`FindsTheServer` has it as its hypothesis instead, that again and again an inbox request
is about to choose a server; without requests nothing moves the index, and the claim
would be false. No restart or copy between servers has to happen.

## 5. What is proved

Proofs hold for every value of the constants that the named assumptions allow: any
number of nodes with any lists of peers, messages, crashes and failures, any threshold.

* `FaultToleranceProofs!TypeCorrect` and `QueuedStored`: the type invariant, and that
  every id in a queue, a batch or a handler has its row in the same node's table.
  The second is inductive with the first: rows are never deleted, and every way
  into a queue starts from a handler that has inserted the row or from a batch.
* `FaultToleranceProofs!NothingForgotten`: `NoMessageForgotten`. By itself it is not
  inductive: when a handler passes from sending to checking, one must know that the
  peers it has gone over are settled. The invariant adds `AcksLeftTheList` (peers that
  answered are off the list, so that under full replication the loop cannot end
  early by count) and `LivePeersSettled` (a peer passed over and thought alive has the
  message, or is queued, drained, or in one of the two recorded losses). The step
  proof has one case per action, grouped by which part of a duty it can move:
  table, queue, batch, handler, detector.
* `FaultToleranceProofs!Refinement`: every step is a step of `ReplicatedInbox` or
  leaves its variables alone.
* `FaultToleranceProofs!NoLivePeerIsPassedOver`: `LivePeersSettled` by itself, from the
  same invariant.
* `FaultToleranceProofs!DutiesAreTakenOn`: what can be proved of `EventuallyReplicated`. A
  duty has a `Stage`, from 6 (the handler is about to begin) over the handler's loop, its
  look at the detector, the queue and the batch of a drain down to 0 (the peer has the
  message). No step takes it back but a failed call of the thread that drained it, which
  puts it in the queue again, and a step of the thread whose turn it is takes it
  on. The proof needs `LivePeersSettled`: a handler that finds a peer ALIVE drops the
  duty, and may, as it is settled. TLC adds that those steps do happen, by their
  fairness, and checked the theorem's property itself on all 2 299 266 states of
  `FT_live`'s instance with two crashes and two failed calls.
* `RaftProofs!TypeCorrect`, and `ElectionIsSafe`: `OneLeaderPerTerm`. The invariant behind
  it, `WinnersAreBacked`, says of each winner of a term that a majority has voted for
  it in that term or moved past it; two winners have a common voter, and a vote is
  changed in a term only by a recovery, which puts the term into `forgotten`.
* `RaftProofs!LoopIsOneAppend`: the loop that walks `next_index` back ends within
  `next_index` tries and is the one append at the point of agreement (`SendToPeerIsTheLoop`),
  so that what is proved of `SendToPeer` is proved of the loop. The state after each try
  is known (`Trying`): every try above the last index at which the logs agree is refused
  and cuts off what the merge there would have replaced (`CutMerge`), and the try at that
  index is taken, or at 0 refused by a peer of a newer term. Induction over the number of
  tries is done with the least counterexample.
* `RaftLogProofs`: `LogsAgree`, `NoLeaderLacksACommittedEntry`, `NodesApplyOneLog`,
  `CommittedStaysOnMajority`, `NothingAppliedIsCutOff`, `MatchIndexIsTrue` and
  `Refinement` (of `ReplicatedLog`), which are all that `Raft_safety` checks beside the
  types, the elections and the loop. They hold for any number of terms, so for the case of figure 8
  too, which no run reaches. The invariant has three parts. The first, `MatchInv`, tells
  where entries come from: every entry's term was won by somebody, terms rise along a
  log, equal terms at an index mean equal logs up to it, and a leader has every entry
  of its own term. The second, `CommitInv`, is about loss: `Safe(P)` says that
  whoever has an entry as late as the last of `P`, and every leader of a later term,
  begins with `P`. What a node applied is safe and a majority holds it; and so is
  a leader's own entry for as long as it is `Choosable`, that is, as the nodes known to
  have it and those that might still take it from this leader are a majority. The
  second part is what makes the restriction to entries of one's own term
  (`consensus.py:643`) work: an older entry is safe only when one of the leader's term
  follows it. The third, `Held`, is `MatchIndexIsHeld` of any nodes: it needs that a term
  has one leader, since a peer's log is cut by its leader only while it stays in the
  term, and that a leader cuts nothing that agrees with its own log. A call changes several nodes at once, so the proof takes it apart into
  votes, a victory, an append, sends and a commit, and states the invariant of any
  nodes, not of the variables.
* `QuorumStoreProofs`: `TypeCorrect`, `CommitsAreKept`, `WideReadsSeeCommitted` and
  `ReadsNeverGoBack`. `IInv` says of a write that the peers behind
  its acknowledgements are among the first ones of its list and have the message on
  disk, so that a commit leaves `QuorumW - 1` copies no step removes; and of a read how
  far it is, and that of every committed message it has either gone past no holder or
  found it. If `W + R > N + 1`, the peers that hold and the peers that are asked
  overlap, without counting the writer and the reader themselves; that is the
  proviso of the property, and `Quorum_read` shows that `W + R > N` is not enough.
* `TimeSyncProofs`: `TypeCorrect`, `AtMostOneLateSample`, `MajorityIsRight`. The invariant
  says that a sample in the window is near the skew of the reference it came from,
  and that a sample of an earlier reference is alone, and excludes a second one under
  way. `MajorityIsRight` rests on two lemmas about medians of any length:
  the values of the ranked window are those of the window (`RankedAmong`), and if more
  than half of them lie in an interval so does the median (`MajorityMedian`).
  `AlignmentIsNotLost`, of an action property that no run checks, is what can be proved of
  `EventuallyAligned`: while a reference stays and answers,
  a round that began with it brings its answer or nothing, each answer that is taken in
  leaves one fewer to come until the window holds nothing else (`TurnsOver`), and only a
  corrupt sample takes that back. `OneRoundIsMisled` is `MisledOnce`: with round trips up
  to the drift threshold, a round with a window of the reference leaves a previous offset
  that is right (by `MajorityAligns`), and one that finds such an offset does not speed
  polling up; so a change of reference costs one quick round.
* `CausalDeliveryProofs`: `TypeCorrect`, `CausesComeFirst`, `ClocksAreRight`, `LamportIsRight`,
  `DeliversOnce` and `GapsExplainWaiting`, which are all that `Causal_order` checks, and
  `NothingReady`. `IInv` starts from the messages (`PastOK`): the component of its sender in a
  message's clock tells all messages it caused, and a cause has the smaller clocks,
  strictly so in the component of its effect's sender. Of each node (`StoreOK`): its
  clock covers what is in its store, and whatever its clock covers in the sender's
  component is in the store or caused something that is; what was delivered is at
  most what the clock says. From this follows the step that matters, `CausesAreThere`: if
  a message meets the condition of `_can_deliver` then each of its causes is covered,
  hence known, hence, as long as nothing timed out, in the store. Of what is on its
  way (`WaitOK`): the Lamport clock has passed it already, though it may be delivered
  much later. `ClocksOK` is about all nodes together: nobody counts more of a node's
  events than it does itself, and every count of another node's events was brought
  by one of its messages. The last makes `GapsExplainWaiting` work: a count too high
  belongs to a message, which is a cause and is there; and the messages of one
  sender have different counts, so a sender that counted no other events has as many.
* `WebChatProofs`: `TypeCorrect`, `GivingUpHasAReason`, `ViewsAreComplete` and `Refinement`
  (of `ReplicatedInbox`), for any number of servers and requests. The invariant ties the
  attempt count of each request to the servers it has been to, counted from where
  the shared index stands: a server still steady is ahead of it. And two action
  properties that no run checks. `RequestsEnd`: a request has at most two steps left for
  each server it has not tried (`Effort`); no step of anybody adds to them and each of
  its own takes one away, even while other requests move the index under it.
  `LateAnswersOnly`, what can be proved of `FindsTheServer`: once one server is left
  running, nobody begins to wait for another, and only the answer of one that was waited
  for already moves the index away, each once (`Stragglers`).
* `ServerPoolProofs`: `TypeCorrect`, and more that no run checks: `OneThread`, that a
  message never holds two threads of one server, `SuccessIsStored`, and the bounds below. That a pool is
  kept needs that it is finite and that a handler that goes on gives its thread back
  first; that no wait outlasts its timeout needs that time stands still while anything
  is due, and that a round of pings with none left is over (`MonitorOK`). `ServedOK` ties
  the clients to the handlers: a message with a handler is stored, so that a second
  copy is a duplicate, and a client that is being served has a handler.
  The two temporal properties of `Pool` about threads and about a node that hangs each
  have a bound in ticks, which is what can be proved of them. `Remaining` is what is left
  of a handler's time: its own call and one `REPLICATE_TIMEOUT` for each peer still to be
  called, of which there are at most all others (`EachPeerIsCalledOnce`,
  `ThreadsAreHeldBriefly`); no step prolongs it and each tick takes of it
  (`HandlersRunOut`), so that servers that wait for each other in a ring wait for that
  long. `Grace` is the time for which a node that hangs can still be ALIVE to
  another, from the missed heartbeats and the place in the round; it too never grows,
  loses with each tick and ends below the threshold's number of rounds and a timeout
  (`HangIsShort`, `HangIsDetectedInTime`). What TLC adds is that time goes on, which is
  the fairness of `Step`. Both pairs were checked by TLC on the instance of `Pool`
  before they were proved.

The inductive invariants were invariants of a TLC run before they were proved: that of
`Raft` on 3.9 million states of an instance of `Raft_safety`'s size and on 47 million
states of random behaviours with five terms, logs of four and two faulty nodes, and
its part `Held` on all states of `Raft_safety`; that of `TimeSync` on all 987 408 states of
`Time_align`; that of `ServerPool` on all
1 812 664 of `Pool`; that of `CausalDelivery` on all 1 128 412 states of three messages among
three nodes without extras and on all 1 791 915 of `Causal_order`.

The action properties that no run checks (of `FaultToleranceProofs`, `ServerPoolProofs`,
`TimeSyncProofs` and `WebChatProofs`) were each checked by TLC before the proof, on all
states of the component's instance: 2 299 266, 1 812 664, 987 408 and 585 784.

Only model-checked, and why: `EventuallyReplicated`, `EventuallyAligned`, `HandlersEnd`, `HangIsDetected` and `FindsTheServer`, since liveness under fairness, and
the ENABLED it rests on, are out of the prover's reach. Of each of them the part that
is about single steps is proved: which steps lead on, and that no other step leads
back but for the exceptions the theorem names. What rests on TLC is that a step that
leads on stays possible until it is taken, and that fairness then takes it.

## 6. What comes next

1. To join those steps with fairness, once the prover has the induction and the ENABLED
   it takes.
2. What section 7 leaves out of the wiring, once the code uses it: the Raft node with
   its peers (`server.py:241`), and clocks in the replicas sent over gRPC (`server.py:79`).

## 7. Not modelled, and why

* The settings (`sync_config.py`): the server passes none to `TimeSyncer`, and nobody
  starts the watcher that reloads them. The synchronisation log, the report generator,
  the page and the wire format hold no state the system depends on.
* In `web_client.py`: the list of users online and the status page, which only report,
  and that two first requests at once may each make a client object, of which one is
  used once.
* In `replication.py`: `get_sync_state` and `apply_sync`, called by tests only; the second
  write of one id; that gRPC replicas carry no clocks (`server.py:79`), so that in the
  server they are delivered as they come, while `CausalDelivery` is about messages
  that do carry them.
* In `server.py`: the wiring, the command loop but for its change of the time
  reference, and the Raft node that has no peers (`server.py:241`).
* Storage errors other than a duplicate key, among them one that would end the retry
  thread (`fault.py:565`).
* Data races on the vector clock between threads of a node (`replication.py:97` takes no
  lock): in `CausalDelivery` `create_message` is one step, and so is each delivery, with
  the update of the clock in its callback.
