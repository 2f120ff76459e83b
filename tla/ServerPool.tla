----------------------------- MODULE ServerPool -----------------------------
(***************************************************************************)
(* The threads of the gRPC servers of a cluster, and time: node/server.py  *)
(* with the handler and the failure detector of node/fault.py.             *)
(*                                                                         *)
(* A server has a fixed pool of threads for all its services.  A handler of*)
(* SendMessage keeps its thread while it calls one peer after the other,   *)
(* and the peer needs a thread of its own to answer; so servers wait for   *)
(* each other, and heartbeats wait with them.  Only timeouts end this.     *)
(*                                                                         *)
(* Time is counted in ticks.  What a thread does by itself, and an RPC   *)
(* to a server with a free thread, take no time: time passes (Tick) only   *)
(* when nothing else is due.  A node may hang: it is reachable and answers *)
(* nothing.  The queue of failed replicas is the subject of FaultTolerance.*)
(***************************************************************************)
EXTENDS Integers, FiniteSets

CONSTANTS
    Server,             \* numbered, in the order in which all have their peers' list
    Message,            \* one client, and one id, for each
    Listed,             \* the servers on the list of a client
    NoServer,
    Hanging,            \* bound: the nodes that may hang, one of them does
    Threads,            \* max_workers of each server
    HeartbeatTimeout, HeartbeatInterval, MissedThreshold,
    ReplicateTimeout, SendTimeout

ASSUME ServerAssumption ==
    /\ IsFiniteSet(Server) /\ Server \subseteq Nat
    /\ NoServer \in Int \ Server
    /\ Hanging \subseteq Server
    /\ Listed \subseteq Server
ASSUME TimeAssumption ==
    {Threads, HeartbeatTimeout, HeartbeatInterval, MissedThreshold,
     ReplicateTimeout, SendTimeout} \subseteq Nat \ {0}

Peers(s) == Server \ {s}

VARIABLES
    hung,       \* the nodes that hang, one at most
    store,      \* store[s]: the messages s stored
    running,    \* the SendMessage handlers that hold a thread, at any server
    client,     \* client[m]: the send_with_failover call of m
    monitor,    \* monitor[s]: the _monitor_loop thread
    alive,      \* alive[s][p]: FailureDetector._status
    missed      \* missed[s][p]: FailureDetector._missed, up to the threshold

vars == <<hung, store, running, client, monitor, alive, missed>>

\* The loop starts with a round of pings; each node starts at a time of its own.
Asleep(k) == [pc |-> "asleep", left |-> {}, waited |-> k]

\* A client whose call is over.
Done(pc) == [pc |-> pc, at |-> NoServer, waited |-> 0, untried |-> {}]

Init ==
    /\ hung = {}
    /\ store = [s \in Server |-> {}]
    /\ running = {}
    /\ client = [m \in Message |-> [pc |-> "idle", at |-> NoServer, waited |-> 0,
                                    untried |-> Listed]]
    /\ monitor \in [Server -> {Asleep(k) : k \in 0..HeartbeatInterval}]
    /\ alive = [s \in Server |-> [p \in Server |-> TRUE]]
    /\ missed = [s \in Server |-> [p \in Server |-> 0]]

HandlersAt(s) == {h \in running : h.at = s}

BadFree(s) == s \notin hung

\* A request that reaches s gets a thread at once.
Free(s) == s \notin hung /\ Cardinality(HandlersAt(s)) < Threads

-----------------------------------------------------------------------------
(* The client.  It starts with any server and goes round its list; the half*)
(* second of RETRY_DELAY is left out.                                      *)

First(S) == CHOOSE s \in S : \A t \in S : s <= t
After(s, S) == IF \E t \in S : t > s THEN First({t \in S : t > s}) ELSE First(S)

\* SendMessage to s; the others are left to try.
Trying(s, others) == [pc |-> "queued", at |-> s, waited |-> 0, untried |-> others]

Send(m, s) ==
    /\ client[m].pc = "idle"
    /\ client' = [client EXCEPT ![m] = Trying(s, Listed \ {s})]
    /\ UNCHANGED <<hung, store, running, monitor, alive, missed>>

Waits(m) == client[m].pc \in {"queued", "served"}
SendOverdue(m) == Waits(m) /\ client[m].waited = SendTimeout

\* On to the next server, or RuntimeError.  A request still in the queue goes with
\* its call; a handler goes on.
ClientTimeout(m) ==
    LET left == client[m].untried
        next == After(client[m].at, left)
    IN /\ SendOverdue(m)
       /\ client' = [client EXCEPT ![m] = IF left = {} THEN Done("failed")
                                          ELSE Trying(next, left \ {next})]
       /\ UNCHANGED <<hung, store, running, monitor, alive, missed>>

-----------------------------------------------------------------------------
(* The handler of SendMessage                                              *)

Queued(m) == client[m].pc = "queued" /\ Free(client[m].at)

HandleDuplicate(m) ==
    /\ Queued(m)
    /\ m \in store[client[m].at]
    /\ client' = [client EXCEPT ![m] = Done("acked")]
    /\ UNCHANGED <<hung, store, running, monitor, alive, missed>>

\* The rest of a handler h that has no call under way: the Replicate RPC to the
\* next live peer, or its end, which frees the thread and answers the client, if
\* it still waits.  (other: the handlers that go on as they are.)
Continue(h, other, clients) ==
    \/ /\ h.left # {}
       /\ running' = other \union {[h EXCEPT !.to = First(h.left), !.waited = 0,
                                             !.left = @ \ {First(@)}]}
       /\ client' = clients
    \/ /\ h.left = {}
       /\ running' = other
       /\ client' = IF clients[h.m].pc = "served" /\ clients[h.m].at = h.at
                    THEN [clients EXCEPT ![h.m] = Done("acked")] ELSE clients

\* m is stored, and the live peers are those of this moment.
BeginHandler(m) ==
    LET s == client[m].at
        h == [at |-> s, m |-> m, to |-> NoServer, waited |-> 0,
              left |-> {p \in Peers(s) : alive[s][p]}]
    IN /\ Queued(m)
       /\ m \notin store[s]
       /\ store' = [store EXCEPT ![s] = @ \union {m}]
       /\ Continue(h, running, [client EXCEPT ![m].pc = "served"])
       /\ UNCHANGED <<hung, monitor, alive, missed>>

\* The peer has a thread for the call, and stores the message.
PeerAnswers(h) ==
    /\ h.at \notin hung /\ Free(h.to)
    /\ store' = [store EXCEPT ![h.to] = @ \union {h.m}]
    /\ Continue(h, running \ {h}, client)
    /\ UNCHANGED <<hung, monitor, alive, missed>>

BadOverdue(h) == FALSE

Overdue(h) == h.waited = ReplicateTimeout

CallTimesOut(h) ==
    /\ h.at \notin hung /\ Overdue(h)
    /\ Continue(h, running \ {h}, client)
    /\ UNCHANGED <<hung, store, monitor, alive, missed>>

-----------------------------------------------------------------------------
(* The failure detector: all peers are pinged at a time, and the loop      *)
(* sleeps when the last ping is over.                                      *)

BadMissedOne(n) == 1

MissedOne(n) == IF n < MissedThreshold THEN n + 1 ELSE n

Dead(n) == n >= MissedThreshold

MissedOf(s, answered, lost) ==
    [missed EXCEPT ![s] = [p \in Server |-> IF p \in answered THEN 0
                                            ELSE IF p \in lost THEN MissedOne(@[p]) ELSE @[p]]]

BadStaysAlive(s, answered, lost, n) ==
    {p \in Server : alive[s][p] /\ ~(p \in lost /\ Dead(n[p]))}

\* Those that are ALIVE after it: who answers is again.
StaysAlive(s, answered, lost, n) ==
    answered \union {p \in Server : alive[s][p] /\ ~(p \in lost /\ Dead(n[p]))}

\* Of the pings in left, some are answered and some lost.
Pings(s, left, answered, lost, waited) ==
    /\ missed' = MissedOf(s, answered, lost)
    /\ alive' = [alive EXCEPT
         ![s] = [p \in Server |-> p \in StaysAlive(s, answered, lost, missed'[s])]]
    /\ monitor' = [monitor EXCEPT
         ![s] = IF left = answered \union lost THEN Asleep(0)
                ELSE [pc |-> "pinging", left |-> left \ (answered \union lost), waited |-> waited]]
    /\ UNCHANGED <<hung, store, running, client>>

FreeAmong(S) == {p \in S : Free(p)}

\* A round begins; what can be answered is answered at once.
BeginPings(s) ==
    /\ s \notin hung
    /\ monitor[s] = Asleep(HeartbeatInterval)
    /\ Pings(s, Peers(s), FreeAmong(Peers(s)), {}, 0)

\* A thread became free for some.
PingAnswered(s) ==
    /\ s \notin hung /\ FreeAmong(monitor[s].left) # {}
    /\ Pings(s, monitor[s].left, FreeAmong(monitor[s].left), {}, monitor[s].waited)

PingsOverdue(s) == monitor[s].left # {} /\ monitor[s].waited = HeartbeatTimeout

PingMissed(s) ==
    /\ s \notin hung /\ PingsOverdue(s)
    /\ Pings(s, monitor[s].left, {}, monitor[s].left, 0)

-----------------------------------------------------------------------------
Hang(s) ==
    /\ hung = {}
    /\ hung' = {s}
    /\ UNCHANGED <<store, running, client, monitor, alive, missed>>

Due ==
    \/ \E m \in Message : SendOverdue(m) \/ Queued(m)
    \/ \E h \in running : h.at \notin hung /\ (Free(h.to) \/ Overdue(h))
    \/ \E s \in Server \ hung :
         \/ monitor[s] = Asleep(HeartbeatInterval)
         \/ PingsOverdue(s) \/ FreeAmong(monitor[s].left) # {}

\* A tick of the clock.  The threads of a node that hangs stand still.
Tick ==
    /\ ~Due
    /\ running' = {IF h.at \in hung \/ h.waited = ReplicateTimeout THEN h
                   ELSE [h EXCEPT !.waited = @ + 1] : h \in running}
    /\ client' = [m \in Message |-> IF Waits(m) THEN [client[m] EXCEPT !.waited = @ + 1]
                                    ELSE client[m]]
    /\ monitor' = [s \in Server |-> IF s \in hung THEN monitor[s]
                                    ELSE [monitor[s] EXCEPT !.waited = @ + 1]]
    /\ UNCHANGED <<hung, store, alive, missed>>

Step ==
    \/ \E m \in Message : ClientTimeout(m) \/ HandleDuplicate(m) \/ BeginHandler(m)
    \/ \E h \in running : PeerAnswers(h) \/ CallTimesOut(h)
    \/ \E s \in Server : BeginPings(s) \/ PingAnswered(s) \/ PingMissed(s)
    \/ Tick

Next ==
    \/ Step
    \/ \E m \in Message, s \in Listed : Send(m, s)
    \/ \E s \in Hanging : Hang(s)

\* What is due is done, and time goes on; nobody has to send, or to hang.
Spec == Init /\ [][Next]_vars /\ WF_vars(Step)

-----------------------------------------------------------------------------
(* Properties                                                              *)

\* The type invariant; a server never runs more handlers than it has threads.
TypeOK ==
    /\ hung \subseteq Server /\ Cardinality(hung) <= 1
    /\ store \in [Server -> SUBSET Message]
    /\ running \subseteq [at : Server, m : Message, to : Server,
                          waited : 0..ReplicateTimeout, left : SUBSET Server]
    /\ \A s \in Server : Cardinality(HandlersAt(s)) <= Threads
    /\ client \in [Message -> [pc : {"idle", "queued", "served", "acked", "failed"},
                               at : Server \union {NoServer}, waited : 0..SendTimeout,
                               untried : SUBSET Server]]
    /\ \A s \in Server : monitor[s].waited <=
         (IF monitor[s].pc = "pinging" THEN HeartbeatTimeout ELSE HeartbeatInterval)
    /\ alive \in [Server -> [Server -> BOOLEAN]]
    /\ missed \in [Server -> [Server -> 0..MissedThreshold]]

\* A server that works and is DEAD to another, as its threads were all taken for the
\* time of three heartbeats (server.py:381), is ALIVE to it again when the burst is
\* over: nobody that works stays shut out (fault.py:254-266).
FalseDeathsHeal == []<>(\A s, p \in Server \ hung : alive[s][p])

\* Servers that wait for each other's threads do not wait for ever: again and
\* again no handler holds a thread, but of a node that hangs (server.py:284-306).
HandlersEnd == []<>(\A h \in running : h.at \in hung)

\* A node that hangs is DEAD to all others in the end, and stays it, so that new
\* messages do not wait for it any more (fault.py:232-269).
HangIsDetected == <>[](\A p \in hung : \A s \in Peers(p) : ~alive[s][p])
=============================================================================
