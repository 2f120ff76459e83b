-------------------------- MODULE ServerPoolProofs --------------------------
(***************************************************************************)
(* Proofs about ServerPool, for any number of servers, threads and         *)
(* messages and any timeouts: no pool is exceeded, no wait outlasts its    *)
(* timeout, a message has one thread of a server at most, and for a time   *)
(* with a bound; and a node that hangs is DEAD to all within such a time.  *)
(***************************************************************************)
EXTENDS ServerPool, FiniteSetTheorems, WellFoundedInduction, TLAPS

-----------------------------------------------------------------------------
(* The invariant.                                                          *)

Begun == [at : Server, m : Message, to : Server \union {NoServer},
          waited : 0..ReplicateTimeout, left : SUBSET Server]

Handler == [at : Server, m : Message, to : Server, waited : 0..ReplicateTimeout,
            left : SUBSET Server]

Call == [pc : {"idle", "queued", "served", "acked", "failed"},
         at : Server \union {NoServer}, waited : 0..SendTimeout, untried : SUBSET Server]

Monitor == [pc : {"asleep", "pinging"}, left : SUBSET Server, waited : Nat]

At(R, s) == {h \in R : h.at = s}

PoolOK(R) ==
    /\ R \subseteq Handler /\ IsFiniteSet(R)
    /\ \A s \in Server : Cardinality(At(R, s)) <= Threads

\* A call that goes on has a server.
ClientOK(c) ==
    /\ c \in [Message -> Call]
    /\ \A m \in Message : c[m].pc \in {"queued", "served"} => c[m].at \in Server

\* A round of pings ends with the last one.
MonitorOK(w) ==
    /\ w \in [Server -> Monitor]
    /\ \A s \in Server :
         /\ w[s].pc = "asleep" <=> w[s].left = {}
         /\ w[s].waited <= (IF w[s].pc = "pinging" THEN HeartbeatTimeout
                                                   ELSE HeartbeatInterval)

\* A peer is DEAD when that many pings in a row were missed.
DetectorOK(a, n) ==
    /\ a \in [Server -> [Server -> BOOLEAN]]
    /\ n \in [Server -> [Server -> 0..MissedThreshold]]
    /\ \A s, p \in Server : a[s][p] <=> n[s][p] < MissedThreshold

\* One handler for a message at a server, which has stored it; a client that is
\* served has a handler, and one that was told success has its message stored.
ServedOK(R, c, st) ==
    /\ \A h \in R : h.m \in st[h.at]
    /\ \A g, h \in R : g.at = h.at /\ g.m = h.m => g = h
    /\ \A m \in Message : c[m].pc = "served" => \E h \in R : h.m = m /\ h.at = c[m].at
    /\ \A m \in Message : c[m].pc = "acked" => \E s \in Server : m \in st[s]

IInv ==
    /\ hung \subseteq Server /\ IsFiniteSet(hung) /\ Cardinality(hung) <= 1
    /\ store \in [Server -> SUBSET Message]
    /\ PoolOK(running) /\ ClientOK(client) /\ ServedOK(running, client, store)
    /\ MonitorOK(monitor) /\ DetectorOK(alive, missed)

-----------------------------------------------------------------------------
(* The operators.                                                          *)

LEMMA ConstantsOK ==
    /\ IsFiniteSet(Server) /\ Server \subseteq Nat /\ Listed \subseteq Server
    /\ Hanging \subseteq Server
    /\ \A n \in {Threads, HeartbeatTimeout, HeartbeatInterval, MissedThreshold,
                 ReplicateTimeout, SendTimeout} : n \in Nat /\ n > 0 /\ 0 \in 0..n
BY ServerAssumption, TimeAssumption DEF ServerAssumption, TimeAssumption

\* The order of the servers' numbers has a first among any of them.
LEMMA FirstIn == ASSUME NEW S \in SUBSET Server, S # {} PROVE First(S) \in S
<1> DEFINE R == OpToRel(<, Nat)
<1>1. S \subseteq Nat
  BY ConstantsOK
<1>2. PICK x \in S : \A y \in S : ~(<<y, x>> \in R)
  <2>1. IsWellFoundedOn(R, Nat)
    BY NatLessThanWellFounded
  <2> HIDE DEF R
  <2>2. QED
    BY <1>1, <2>1, WFMin
<1>3. \A y \in S : x <= y
  <2> SUFFICES ASSUME NEW y \in S, y < x PROVE FALSE
    BY <1>1
  <2>1. <<y, x>> \in Nat \X Nat /\ <<y, x>>[1] < <<y, x>>[2]
    BY <1>1
  <2>2. <<y, x>> \in R
    BY <2>1 DEF OpToRel
  <2>3. QED
    BY <1>2, <2>2
<1>4. QED
  BY <1>3 DEF First

LEMMA AfterIn == ASSUME NEW s, NEW S \in SUBSET Server, S # {} PROVE After(s, S) \in S
<1>1. First(S) \in S
  BY FirstIn
<1>2. ASSUME NEW t \in S, t > s PROVE First({u \in S : u > s}) \in S
  <2> DEFINE U == {u \in S : u > s}
  <2>1. U \in SUBSET Server /\ U # {}
    BY <1>2
  <2> HIDE DEF U
  <2>2. First(U) \in U
    BY <2>1, FirstIn
  <2>3. QED
    BY <2>2 DEF U
<1>3. QED
  BY <1>1, <1>2 DEF After

LEMMA DoneOK ==
    ASSUME NEW pc \in {"acked", "failed"}
    PROVE  Done(pc) \in Call /\ Done(pc).pc = pc
BY ConstantsOK DEF Done, Call

LEMMA TryingOK ==
    ASSUME NEW s \in Server, NEW S \in SUBSET Server
    PROVE  Trying(s, S) \in Call /\ Trying(s, S).pc = "queued" /\ Trying(s, S).at = s
BY ConstantsOK DEF Trying, Call

\* One client's call is replaced.
LEMMA CallChanges ==
    ASSUME NEW c, ClientOK(c), NEW m \in Message, NEW x \in Call,
           x.pc \in {"queued", "served"} => x.at \in Server
    PROVE  ClientOK([c EXCEPT ![m] = x])
BY DEF ClientOK

LEMMA ServedChanges ==
    ASSUME NEW R, NEW c, NEW st, ClientOK(c), ServedOK(R, c, st), NEW m \in Message, NEW x \in Call,
           x.pc # "served", x.pc = "acked" => \E s \in Server : m \in st[s]
    PROVE  ServedOK(R, [c EXCEPT ![m] = x], st)
<1> DEFINE d == [c EXCEPT ![m] = x]
<1>1. d[m] = x /\ \A k \in Message \ {m} : d[k] = c[k]
  BY DEF ClientOK
<1> HIDE DEF d
<1>2. ServedOK(R, d, st)
  BY <1>1 DEF ServedOK
<1>3. QED
  BY <1>2 DEF d

\* A pool with a handler more, or less.
LEMMA PoolGrows ==
    ASSUME NEW R, PoolOK(R), NEW h \in Handler, Cardinality(At(R, h.at)) < Threads
    PROVE  PoolOK(R \union {h})
<1> DEFINE Q == R \union {h}
<1>1. Q \subseteq Handler /\ IsFiniteSet(Q)
  BY FS_AddElement DEF PoolOK
<1>2. ASSUME NEW s \in Server PROVE Cardinality(At(Q, s)) <= Threads
  <2>1. CASE s = h.at
    <3>1. At(Q, s) = At(R, s) \union {h}
      BY <2>1 DEF At
    <3>2. IsFiniteSet(At(R, s))
      <4>1. At(R, s) \in SUBSET R
        BY DEF At
      <4>2. QED
        BY <4>1, FS_Subset DEF PoolOK
    <3> DEFINE A == At(R, s)
    <3> HIDE DEF A
    <3>3. Cardinality(A \union {h}) = IF h \in A THEN Cardinality(A) ELSE Cardinality(A) + 1
      BY <3>2, FS_AddElement DEF A
    <3>4. Cardinality(A) \in Nat /\ Threads \in Nat /\ Cardinality(A) < Threads
      BY <2>1, <3>2, FS_CardinalityType, ConstantsOK DEF A
    <3>5. Cardinality(A \union {h}) <= Threads
      BY <3>3, <3>4
    <3>6. QED
      BY <3>1, <3>5 DEF A
  <2>2. CASE s # h.at
    <3>1. At(Q, s) = At(R, s)
      BY <2>2 DEF At
    <3>2. QED
      BY <3>1 DEF PoolOK
  <2>3. QED
    BY <2>1, <2>2
<1>3. QED
  BY <1>1, <1>2 DEF PoolOK

LEMMA PoolShrinks ==
    ASSUME NEW R, PoolOK(R), NEW h \in R
    PROVE  PoolOK(R \ {h}) /\ Cardinality(At(R \ {h}, h.at)) < Threads
<1>1. R \ {h} \subseteq Handler /\ IsFiniteSet(R \ {h}) /\ h.at \in Server
  BY FS_RemoveElement DEF PoolOK, Handler
<1>2. \A s \in Server : /\ IsFiniteSet(At(R, s)) /\ Cardinality(At(R, s)) \in Nat
                        /\ Cardinality(At(R, s)) <= Threads
  <2> SUFFICES ASSUME NEW s \in Server
               PROVE  /\ IsFiniteSet(At(R, s)) /\ Cardinality(At(R, s)) \in Nat
                      /\ Cardinality(At(R, s)) <= Threads
    OBVIOUS
  <2>1. At(R, s) \in SUBSET R
    BY DEF At
  <2>2. QED
    BY <2>1, FS_Subset, FS_CardinalityType DEF PoolOK
<1>3. \A s \in Server \ {h.at} : At(R \ {h}, s) = At(R, s)
  BY DEF At
<1> DEFINE A == At(R, h.at)
<1>4. At(R \ {h}, h.at) = A \ {h} /\ h \in A
  BY DEF At
<1>5. /\ IsFiniteSet(A) /\ Cardinality(A) \in Nat /\ Cardinality(A) <= Threads
  BY <1>1, <1>2
<1> HIDE DEF A
<1>6. Cardinality(A \ {h}) = Cardinality(A) - 1
  BY <1>4, <1>5, FS_RemoveElement
<1>7. Cardinality(A \ {h}) < Threads /\ Cardinality(A \ {h}) <= Threads
  <2>1. Threads \in Nat
    BY ConstantsOK
  <2>2. QED
    BY <1>5, <1>6, <2>1
<1>8. \A s \in Server : Cardinality(At(R \ {h}, s)) <= Threads
  <2> SUFFICES ASSUME NEW s \in Server PROVE Cardinality(At(R \ {h}, s)) <= Threads
    OBVIOUS
  <2>1. CASE s = h.at
    BY <1>4, <1>7, <2>1
  <2>2. CASE s # h.at
    BY <1>2, <1>3, <2>2
  <2>3. QED
    BY <2>1, <2>2
<1>9. QED
  BY <1>1, <1>4, <1>7, <1>8 DEF PoolOK

-----------------------------------------------------------------------------
(* The handlers.                                                           *)

\* A handler that has no call under way goes on, whichever way.
LEMMA ContinueKeeps ==
    ASSUME NEW h \in Begun, NEW other, NEW c, NEW st, PoolOK(other), ClientOK(c),
           Cardinality(At(other, h.at)) < Threads, Continue(h, other, c),
           st \in [Server -> SUBSET Message], h.m \in st[h.at],
           \A g \in other : ~(g.at = h.at /\ g.m = h.m),
           \A g \in other : g.m \in st[g.at],
           \A f, g \in other : g.at = f.at /\ g.m = f.m => g = f,
           \A m \in Message : c[m].pc = "served" =>
              \/ \E g \in other : g.m = m /\ g.at = c[m].at
              \/ m = h.m /\ c[m].at = h.at,
           \A m \in Message : c[m].pc = "acked" => \E s \in Server : m \in st[s]
    PROVE  PoolOK(running') /\ ClientOK(client') /\ ServedOK(running', client', st)
<1>0. h.at \in Server /\ h.m \in Message /\ h.left \in SUBSET Server
  BY DEF Begun
<1>1. ASSUME h.left # {},
             running' = other \union {[h EXCEPT !.to = First(h.left), !.waited = 0,
                                                !.left = @ \ {First(@)}]},
             client' = c
      PROVE  PoolOK(running') /\ ClientOK(client') /\ ServedOK(running', client', st)
  <2> DEFINE x == First(h.left)
             L == h.left \ {x}
             z == [h EXCEPT !.to = x, !.waited = 0, !.left = L]
  <2>1. x \in Server /\ L \in SUBSET Server
    BY <1>0, <1>1, FirstIn
  <2>2. running' = other \union {z}
    BY <1>1
  <2> HIDE DEF x, L
  <2>3. z \in Handler /\ z.at = h.at /\ z.m = h.m
    <3>1. 0 \in 0..ReplicateTimeout
      BY ConstantsOK
    <3>2. QED
      BY <2>1, <3>1 DEF Begun, Handler
  <2> HIDE DEF z
  <2>4. PoolOK(running')
    BY <2>2, <2>3, PoolGrows
  <2>5. ServedOK(running', c, st)
    <3>1. \A g \in running' : g.m \in st[g.at]
      BY <2>2, <2>3
    <3>2. \A f, g \in running' : f.at = g.at /\ f.m = g.m => f = g
      BY <2>2, <2>3
    <3>3. \A m \in Message : c[m].pc = "served" => \E g \in running' : g.m = m /\ g.at = c[m].at
      BY <2>2, <2>3
    <3>4. QED
      BY <3>1, <3>2, <3>3 DEF ServedOK
  <2>6. QED
    BY <1>1, <2>4, <2>5
<1>2. ASSUME running' = other, c[h.m].pc = "served" /\ c[h.m].at = h.at,
             client' = [c EXCEPT ![h.m] = Done("acked")]
      PROVE  PoolOK(running') /\ ClientOK(client') /\ ServedOK(running', client', st)
  <2> DEFINE x == Done("acked")
  <2>1. x \in Call /\ x.pc = "acked"
    BY DoneOK
  <2>2. client' = [c EXCEPT ![h.m] = x]
    BY <1>2
  <2> HIDE DEF x
  <2>3. ClientOK(client')
    BY <1>0, <2>1, <2>2, CallChanges
  <2>4. client'[h.m] = x /\ \A m \in Message \ {h.m} : client'[m] = c[m]
    BY <1>0, <2>2 DEF ClientOK
  <2>5. ServedOK(other, client', st)
    <3>1. \A m \in Message : client'[m].pc = "served" =>
            \E g \in other : g.m = m /\ g.at = client'[m].at
      BY <2>1, <2>4
    <3>2. \A m \in Message : client'[m].pc = "acked" => \E s \in Server : m \in st[s]
      BY <1>0, <2>4
    <3>3. QED
      BY <3>1, <3>2 DEF ServedOK
  <2>6. QED
    BY <1>2, <2>3, <2>5
<1>3. ASSUME running' = other, ~(c[h.m].pc = "served" /\ c[h.m].at = h.at), client' = c
      PROVE  PoolOK(running') /\ ClientOK(client') /\ ServedOK(running', client', st)
  <2>1. ServedOK(other, c, st)
    BY <1>3 DEF ServedOK
  <2>2. QED
    BY <1>3, <2>1
<1>4. QED
  BY <1>1, <1>2, <1>3 DEF Continue

LEMMA SendKeeps ==
    ASSUME IInv, NEW m \in Message, NEW s \in Listed, Send(m, s) PROVE IInv'
<1> DEFINE x == Trying(s, Listed \ {s})
<1>1. x \in Call /\ x.pc = "queued" /\ x.at = s /\ s \in Server
  BY ConstantsOK, TryingOK
<1>2. client' = [client EXCEPT ![m] = x]
  BY DEF Send
<1> HIDE DEF x
<1>3. ClientOK(client') /\ ServedOK(running, client', store)
  BY <1>1, <1>2, CallChanges, ServedChanges DEF IInv
<1>4. QED
  BY <1>3 DEF IInv, Send

LEMMA ClientTimeoutKeeps ==
    ASSUME IInv, NEW m \in Message, ClientTimeout(m) PROVE IInv'
<1> DEFINE left == client[m].untried
           next == After(client[m].at, left)
           x == IF left = {} THEN Done("failed") ELSE Trying(next, left \ {next})
<1>1. left \in SUBSET Server
  BY DEF IInv, ClientOK, Call
<1>2. client' = [client EXCEPT ![m] = x]
  BY DEF ClientTimeout
<1>3. x \in Call /\ x.pc \in {"failed", "queued"} /\ (x.pc = "queued" => x.at \in Server)
  <2>1. CASE left = {}
    BY <2>1, DoneOK
  <2>2. CASE left # {}
    <3>1. next \in Server
      BY <1>1, <2>2, AfterIn
    <3> HIDE DEF next, left
    <3>2. left \ {next} \in SUBSET Server
      BY <1>1
    <3>3. QED
      BY <2>2, <3>1, <3>2, TryingOK
  <2>3. QED
    BY <2>1, <2>2
<1> HIDE DEF x
<1>4. ClientOK(client') /\ ServedOK(running, client', store)
  BY <1>2, <1>3, CallChanges, ServedChanges DEF IInv
<1>5. QED
  BY <1>4 DEF IInv, ClientTimeout

LEMMA HandleDuplicateKeeps ==
    ASSUME IInv, NEW m \in Message, HandleDuplicate(m) PROVE IInv'
<1> DEFINE x == Done("acked")
<1>1. x \in Call /\ x.pc = "acked"
  BY DoneOK
<1>2. client' = [client EXCEPT ![m] = x]
  BY DEF HandleDuplicate
<1>3. \E s \in Server : m \in store[s]
  BY DEF HandleDuplicate, Queued, IInv, ClientOK
<1> HIDE DEF x
<1>4. ClientOK(client') /\ ServedOK(running, client', store)
  BY <1>1, <1>2, <1>3, CallChanges, ServedChanges DEF IInv
<1>5. QED
  BY <1>4 DEF IInv, HandleDuplicate

\* A message more in a store harms nobody.
LEMMA StoreGrows ==
    ASSUME store \in [Server -> SUBSET Message], NEW s \in Server, NEW m \in Message,
           store' = [store EXCEPT ![s] = @ \union {m}]
    PROVE  /\ store' \in [Server -> SUBSET Message] /\ m \in store'[s]
           /\ \A t \in Server : store[t] \subseteq store'[t]
OBVIOUS

LEMMA BeginHandlerKeeps ==
    ASSUME IInv, NEW m \in Message, BeginHandler(m) PROVE IInv'
<1> DEFINE s == client[m].at
           h == [at |-> s, m |-> m, to |-> NoServer, waited |-> 0,
                 left |-> {p \in Peers(s) : alive[s][p]}]
           x == [client[m] EXCEPT !.pc = "served"]
           c == [client EXCEPT ![m] = x]
<1>1. /\ s \in Server /\ m \notin store[s] /\ client[m] \in Call
      /\ Cardinality(At(running, s)) < Threads
      /\ store' = [store EXCEPT ![s] = @ \union {m}]
      /\ Continue(h, running, c)
      /\ UNCHANGED <<hung, monitor, alive, missed>>
      /\ store \in [Server -> SUBSET Message]
      /\ PoolOK(running) /\ ClientOK(client) /\ ServedOK(running, client, store)
  BY DEF BeginHandler, Queued, Free, HandlersAt, At, IInv, ClientOK
<1>2. h \in Begun /\ h.at = s /\ h.m = m
  <2>1. {p \in Peers(s) : alive[s][p]} \in SUBSET Server /\ 0 \in 0..ReplicateTimeout
    BY ConstantsOK DEF Peers
  <2>2. QED
    BY <1>1, <2>1 DEF Begun
<1>3. x \in Call /\ x.pc = "served" /\ x.at = s
  BY <1>1 DEF Call
<1> HIDE DEF h, x
<1>4. ClientOK(c)
  BY <1>1, <1>3, CallChanges
<1>5. c[m] = x /\ \A k \in Message \ {m} : c[k] = client[k]
  BY <1>1 DEF ClientOK
<1>6. /\ store' \in [Server -> SUBSET Message] /\ m \in store'[s]
      /\ \A t \in Server : store[t] \subseteq store'[t]
  BY <1>1, StoreGrows
<1> HIDE DEF c, s
<1>7. \A g \in running : ~(g.at = h.at /\ g.m = h.m)
  BY <1>1, <1>2 DEF ServedOK
<1>8. \A g \in running : g.m \in store'[g.at]
  <2>1. \A g \in running : g.at \in Server
    BY <1>1 DEF PoolOK, Handler
  <2>2. QED
    BY <1>1, <1>6, <2>1 DEF ServedOK
<1>9. \A k \in Message : c[k].pc = "served" =>
         (\E g \in running : g.m = k /\ g.at = c[k].at) \/ (k = h.m /\ c[k].at = h.at)
  BY <1>1, <1>2, <1>3, <1>5 DEF ServedOK
<1>10. \A k \in Message : c[k].pc = "acked" => \E t \in Server : k \in store'[t]
  BY <1>1, <1>3, <1>5, <1>6 DEF ServedOK
<1>11. \A f, g \in running : g.at = f.at /\ g.m = f.m => g = f
  BY <1>1 DEF ServedOK
<1>12. PoolOK(running') /\ ClientOK(client') /\ ServedOK(running', client', store')
  <2>1. Cardinality(At(running, h.at)) < Threads /\ h.m \in store'[h.at]
    BY <1>1, <1>2, <1>6
  <2>2. /\ h \in Begun /\ PoolOK(running) /\ Continue(h, running, c)
        /\ store' \in [Server -> SUBSET Message] /\ ClientOK(c)
    BY <1>1, <1>2, <1>4, <1>6
  <2>3. QED
    BY <1>7, <1>8, <1>9, <1>10, <1>11, <2>1, <2>2, ContinueKeeps
<1>13. QED
  BY <1>1, <1>6, <1>12 DEF IInv

\* The call of a handler is over, answered or not.
LEMMA CallEnds ==
    ASSUME IInv, NEW h \in running, Continue(h, running \ {h}, client),
           store' \in [Server -> SUBSET Message],
           \A t \in Server : store[t] \subseteq store'[t],
           UNCHANGED <<hung, monitor, alive, missed>>
    PROVE  IInv'
<1> DEFINE R == running \ {h}
<1>1. PoolOK(running) /\ ClientOK(client) /\ ServedOK(running, client, store)
  BY DEF IInv
<1>2. h \in Begun /\ h.at \in Server /\ \A g \in running : g.at \in Server
  BY <1>1 DEF PoolOK, Handler, Begun
<1>3. PoolOK(R) /\ Cardinality(At(R, h.at)) < Threads
  BY <1>1, PoolShrinks
<1>4. \A g \in running : g.m \in store'[g.at]
  BY <1>1, <1>2 DEF ServedOK
<1>5. /\ \A g \in R : ~(g.at = h.at /\ g.m = h.m)
      /\ \A f, g \in R : g.at = f.at /\ g.m = f.m => g = f
  BY <1>1 DEF ServedOK
<1>6. \A k \in Message : client[k].pc = "served" =>
         (\E g \in R : g.m = k /\ g.at = client[k].at) \/ (k = h.m /\ client[k].at = h.at)
  BY <1>1 DEF ServedOK
<1>7. \A k \in Message : client[k].pc = "acked" => \E t \in Server : k \in store'[t]
  BY <1>1 DEF ServedOK
<1>8. /\ h.m \in store'[h.at] /\ \A g \in R : g.m \in store'[g.at]
      /\ Continue(h, R, client)
  BY <1>4
<1> HIDE DEF R
<1>9. PoolOK(running') /\ ClientOK(client') /\ ServedOK(running', client', store')
  BY <1>1, <1>2, <1>3, <1>5, <1>6, <1>7, <1>8, ContinueKeeps
<1>10. QED
  BY <1>9 DEF IInv

LEMMA PeerAnswersKeeps == ASSUME IInv, NEW h \in running, PeerAnswers(h) PROVE IInv'
<1>1. h.to \in Server /\ h.m \in Message
  BY DEF IInv, PoolOK, Handler
<1>2. /\ store' \in [Server -> SUBSET Message]
      /\ \A t \in Server : store[t] \subseteq store'[t]
  BY <1>1, StoreGrows DEF IInv, PeerAnswers
<1>3. QED
  BY <1>2, CallEnds DEF PeerAnswers

LEMMA CallTimesOutKeeps == ASSUME IInv, NEW h \in running, CallTimesOut(h) PROVE IInv'
BY CallEnds DEF CallTimesOut, IInv

-----------------------------------------------------------------------------
(* The failure detector.                                                   *)

LEMMA PingsKeep ==
    ASSUME IInv, NEW s \in Server, NEW left \in SUBSET Server, NEW answered \in SUBSET left,
           NEW lost \in SUBSET left, NEW waited \in 0..HeartbeatTimeout,
           Pings(s, left, answered, lost, waited)
    PROVE  IInv'
<1>1. MonitorOK(monitor) /\ DetectorOK(alive, missed)
  BY DEF IInv
<1> DEFINE done == answered \union lost
           x == IF left = done THEN Asleep(0)
                ELSE [pc |-> "pinging", left |-> left \ done, waited |-> waited]
<1>2. /\ x \in Monitor /\ (x.pc = "asleep" <=> x.left = {})
      /\ x.waited <= (IF x.pc = "pinging" THEN HeartbeatTimeout ELSE HeartbeatInterval)
  <2>1. HeartbeatTimeout \in Nat /\ HeartbeatInterval \in Nat
    BY ConstantsOK
  <2>2. CASE left = done
    BY <2>1, <2>2 DEF Asleep, Monitor
  <2>3. CASE left # done
    <3>1. left \ done # {} /\ left \ done \in SUBSET Server
      BY <2>3
    <3>2. x = [pc |-> "pinging", left |-> left \ done, waited |-> waited]
      BY <2>3
    <3> HIDE DEF x
    <3>3. QED
      BY <2>1, <3>1, <3>2 DEF Monitor
  <2>4. QED
    BY <2>2, <2>3
<1>3. monitor' = [monitor EXCEPT ![s] = x]
  BY DEF Pings
<1> HIDE DEF x, done
<1>4. MonitorOK(monitor')
  BY <1>1, <1>2, <1>3 DEF MonitorOK
<1>5. /\ missed' \in [Server -> [Server -> 0..MissedThreshold]]
      /\ \A p \in Server : missed'[s][p] = IF p \in answered THEN 0
                                         ELSE IF p \in lost THEN MissedOne(missed[s][p])
                                         ELSE missed[s][p]
      /\ \A t \in Server \ {s} : missed'[t] = missed[t]
  <2> DEFINE n == [p \in Server |-> IF p \in answered THEN 0
                                    ELSE IF p \in lost THEN MissedOne(missed[s][p])
                                    ELSE missed[s][p]]
  <2>1. missed' = [missed EXCEPT ![s] = n]
    BY DEF Pings, MissedOf
  <2>2. n \in [Server -> 0..MissedThreshold]
    <3>1. MissedThreshold \in Nat /\ \A p \in Server : missed[s][p] \in 0..MissedThreshold
      BY <1>1, ConstantsOK DEF DetectorOK
    <3>2. QED
      BY <3>1 DEF MissedOne
  <2> HIDE DEF n
  <2>3. /\ missed' \in [Server -> [Server -> 0..MissedThreshold]] /\ missed'[s] = n
        /\ \A t \in Server \ {s} : missed'[t] = missed[t]
    BY <1>1, <2>1, <2>2 DEF DetectorOK
  <2>4. QED
    BY <2>3 DEF n
<1>6. /\ alive' \in [Server -> [Server -> BOOLEAN]]
      /\ \A p \in Server : alive'[s][p] <=> p \in StaysAlive(s, answered, lost, missed'[s])
      /\ \A t \in Server \ {s} : alive'[t] = alive[t]
  <2> DEFINE a == [p \in Server |-> p \in StaysAlive(s, answered, lost, missed'[s])]
  <2>1. alive' = [alive EXCEPT ![s] = a]
    BY DEF Pings
  <2>2. a \in [Server -> BOOLEAN]
    OBVIOUS
  <2> HIDE DEF a
  <2>3. /\ alive' \in [Server -> [Server -> BOOLEAN]] /\ alive'[s] = a
        /\ \A t \in Server \ {s} : alive'[t] = alive[t]
    BY <1>1, <2>1, <2>2 DEF DetectorOK
  <2>4. QED
    BY <2>3 DEF a
<1>7. ASSUME NEW p \in Server PROVE alive'[s][p] <=> missed'[s][p] < MissedThreshold
  <2>1. /\ MissedThreshold \in Nat /\ MissedThreshold > 0
        /\ missed[s][p] \in 0..MissedThreshold /\ missed'[s][p] \in 0..MissedThreshold
        /\ alive[s][p] <=> missed[s][p] < MissedThreshold
    BY <1>1, <1>5, ConstantsOK DEF DetectorOK
  <2>2. CASE p \in answered
    <3>1. alive'[s][p]
      BY <1>6, <2>2 DEF StaysAlive
    <3>2. missed'[s][p] < MissedThreshold
      BY <1>5, <2>1, <2>2
    <3>3. QED
      BY <3>1, <3>2
  <2>3. CASE p \notin answered /\ p \in lost
    <3>1. alive'[s][p] <=> alive[s][p] /\ ~Dead(missed'[s][p])
      BY <1>6, <2>3 DEF StaysAlive
    <3>2. /\ Dead(missed'[s][p]) <=> ~(missed'[s][p] < MissedThreshold)
          /\ missed'[s][p] < MissedThreshold => missed[s][p] < MissedThreshold
      BY <1>5, <2>1, <2>3 DEF MissedOne, Dead
    <3>3. QED
      BY <2>1, <3>1, <3>2
  <2>4. CASE p \notin answered /\ p \notin lost
    <3>1. alive'[s][p] <=> alive[s][p]
      BY <1>6, <2>4 DEF StaysAlive
    <3>2. missed'[s][p] = missed[s][p]
      BY <1>5, <2>4
    <3>3. QED
      BY <2>1, <3>1, <3>2
  <2>5. QED
    BY <2>2, <2>3, <2>4
<1>8. DetectorOK(alive', missed')
  <2>1. ASSUME NEW t \in Server, NEW p \in Server
        PROVE  alive'[t][p] <=> missed'[t][p] < MissedThreshold
    <3>1. CASE t = s
      BY <1>7, <3>1
    <3>2. CASE t # s
      <4>1. alive'[t] = alive[t] /\ missed'[t] = missed[t]
        BY <1>5, <1>6, <3>2
      <4>2. QED
        BY <1>1, <4>1 DEF DetectorOK
    <3>3. QED
      BY <3>1, <3>2
  <2>2. QED
    BY <1>5, <1>6, <2>1 DEF DetectorOK
<1>9. QED
  BY <1>4, <1>8 DEF IInv, Pings

LEMMA DetectorKeeps ==
    ASSUME IInv, NEW s \in Server, BeginPings(s) \/ PingAnswered(s) \/ PingMissed(s) PROVE IInv'
<1> DEFINE w == monitor[s]
<1>1. /\ w \in Monitor /\ (w.pc = "asleep" <=> w.left = {})
      /\ w.waited <= (IF w.pc = "pinging" THEN HeartbeatTimeout ELSE HeartbeatInterval)
  BY DEF IInv, MonitorOK
<1>2. Peers(s) \in SUBSET Server /\ {} \in SUBSET Peers(s)
      /\ HeartbeatTimeout \in Nat /\ 0 \in 0..HeartbeatTimeout
  BY ConstantsOK DEF Peers
<1>3. \A S : FreeAmong(S) \in SUBSET S
  BY DEF FreeAmong
<1>4. CASE BeginPings(s)
  BY <1>2, <1>3, <1>4, PingsKeep DEF BeginPings
<1>5. CASE PingAnswered(s)
  <2>1. w.left # {} /\ w.left \in SUBSET Server /\ {} \in SUBSET w.left
    BY <1>1, <1>5 DEF PingAnswered, FreeAmong, Monitor
  <2>2. w.waited \in 0..HeartbeatTimeout
    BY <1>1, <1>2, <2>1 DEF Monitor
  <2>3. Pings(s, w.left, FreeAmong(w.left), {}, w.waited)
    BY <1>5 DEF PingAnswered
  <2> HIDE DEF w
  <2>4. QED
    BY <1>3, <2>1, <2>2, <2>3, PingsKeep
<1>6. CASE PingMissed(s)
  <2>1. w.left \in SUBSET Server /\ {} \in SUBSET w.left /\ w.left \in SUBSET w.left
    BY <1>1 DEF Monitor
  <2>2. Pings(s, w.left, {}, w.left, 0)
    BY <1>6 DEF PingMissed
  <2> HIDE DEF w
  <2>3. QED
    BY <1>2, <2>1, <2>2, PingsKeep
<1>7. QED
  BY <1>4, <1>5, <1>6

-----------------------------------------------------------------------------
(* A node hangs; time passes.                                              *)

LEMMA HangKeeps == ASSUME IInv, NEW s \in Hanging, Hang(s) PROVE IInv'
<1>1. s \in Server /\ hung' = {s}
  BY ConstantsOK DEF Hang
<1>2. IsFiniteSet({s}) /\ Cardinality({s}) = 1
  BY FS_Singleton, Zenon
<1>3. QED
  BY <1>1, <1>2 DEF IInv, Hang

\* As many handlers as before, or fewer.
LEMMA ImageOf ==
    ASSUME NEW S, IsFiniteSet(S), NEW f
    PROVE  /\ IsFiniteSet({f[x] : x \in S})
           /\ Cardinality({f[x] : x \in S}) <= Cardinality(S)
<1> DEFINE T == {f[x] : x \in S}
           g == [x \in S |-> f[x]]
<1>1. g \in Surjection(S, T)
  BY DEF Surjection
<1> HIDE DEF g, T
<1>2. IsFiniteSet(T) /\ Cardinality(T) <= Cardinality(S)
  BY <1>1, FS_Surjection
<1>3. QED
  BY <1>2 DEF T

LEMMA TickKeeps == ASSUME IInv, Tick PROVE IInv'
<1> DEFINE f == [h \in running |-> IF h.at \in hung \/ h.waited = ReplicateTimeout THEN h
                                   ELSE [h EXCEPT !.waited = @ + 1]]
<1>1. /\ PoolOK(running) /\ ClientOK(client) /\ ServedOK(running, client, store)
      /\ MonitorOK(monitor)
  BY DEF IInv
<1>2. running' = {f[h] : h \in running}
  BY DEF Tick
<1>3. ASSUME NEW h \in running
      PROVE  f[h] \in Handler /\ f[h].at = h.at /\ f[h].m = h.m
  <2>1. h \in Handler
    BY <1>1 DEF PoolOK
  <2>2. CASE h.at \in hung \/ h.waited = ReplicateTimeout
    BY <2>1, <2>2
  <2>3. CASE ~(h.at \in hung \/ h.waited = ReplicateTimeout)
    <3>1. f[h] = [h EXCEPT !.waited = h.waited + 1]
      BY <2>3
    <3>2. h.waited + 1 \in 0..ReplicateTimeout
      <4>1. h.waited \in 0..ReplicateTimeout /\ ReplicateTimeout \in Nat
        BY <2>1, ConstantsOK DEF Handler
      <4>2. QED
        BY <2>3, <4>1
    <3> HIDE DEF f
    <3>3. QED
      BY <2>1, <3>1, <3>2 DEF Handler
  <2>4. QED
    BY <2>2, <2>3
<1> HIDE DEF f
<1>4. PoolOK(running')
  <2>1. running' \subseteq Handler /\ IsFiniteSet(running')
    BY <1>1, <1>2, <1>3, ImageOf DEF PoolOK
  <2>2. ASSUME NEW s \in Server PROVE Cardinality(At(running', s)) <= Threads
    <3> DEFINE A == At(running, s)
    <3>1. At(running', s) = {f[h] : h \in A}
      BY <1>2, <1>3 DEF At
    <3>2. IsFiniteSet(A) /\ Cardinality(A) <= Threads
      <4>1. A \in SUBSET running
        BY DEF At
      <4>2. QED
        BY <1>1, <4>1, FS_Subset DEF PoolOK
    <3> HIDE DEF A
    <3>3. /\ IsFiniteSet({f[h] : h \in A})
          /\ Cardinality({f[h] : h \in A}) <= Cardinality(A)
      BY <3>2, ImageOf
    <3>4. /\ Cardinality({f[h] : h \in A}) \in Nat /\ Cardinality(A) \in Nat
          /\ Threads \in Nat
      BY <3>2, <3>3, FS_CardinalityType, ConstantsOK
    <3>5. QED
      BY <3>1, <3>2, <3>3, <3>4
  <2>3. QED
    BY <2>1, <2>2 DEF PoolOK
<1>5. ASSUME NEW m \in Message
      PROVE  /\ client'[m] \in Call
             /\ client'[m].pc = client[m].pc /\ client'[m].at = client[m].at
  <2>1. client[m] \in Call
    BY <1>1 DEF ClientOK
  <2>2. CASE Waits(m)
    <3>1. client'[m] = [client[m] EXCEPT !.waited = client[m].waited + 1]
      BY <2>2 DEF Tick
    <3>2. client[m].waited # SendTimeout
      BY <2>2 DEF Tick, Due, SendOverdue
    <3>3. client[m].waited + 1 \in 0..SendTimeout
      <4>1. client[m].waited \in 0..SendTimeout /\ SendTimeout \in Nat
        BY <2>1, ConstantsOK DEF Call
      <4>2. QED
        BY <3>2, <4>1
    <3>4. QED
      BY <2>1, <3>1, <3>3 DEF Call
  <2>3. CASE ~Waits(m)
    BY <2>1, <2>3 DEF Tick
  <2>4. QED
    BY <2>2, <2>3
<1>6. ClientOK(client')
  <2>1. client' = [m \in Message |-> client'[m]]
    BY DEF Tick
  <2>2. QED
    BY <1>1, <1>5, <2>1 DEF ClientOK
<1>7. ServedOK(running', client', store)
  <2>1. \A g \in running' : \E h \in running : g = f[h] /\ g.at = h.at /\ g.m = h.m
    BY <1>2, <1>3
  <2>2. \A g \in running' : g.m \in store[g.at]
    BY <1>1, <2>1 DEF ServedOK
  <2>3. \A e, g \in running' : e.at = g.at /\ e.m = g.m => e = g
    <3>1. \A h, k \in running : h.at = k.at /\ h.m = k.m => h = k
      BY <1>1 DEF ServedOK
    <3>2. QED
      BY <2>1, <3>1
  <2>4. \A m \in Message : client'[m].pc = "served" =>
          \E g \in running' : g.m = m /\ g.at = client'[m].at
    BY <1>1, <1>2, <1>3, <1>5 DEF ServedOK
  <2>5. \A m \in Message : client'[m].pc = "acked" => \E s \in Server : m \in store[s]
    BY <1>1, <1>5 DEF ServedOK
  <2>6. QED
    BY <2>2, <2>3, <2>4, <2>5 DEF ServedOK
<1>8. ASSUME NEW s \in Server
      PROVE  /\ monitor'[s] \in Monitor
             /\ monitor'[s].pc = "asleep" <=> monitor'[s].left = {}
             /\ monitor'[s].waited <= (IF monitor'[s].pc = "pinging" THEN HeartbeatTimeout
                                                                    ELSE HeartbeatInterval)
  <2> DEFINE w == monitor[s]
  <2>1. /\ w \in Monitor /\ (w.pc = "asleep" <=> w.left = {})
        /\ w.waited <= (IF w.pc = "pinging" THEN HeartbeatTimeout ELSE HeartbeatInterval)
    BY <1>1 DEF MonitorOK
  <2>2. CASE s \in hung
    BY <2>1, <2>2 DEF Tick
  <2>3. CASE s \notin hung
    <3>1. /\ monitor'[s] = [w EXCEPT !.waited = w.waited + 1]
          /\ w # Asleep(HeartbeatInterval)
          /\ ~(w.left # {} /\ w.waited = HeartbeatTimeout)
      BY <2>3 DEF Tick, Due, PingsOverdue
    <3> HIDE DEF w
    <3>2. w = [pc |-> w.pc, left |-> w.left, waited |-> w.waited]
      BY <2>1 DEF Monitor
    <3>3. w.pc = "asleep" => w.waited # HeartbeatInterval
      BY <2>1, <3>1, <3>2 DEF Asleep
    <3>4. w.pc = "pinging" => w.waited # HeartbeatTimeout
      BY <2>1, <3>1
    <3>5. /\ w.pc \in {"asleep", "pinging"} /\ w.waited \in Nat
          /\ HeartbeatTimeout \in Nat /\ HeartbeatInterval \in Nat
      BY <2>1, ConstantsOK DEF Monitor
    <3>6. w.waited + 1 \in Nat
          /\ w.waited + 1 <= (IF w.pc = "pinging" THEN HeartbeatTimeout ELSE HeartbeatInterval)
      BY <2>1, <3>3, <3>4, <3>5
    <3>7. QED
      BY <2>1, <3>1, <3>6 DEF Monitor
  <2>4. QED
    BY <2>2, <2>3
<1>9. MonitorOK(monitor')
  <2>1. monitor' = [s \in Server |-> monitor'[s]]
    BY DEF Tick
  <2>2. monitor' \in [Server -> Monitor]
    BY <1>8, <2>1
  <2>3. QED
    BY <1>8, <2>2 DEF MonitorOK
<1>10. QED
  BY <1>4, <1>6, <1>7, <1>9 DEF IInv, Tick

-----------------------------------------------------------------------------
(* The invariant holds, and what follows.                                  *)

LEMMA InitOK == ASSUME Init PROVE IInv
<1>1. hung \subseteq Server /\ IsFiniteSet(hung) /\ Cardinality(hung) <= 1
  BY FS_EmptySet DEF Init
<1>2. PoolOK(running)
  <2>1. \A s \in Server : At(running, s) = {}
    BY DEF Init, At
  <2>2. Threads \in Nat /\ Cardinality({}) = 0 /\ running = {} /\ IsFiniteSet({})
    BY ConstantsOK, FS_EmptySet DEF Init
  <2>3. QED
    BY <2>1, <2>2 DEF PoolOK
<1>3. ClientOK(client) /\ ServedOK(running, client, store)
  <2>1. 0 \in 0..SendTimeout /\ Listed \in SUBSET Server
    BY ConstantsOK
  <2> DEFINE x == [pc |-> "idle", at |-> NoServer, waited |-> 0, untried |-> Listed]
  <2>2. x \in Call /\ x.pc = "idle"
    BY <2>1 DEF Call
  <2>3. client = [m \in Message |-> x] /\ running = {}
    BY DEF Init
  <2> HIDE DEF x
  <2>4. QED
    BY <2>2, <2>3 DEF ClientOK, ServedOK
<1>4. MonitorOK(monitor)
  <2>1. HeartbeatInterval \in Nat
    BY ConstantsOK
  <2>2. ASSUME NEW k \in 0..HeartbeatInterval
        PROVE  /\ Asleep(k) \in Monitor /\ Asleep(k).pc = "asleep" /\ Asleep(k).left = {}
               /\ Asleep(k).waited <= HeartbeatInterval
    BY <2>1 DEF Asleep, Monitor
  <2>3. monitor \in [Server -> {Asleep(k) : k \in 0..HeartbeatInterval}]
    BY DEF Init
  <2>4. ASSUME NEW s \in Server
        PROVE  /\ monitor[s] \in Monitor /\ monitor[s].pc = "asleep" /\ monitor[s].left = {}
               /\ monitor[s].waited <= HeartbeatInterval
    BY <2>2, <2>3
  <2>5. monitor \in [Server -> Monitor]
    BY <2>3, <2>4
  <2>6. QED
    BY <2>4, <2>5 DEF MonitorOK
<1>5. DetectorOK(alive, missed)
  <2>1. MissedThreshold \in Nat /\ MissedThreshold > 0
    BY ConstantsOK
  <2>2. QED
    BY <2>1 DEF Init, DetectorOK
<1>6. store \in [Server -> SUBSET Message]
  BY DEF Init
<1>7. QED
  BY <1>1, <1>2, <1>3, <1>4, <1>5, <1>6 DEF IInv

LEMMA NextKeeps == ASSUME IInv, [Next]_vars PROVE IInv'
<1>1. CASE Step
  <2>1. ASSUME NEW m \in Message, ClientTimeout(m) \/ HandleDuplicate(m) \/ BeginHandler(m)
        PROVE  IInv'
    BY <2>1, ClientTimeoutKeeps, HandleDuplicateKeeps, BeginHandlerKeeps
  <2>2. ASSUME NEW h \in running, PeerAnswers(h) \/ CallTimesOut(h) PROVE IInv'
    BY <2>2, PeerAnswersKeeps, CallTimesOutKeeps
  <2>3. ASSUME NEW s \in Server, BeginPings(s) \/ PingAnswered(s) \/ PingMissed(s)
        PROVE  IInv'
    BY <2>3, DetectorKeeps
  <2>4. CASE Tick
    BY <2>4, TickKeeps
  <2>5. QED
    BY <1>1, <2>1, <2>2, <2>3, <2>4 DEF Step
<1>2. ASSUME NEW m \in Message, NEW s \in Listed, Send(m, s) PROVE IInv'
  BY <1>2, SendKeeps
<1>3. ASSUME NEW s \in Hanging, Hang(s) PROVE IInv'
  BY <1>3, HangKeeps
<1>4. CASE UNCHANGED vars
  BY <1>4 DEF vars, IInv
<1>5. QED
  BY <1>1, <1>2, <1>3, <1>4 DEF Next

\* The invariant of the proofs holds in every state: pools and timeouts are kept, and
\* each client that waits for a handler has one (server.py:284-306).
THEOREM Invariant == Spec => []IInv
<1>1. QED
  BY InitOK, NextKeeps, PTL DEF Spec

\* The type invariant: no server runs more handlers than it has threads
\* (server.py:381), no wait outlasts its timeout, and no counter of missed heartbeats
\* its threshold.
THEOREM TypeCorrect == Spec => []TypeOK
<1>1. IInv => TypeOK
  <2> SUFFICES ASSUME IInv PROVE TypeOK
    OBVIOUS
  <2>1. \A s \in Server : HandlersAt(s) = At(running, s)
    BY DEF HandlersAt, At
  <2>2. \A s \in Server : Cardinality(HandlersAt(s)) <= Threads
    BY <2>1 DEF IInv, PoolOK
  <2>3. running \subseteq [at : Server, m : Message, to : Server,
                           waited : 0..ReplicateTimeout, left : SUBSET Server]
    BY DEF IInv, PoolOK, Handler
  <2>4. client \in [Message -> [pc : {"idle", "queued", "served", "acked", "failed"},
                                at : Server \union {NoServer}, waited : 0..SendTimeout,
                                untried : SUBSET Server]]
    BY DEF IInv, ClientOK, Call
  <2>5. QED
    BY <2>2, <2>3, <2>4 DEF TypeOK, IInv, MonitorOK, DetectorOK
<1>2. QED
  BY <1>1, Invariant, PTL

\* A message never holds two threads of one server, although clients send it again
\* while its handler still runs (client.py:64-93): the message is stored before the
\* handler makes its first call, and a stored one is a duplicate (fault.py:452-485).
OneThreadPerMessage ==
    \A g, h \in running : g.at = h.at /\ g.m = h.m => g = h

THEOREM OneThread == Spec => []OneThreadPerMessage
<1>1. IInv => OneThreadPerMessage
  BY DEF IInv, ServedOK, OneThreadPerMessage
<1>2. QED
  BY <1>1, Invariant, PTL

\* A client that is told success, of whatever server after time-outs with others, has
\* its message in some server's table (client.py:64-93, fault.py:452-485).
AckedIsStored ==
    \A m \in Message : client[m].pc = "acked" => \E s \in Server : m \in store[s]

THEOREM SuccessIsStored == Spec => []AckedIsStored
<1>1. IInv => AckedIsStored
  BY DEF IInv, ServedOK, AckedIsStored
<1>2. QED
  BY <1>1, Invariant, PTL

-----------------------------------------------------------------------------
(* How long a handler holds its thread.  It calls each other server once at*)
(* most, and no call outlasts its timeout: the waits of the threads for    *)
(* each other end, however many servers wait in a ring.                    *)

\* A handler calls others than its own server, and none twice.
CallsOnce(h) == h.to \in Peers(h.at) /\ h.left \subseteq Peers(h.at) \ {h.to}

\* The ticks a handler can still hold its thread, at a server that works.
Remaining(h) == Cardinality(h.left) * ReplicateTimeout + (ReplicateTimeout - h.waited)

LEMMA TimesOneLess == ASSUME NEW d \in Int, NEW r \in Int PROVE (d - 1) * r = d * r - r
OBVIOUS

LEMMA TimesKeepsOrder ==
    ASSUME NEW c \in Nat, NEW d \in Nat, NEW r \in Nat, c <= d
    PROVE  c * r <= d * r /\ c * r \in Nat /\ d * r \in Nat
<1>1. (d - c) * r \in Nat /\ (d - c) * r = d * r - c * r
  OBVIOUS
<1>2. QED
  BY <1>1

\* The next call of a handler h that has none under way is the only news.
LEMMA GoesOn ==
    ASSUME NEW h \in Begun, h.left \subseteq Peers(h.at), NEW other, NEW c,
           Continue(h, other, c), NEW k \in running'
    PROVE  \/ k \in other
           \/ /\ k.at = h.at /\ k.m = h.m /\ CallsOnce(k) /\ k.waited = 0
              /\ Cardinality(k.left) = Cardinality(h.left) - 1
<1>1. CASE h.left = {}
  BY <1>1 DEF Continue
<1>2. CASE h.left # {}
  <2> DEFINE x == First(h.left)
             L == h.left \ {x}
             z == [h EXCEPT !.to = x, !.waited = 0, !.left = L]
  <2>1. h.left \in SUBSET Server
    BY DEF Begun
  <2>2. x \in h.left
    BY <1>2, <2>1, FirstIn
  <2>3. running' = other \union {z}
    BY <1>2 DEF Continue
  <2>4. Cardinality(L) = Cardinality(h.left) - 1
    <3>1. IsFiniteSet(h.left)
      BY <2>1, ConstantsOK, FS_Subset
    <3>2. QED
      BY <2>2, <3>1, FS_RemoveElement
  <2> HIDE DEF x
  <2>5. L \subseteq Peers(h.at) \ {x} /\ x \in Peers(h.at)
    BY <2>2
  <2> HIDE DEF L
  <2>6. z.at = h.at /\ z.m = h.m /\ z.to = x /\ z.waited = 0 /\ z.left = L
    BY DEF Begun
  <2> HIDE DEF z
  <2>7. CallsOnce(z)
    BY <2>5, <2>6 DEF CallsOnce
  <2>8. QED
    BY <2>3, <2>4, <2>6, <2>7
<1>3. QED
  BY <1>1, <1>2

\* The handler that BeginHandler starts.
LEMMA Started ==
    ASSUME IInv, NEW m \in Message, BeginHandler(m)
    PROVE  \E h \in Begun :
              /\ h.left \subseteq Peers(h.at)
              /\ \E c : Continue(h, running, c)
              /\ \A g \in running : ~(g.at = h.at /\ g.m = h.m)
<1> DEFINE s == client[m].at
           L == {p \in Peers(s) : alive[s][p]}
           h == [at |-> s, m |-> m, to |-> NoServer, waited |-> 0, left |-> L]
           c == [client EXCEPT ![m].pc = "served"]
<1>1. s \in Server
  BY DEF BeginHandler, Queued, IInv, ClientOK
<1>2. L \subseteq Peers(s) /\ L \in SUBSET Server /\ 0 \in 0..ReplicateTimeout
  BY ConstantsOK DEF Peers
<1>3. Continue(h, running, c) /\ m \notin store[s]
  BY DEF BeginHandler
<1> HIDE DEF L, c
<1>4. h \in Begun /\ h.at = s /\ h.m = m /\ h.left = L
  BY <1>1, <1>2 DEF Begun
<1> HIDE DEF h, s
<1>5. \A g \in running : ~(g.at = h.at /\ g.m = h.m)
  BY <1>3, <1>4 DEF IInv, ServedOK
<1>6. QED
  BY <1>2, <1>3, <1>4, <1>5

\* A handler of before a tick has waited one tick more, unless its time is over.
LEMMA Ticked ==
    ASSUME IInv, Tick, NEW k \in running'
    PROVE  \E h \in running :
              /\ k.at = h.at /\ k.m = h.m /\ k.to = h.to /\ k.left = h.left
              /\ k.waited = IF h.at \in hung THEN h.waited ELSE h.waited + 1
<1>1. PICK h \in running : k = IF h.at \in hung \/ h.waited = ReplicateTimeout THEN h
                               ELSE [h EXCEPT !.waited = h.waited + 1]
  BY DEF Tick
<1>2. h \in Handler
  BY DEF IInv, PoolOK
<1>3. h.at \notin hung => h.waited # ReplicateTimeout
  BY DEF Tick, Due, Overdue
<1>4. CASE h.at \in hung
  BY <1>1, <1>4
<1>5. CASE h.at \notin hung
  <2>1. k = [h EXCEPT !.waited = h.waited + 1]
    BY <1>1, <1>3, <1>5
  <2>2. k.at = h.at /\ k.m = h.m /\ k.to = h.to /\ k.left = h.left /\ k.waited = h.waited + 1
    BY <1>2, <2>1 DEF Handler
  <2>3. QED
    BY <1>5, <2>2
<1>6. QED
  BY <1>4, <1>5

\* What a step does to the handlers: it starts one, or ends a call of one, or time passes.
LEMMA HandlersStep ==
    ASSUME IInv, Next
    PROVE  \/ \E h \in Begun :
                 /\ h.left \subseteq Peers(h.at)
                 /\ \E c : Continue(h, running, c)
                 /\ \A g \in running : ~(g.at = h.at /\ g.m = h.m)
           \/ \E h \in running : Continue(h, running \ {h}, client)
           \/ Tick
           \/ running' = running
<1>1. ASSUME NEW m \in Message, BeginHandler(m)
      PROVE  \E h \in Begun :
                /\ h.left \subseteq Peers(h.at)
                /\ \E c : Continue(h, running, c)
                /\ \A g \in running : ~(g.at = h.at /\ g.m = h.m)
  BY <1>1, Started
<1>2. ASSUME NEW m \in Message, ClientTimeout(m) \/ HandleDuplicate(m)
      PROVE  running' = running
  BY <1>2 DEF ClientTimeout, HandleDuplicate
<1>3. ASSUME NEW h \in running, PeerAnswers(h) \/ CallTimesOut(h)
      PROVE  Continue(h, running \ {h}, client)
  BY <1>3 DEF PeerAnswers, CallTimesOut
<1>4. ASSUME NEW s \in Server, BeginPings(s) \/ PingAnswered(s) \/ PingMissed(s)
      PROVE  running' = running
  BY <1>4 DEF BeginPings, PingAnswered, PingMissed, Pings
<1>5. ASSUME NEW m \in Message, NEW s \in Listed, Send(m, s) PROVE running' = running
  BY <1>5 DEF Send
<1>6. ASSUME NEW s \in Hanging, Hang(s) PROVE running' = running
  BY <1>6 DEF Hang
<1>7. QED
  BY <1>1, <1>2, <1>3, <1>4, <1>5, <1>6 DEF Next, Step

\* A handler calls each other server once at most, and never its own, on which it
\* would wait for a thread of its own pool (fault.py:452-485).
NobodyIsCalledTwice == \A h \in running : CallsOnce(h)

THEOREM EachPeerIsCalledOnce == Spec => []NobodyIsCalledTwice
<1>1. Init => NobodyIsCalledTwice
  BY DEF Init, NobodyIsCalledTwice
<1>2. ASSUME IInv, NobodyIsCalledTwice, [Next]_vars PROVE NobodyIsCalledTwice'
  <2> SUFFICES ASSUME NEW k \in running' PROVE CallsOnce(k)
    BY DEF NobodyIsCalledTwice, CallsOnce, Peers
  <2>1. ASSUME NEW h \in Begun, NEW c, h.left \subseteq Peers(h.at), Continue(h, running, c)
        PROVE  CallsOnce(k)
    BY <1>2, <2>1, GoesOn DEF NobodyIsCalledTwice
  <2>2. ASSUME NEW h \in running, Continue(h, running \ {h}, client) PROVE CallsOnce(k)
    <3>1. h \in Begun /\ h.left \subseteq Peers(h.at)
      BY <1>2 DEF IInv, PoolOK, Handler, Begun, NobodyIsCalledTwice, CallsOnce
    <3>2. k \in running \ {h} \/ CallsOnce(k)
      BY <2>2, <3>1, GoesOn
    <3>3. QED
      BY <1>2, <3>2 DEF NobodyIsCalledTwice
  <2>3. CASE Tick
    <3>1. PICK h \in running : k.at = h.at /\ k.to = h.to /\ k.left = h.left
      BY <1>2, <2>3, Ticked
    <3>2. QED
      BY <1>2, <3>1 DEF NobodyIsCalledTwice, CallsOnce
  <2>4. CASE running' = running
    BY <1>2, <2>4 DEF NobodyIsCalledTwice
  <2>5. CASE Next
    BY <1>2, <2>1, <2>2, <2>3, <2>4, <2>5, HandlersStep
  <2>6. CASE UNCHANGED vars
    BY <2>4, <2>6 DEF vars
  <2>7. QED
    BY <1>2, <2>5, <2>6
<1>3. QED
  BY <1>1, <1>2, Invariant, PTL DEF Spec

\* SendMessage holds its thread for REPLICATE_TIMEOUT times the number of the other
\* servers at most, while its own server works (server.py:284-306, fault.py:452-485).
HandlerIsBounded ==
    \A h \in running : Remaining(h) \in 0..((Cardinality(Server) - 1) * ReplicateTimeout)

THEOREM ThreadsAreHeldBriefly == Spec => []HandlerIsBounded
<1>1. ASSUME IInv, NobodyIsCalledTwice, NEW h \in running
      PROVE  Remaining(h) \in 0..((Cardinality(Server) - 1) * ReplicateTimeout)
  <2> DEFINE N == Cardinality(Server)
             P == Peers(h.at)
             C == Cardinality(h.left)
             R == ReplicateTimeout
  <2>1. h \in Handler /\ CallsOnce(h)
    BY <1>1 DEF IInv, PoolOK, NobodyIsCalledTwice
  <2>2. IsFiniteSet(Server) /\ N \in Nat /\ R \in Nat
    BY ConstantsOK, FS_CardinalityType
  <2>3. IsFiniteSet(P) /\ Cardinality(P) = N - 1
    <3>1. h.at \in Server
      BY <2>1 DEF Handler
    <3>2. QED
      BY <2>2, <3>1, FS_RemoveElement DEF Peers
  <2>4. IsFiniteSet(P \ {h.to}) /\ Cardinality(P \ {h.to}) = N - 2
    <3>1. h.to \in P
      BY <2>1 DEF CallsOnce
    <3> HIDE DEF P
    <3>2. Cardinality(P \ {h.to}) = Cardinality(P) - 1 /\ IsFiniteSet(P \ {h.to})
      BY <2>3, <3>1, FS_RemoveElement
    <3> HIDE DEF N
    <3>3. QED
      BY <2>2, <2>3, <3>2
  <2>5. C <= N - 2 /\ C \in Nat /\ N - 2 \in Nat
    <3>1. h.left \in SUBSET (P \ {h.to})
      BY <2>1 DEF CallsOnce
    <3>2. IsFiniteSet(h.left) /\ C <= Cardinality(P \ {h.to})
      BY <2>4, <3>1, FS_Subset
    <3>3. C \in Nat /\ Cardinality(P \ {h.to}) \in Nat
      BY <2>4, <3>2, FS_CardinalityType
    <3>4. QED
      BY <2>4, <3>2, <3>3
  <2>6. h.waited \in 0..R
    BY <2>1 DEF Handler
  <2> HIDE DEF N, C, R
  <2>7. C * R <= (N - 2) * R /\ C * R \in Nat /\ (N - 2) * R \in Nat
    BY <2>2, <2>5, TimesKeepsOrder
  <2>8. (N - 2) * R = (N - 1) * R - R
    <3>1. N - 1 \in Int /\ R \in Int /\ N - 2 = (N - 1) - 1
      BY <2>2
    <3>2. QED
      BY <3>1, TimesOneLess
  <2>9. C * R + (R - h.waited) \in 0..((N - 1) * R)
    BY <2>2, <2>6, <2>7, <2>8
  <2>10. QED
    BY <2>9 DEF Remaining, N, C, R
<1>2. IInv /\ NobodyIsCalledTwice => HandlerIsBounded
  BY <1>1 DEF HandlerIsBounded
<1>3. QED
  BY <1>2, Invariant, EachPeerIsCalledOnce, PTL

\* That time never grows, and each tick takes of it: a handler whose server works ends
\* within it, whatever the other servers do, and servers that wait for each other's
\* threads in a ring wait no longer (server.py:284-306).  OneThread says that at and m
\* name a handler.
ClockRuns(h, k) ==
    k.at = h.at /\ k.m = h.m =>
       /\ Remaining(k) <= Remaining(h)
       /\ Tick /\ h.at \notin hung => Remaining(k) < Remaining(h)

HandlerRunsOut == [][\A h \in running : \A k \in running' : ClockRuns(h, k)]_vars

THEOREM HandlersRunOut == Spec => HandlerRunsOut
<1>1. ASSUME IInv, NobodyIsCalledTwice, Next, NEW h \in running, NEW k \in running',
             k.at = h.at, k.m = h.m
      PROVE  Remaining(k) <= Remaining(h) /\ (Tick /\ h.at \notin hung => Remaining(k) < Remaining(h))
  <2> DEFINE R == ReplicateTimeout
  <2>1. /\ h \in Handler /\ CallsOnce(h)
        /\ \A g \in running : g.at = k.at /\ g.m = k.m => g = h
    BY <1>1 DEF IInv, PoolOK, ServedOK, NobodyIsCalledTwice
  <2>2. h.waited \in 0..R /\ R \in Nat /\ Cardinality(h.left) \in Nat
    <3>1. h.left \in SUBSET Server
      BY <2>1 DEF Handler
    <3>2. IsFiniteSet(h.left)
      BY <3>1, ConstantsOK, FS_Subset
    <3>3. QED
      BY <2>1, <3>2, ConstantsOK, FS_CardinalityType DEF Handler
  <2>3. Cardinality(h.left) * R \in Int
    BY <2>2
  <2>4. CASE k = h /\ ~Tick
    BY <2>2, <2>3, <2>4 DEF Remaining
  <2>5. CASE Tick
    <3>1. /\ k.left = h.left
          /\ k.waited = IF h.at \in hung THEN h.waited ELSE h.waited + 1
      BY <1>1, <2>1, <2>5, Ticked
    <3>2. QED
      BY <2>2, <2>3, <3>1 DEF Remaining
  <2>6. CASE ~Tick /\ k.waited = 0 /\ Cardinality(k.left) = Cardinality(h.left) - 1
    <3> DEFINE C == Cardinality(h.left)
    <3> HIDE DEF C, R
    <3>1. (C - 1) * R = C * R - R
      BY <2>2, TimesOneLess DEF C
    <3>2. (C - 1) * R + (R - 0) <= C * R + (R - h.waited)
      BY <2>2, <2>3, <3>1 DEF C
    <3>3. QED
      BY <2>6, <3>2 DEF Remaining, C, R
  <2>7. CASE ~Tick
    <3>1. ASSUME NEW g \in Begun, NEW c, g.left \subseteq Peers(g.at), Continue(g, running, c),
                 \A f \in running : ~(f.at = g.at /\ f.m = g.m)
          PROVE  k = h
      <4>1. k \in running \/ (k.at = g.at /\ k.m = g.m)
        BY <3>1, GoesOn
      <4>2. QED
        BY <1>1, <2>1, <3>1, <4>1
    <3>2. ASSUME NEW g \in running, Continue(g, running \ {g}, client)
          PROVE  k = h \/ (k.waited = 0 /\ Cardinality(k.left) = Cardinality(h.left) - 1)
      <4>1. g \in Begun /\ g.left \subseteq Peers(g.at)
        BY <1>1 DEF IInv, PoolOK, Handler, Begun, NobodyIsCalledTwice, CallsOnce
      <4>2. \/ k \in running \ {g}
            \/ /\ k.at = g.at /\ k.m = g.m /\ k.waited = 0
               /\ Cardinality(k.left) = Cardinality(g.left) - 1
        BY <3>2, <4>1, GoesOn
      <4>3. QED
        BY <2>1, <4>2
    <3>3. ASSUME running' = running PROVE k = h
      BY <1>1, <2>1, <3>3
    <3>4. QED
      BY <1>1, <2>4, <2>6, <2>7, <3>1, <3>2, <3>3, HandlersStep
  <2>8. QED
    BY <2>5, <2>7
<1>2. ASSUME IInv, NobodyIsCalledTwice, [Next]_vars
      PROVE  [\A h \in running : \A k \in running' : ClockRuns(h, k)]_vars
  BY <1>1, <1>2 DEF ClockRuns
<1>3. QED
  BY <1>2, Invariant, EachPeerIsCalledOnce, PTL DEF Spec, HandlerRunsOut

-----------------------------------------------------------------------------
(* How long a node that hangs is taken for ALIVE.                          *)

Round == HeartbeatInterval + HeartbeatTimeout

\* With n heartbeats of p missed, w the loop that pings: the ticks to the last one that
\* may be missed.
GraceOf(w, n, p) ==
    (MissedThreshold - n) * Round - w.waited
      + (IF w.left = {} THEN 0 ELSE IF p \in w.left THEN -HeartbeatInterval ELSE HeartbeatTimeout)

\* The ticks after which s takes p, which hangs, for DEAD, at the latest.
Grace(s, p) == GraceOf(monitor[s], missed[s][p], p)

\* One node hangs at most.
LEMMA OthersWork ==
    ASSUME IInv, NEW p \in hung, NEW s \in Peers(p)
    PROVE  p \in Server /\ s \in Server \ hung /\ p \in Peers(s)
<1>1. p \in Server /\ s \in Server /\ s # p /\ p \in Peers(s)
  BY DEF IInv, Peers
<1>2. s \notin hung \ {p}
  <2> DEFINE H == hung \ {p}
  <2>1. IsFiniteSet(H) /\ Cardinality(H) = Cardinality(hung) - 1
    BY FS_RemoveElement DEF IInv
  <2>2. Cardinality(hung) \in Nat /\ Cardinality(hung) <= 1 /\ Cardinality(H) \in Nat
    BY <2>1, FS_CardinalityType DEF IInv
  <2> HIDE DEF H
  <2>3. Cardinality(H) = 0
    BY <2>1, <2>2
  <2>4. H = {}
    BY <2>1, <2>3, FS_EmptySet
  <2>5. QED
    BY <2>4 DEF H
<1>3. QED
  BY <1>1, <1>2

\* What is known of a loop and of the counter of a peer.
LEMMA LoopIs ==
    ASSUME IInv, NEW s \in Server, NEW p \in Server
    PROVE  /\ monitor[s].left \subseteq Server /\ monitor[s].waited \in Nat
           /\ monitor[s].left = {} => monitor[s].waited <= HeartbeatInterval
           /\ monitor[s].left # {} => monitor[s].waited <= HeartbeatTimeout
           /\ missed[s][p] \in 0..MissedThreshold
           /\ alive[s][p] <=> missed[s][p] < MissedThreshold
           /\ HeartbeatInterval \in Nat /\ HeartbeatTimeout \in Nat /\ MissedThreshold \in Nat
<1>1. monitor[s] \in Monitor
  BY DEF IInv, MonitorOK
<1>2. QED
  BY <1>1, ConstantsOK DEF IInv, MonitorOK, DetectorOK, Monitor

\* A ping that is lost counts, and ends the wait for it.
LEMMA PingsGive ==
    ASSUME IInv, NEW s \in Server, NEW left, NEW answered, NEW lost, NEW waited \in Nat,
           Pings(s, left, answered, lost, waited), NEW p \in Server
    PROVE  /\ missed'[s][p] = IF p \in answered THEN 0
                              ELSE IF p \in lost THEN MissedOne(missed[s][p]) ELSE missed[s][p]
           /\ monitor'[s].left = left \ (answered \union lost)
           /\ monitor'[s].waited = IF left = answered \union lost THEN 0 ELSE waited
<1>1. monitor \in [Server -> Monitor] /\ missed \in [Server -> [Server -> 0..MissedThreshold]]
  BY DEF IInv, MonitorOK, DetectorOK
<1> DEFINE done == answered \union lost
           n == [q \in Server |-> IF q \in answered THEN 0
                                  ELSE IF q \in lost THEN MissedOne(missed[s][q])
                                  ELSE missed[s][q]]
           x == IF left = done THEN Asleep(0)
                ELSE [pc |-> "pinging", left |-> left \ done, waited |-> waited]
<1>2. missed' = [missed EXCEPT ![s] = n] /\ monitor' = [monitor EXCEPT ![s] = x]
  BY DEF Pings, MissedOf
<1>3. n[p] = IF p \in answered THEN 0 ELSE IF p \in lost THEN MissedOne(missed[s][p])
                                      ELSE missed[s][p]
  OBVIOUS
<1> HIDE DEF n
<1>4. missed'[s] = n /\ monitor'[s] = x
  BY <1>1, <1>2
<1>5. CASE left = done
  <2>1. x.left = left \ done /\ x.waited = 0
    BY <1>5 DEF Asleep
  <2> HIDE DEF x
  <2>2. QED
    BY <1>3, <1>4, <1>5, <2>1
<1>6. CASE left # done
  <2>1. x.left = left \ done /\ x.waited = waited
    BY <1>6
  <2> HIDE DEF x
  <2>2. QED
    BY <1>3, <1>4, <1>6, <2>1
<1>7. QED
  BY <1>5, <1>6

LEMMA PingsOfOthers ==
    ASSUME IInv, NEW t \in Server, NEW left, NEW answered, NEW lost, NEW waited,
           Pings(t, left, answered, lost, waited), NEW s \in Server \ {t}, NEW p \in Server
    PROVE  monitor'[s] = monitor[s] /\ missed'[s][p] = missed[s][p]
BY DEF IInv, MonitorOK, DetectorOK, Pings, MissedOf

\* A round of pings of t, begun, answered by some or over.
LEMMA GraceOfPings ==
    ASSUME IInv, IInv', NEW p \in hung, NEW s \in Peers(p), NEW t \in Server,
           BeginPings(t) \/ PingAnswered(t) \/ PingMissed(t), alive'[s][p]
    PROVE  alive[s][p] /\ GraceOf(monitor'[s], missed'[s][p], p) <= Grace(s, p)
<1> DEFINE w == monitor[s]
           n == missed[s][p]
           v == monitor'[s]
           M == MissedThreshold
<1>1. p \in Server /\ s \in Server \ hung /\ p \in Peers(s) /\ ~Free(p)
  BY OthersWork DEF Free
<1>2. /\ w.left \subseteq Server /\ w.waited \in Nat
      /\ w.left = {} => w.waited <= HeartbeatInterval
      /\ w.left # {} => w.waited <= HeartbeatTimeout
      /\ n \in 0..M /\ (alive[s][p] <=> n < M)
      /\ HeartbeatInterval \in Nat /\ HeartbeatTimeout \in Nat /\ M \in Nat
  BY <1>1, LoopIs
<1>3. missed'[s][p] \in 0..M /\ missed'[s][p] < M
  BY <1>1 DEF IInv, DetectorOK
<1>4. (M - n) * Round \in Int /\ Round \in Int /\ M - n \in Int
  BY <1>2 DEF Round
<1>5. p \notin FreeAmong(Peers(t)) /\ p \notin FreeAmong(monitor[t].left)
  BY <1>1 DEF FreeAmong
<1>6. ASSUME missed'[s][p] = n, v = w
      PROVE  alive[s][p] /\ GraceOf(v, missed'[s][p], p) <= Grace(s, p)
  <2>1. n < M /\ GraceOf(v, missed'[s][p], p) = Grace(s, p)
    BY <1>3, <1>6 DEF Grace
  <2>2. GraceOf(w, n, p) \in Int
    BY <1>2, <1>4 DEF GraceOf
  <2>3. QED
    BY <1>2, <1>6, <2>1, <2>2
<1>7. CASE BeginPings(t)
  <2>1. /\ Pings(t, Peers(t), FreeAmong(Peers(t)), {}, 0)
        /\ Peers(t) \in SUBSET Server /\ FreeAmong(Peers(t)) \in SUBSET Peers(t)
        /\ {} \in SUBSET Peers(t) /\ monitor[t] = Asleep(HeartbeatInterval)
    BY <1>7 DEF BeginPings, Peers, FreeAmong
  <2>2. CASE s # t
    BY <1>1, <1>6, <2>1, <2>2, PingsOfOthers
  <2>3. CASE s = t
    <3>1. /\ missed'[s][p] = n /\ p \in v.left /\ v.waited = 0
          /\ w.left = {} /\ w.waited = HeartbeatInterval
      <4>1. w.left = {} /\ w.waited = HeartbeatInterval
        BY <2>1, <2>3 DEF Asleep
      <4>2. /\ missed'[s][p] = n /\ v.waited = 0
            /\ v.left = Peers(t) \ (FreeAmong(Peers(t)) \union {})
        <5> DEFINE P == Peers(t)
                   F == FreeAmong(P)
        <5>1. Pings(s, P, F, {}, 0) /\ p \in P /\ p \notin F
          BY <1>1, <1>5, <2>1, <2>3
        <5> HIDE DEF P, F
        <5>2. QED
          BY <1>1, <5>1, PingsGive DEF P, F
      <4>3. p \in v.left
        BY <1>1, <1>5, <2>3, <4>2
      <4>4. QED
        BY <4>1, <4>2, <4>3
    <3> HIDE DEF w, v, n
    <3>2. QED
      BY <1>2, <1>3, <1>4, <3>1 DEF GraceOf, Grace, w, v, n
  <2>4. QED
    BY <2>2, <2>3
<1>8. CASE PingAnswered(t)
  <2> DEFINE L == monitor[t].left
  <2>1. /\ Pings(t, L, FreeAmong(L), {}, monitor[t].waited)
        /\ L \in SUBSET Server /\ FreeAmong(L) \in SUBSET L /\ {} \in SUBSET L /\ L # {}
    BY <1>1, <1>8, LoopIs DEF PingAnswered, FreeAmong
  <2>2. CASE s # t
    BY <1>1, <1>6, <2>1, <2>2, PingsOfOthers
  <2>3. CASE s = t
    <3>1. /\ missed'[s][p] = n /\ v.left = w.left \ FreeAmong(w.left)
          /\ v.waited = IF v.left = {} THEN 0 ELSE w.waited
      <4>1. /\ missed'[s][p] = n /\ v.left = L \ (FreeAmong(L) \union {})
            /\ v.waited = IF L = FreeAmong(L) \union {} THEN 0 ELSE w.waited
        <5> DEFINE F == FreeAmong(L)
                   k == w.waited
        <5>1. Pings(s, L, F, {}, k) /\ p \notin F /\ k \in Nat
          BY <1>2, <1>5, <2>1, <2>3
        <5> HIDE DEF L, F, k, w, v
        <5>2. missed'[s][p] = n
          BY <1>1, <5>1, PingsGive
        <5>3. monitor'[s].left = L \ (F \union {})
          BY <1>1, <5>1, PingsGive
        <5>4. monitor'[s].waited = IF L = F \union {} THEN 0 ELSE k
          BY <1>1, <5>1, PingsGive
        <5>5. QED
          BY <5>2, <5>3, <5>4 DEF F, k, v
      <4>2. L = w.left
        BY <2>3
      <4> HIDE DEF L, v
      <4>3. QED
        BY <2>1, <4>1, <4>2
    <3>2. w.left # {} /\ (p \in w.left <=> p \in v.left)
      BY <1>5, <2>1, <2>3, <3>1
    <3> HIDE DEF w, v, n
    <3>3. QED
      BY <1>2, <1>3, <1>4, <3>1, <3>2 DEF GraceOf, Grace, w, v, n
  <2>4. QED
    BY <2>2, <2>3
<1>9. CASE PingMissed(t)
  <2> DEFINE L == monitor[t].left
  <2>1. /\ Pings(t, L, {}, L, 0) /\ L \in SUBSET Server
        /\ {} \in SUBSET L /\ L \in SUBSET L /\ L # {} /\ monitor[t].waited = HeartbeatTimeout
    BY <1>1, <1>9, LoopIs DEF PingMissed, PingsOverdue
  <2>2. CASE s # t
    BY <1>1, <1>6, <2>1, <2>2, PingsOfOthers
  <2>3. CASE s = t
    <3>1. /\ missed'[s][p] = IF p \in w.left THEN MissedOne(n) ELSE n
          /\ v.left = {} /\ v.waited = 0 /\ w.left # {} /\ w.waited = HeartbeatTimeout
      <4>1. /\ missed'[s][p] = IF p \in {} THEN 0 ELSE IF p \in L THEN MissedOne(n) ELSE n
            /\ v.left = L \ ({} \union L) /\ v.waited = IF L = {} \union L THEN 0 ELSE 0
        <5>1. Pings(s, L, {}, L, 0)
          BY <2>1, <2>3
        <5> HIDE DEF L
        <5>2. QED
          BY <1>1, <5>1, PingsGive
      <4>2. QED
        BY <2>1, <2>3, <4>1
    <3> HIDE DEF w, v, n
    <3>2. CASE p \notin w.left
      BY <1>2, <1>3, <1>4, <3>1, <3>2 DEF GraceOf, Grace, w, v, n
    <3>3. CASE p \in w.left
      <4>1. n < M /\ missed'[s][p] = n + 1
        BY <1>2, <1>3, <3>1, <3>3 DEF MissedOne
      <4>2. (M - (n + 1)) * Round = (M - n) * Round - Round
        <5>1. M - (n + 1) = (M - n) - 1
          BY <1>2
        <5> HIDE DEF M
        <5>2. QED
          BY <1>4, <5>1, TimesOneLess
      <4>3. GraceOf(v, n + 1, p) = (M - n) * Round - Round
        BY <1>2, <1>4, <3>1, <4>2 DEF GraceOf
      <4>4. GraceOf(w, n, p) = (M - n) * Round - HeartbeatTimeout - HeartbeatInterval
        BY <1>2, <1>4, <3>1, <3>3 DEF GraceOf
      <4>5. GraceOf(v, n + 1, p) <= GraceOf(w, n, p)
        BY <1>2, <1>4, <4>3, <4>4 DEF Round
      <4>6. QED
        BY <1>2, <4>1, <4>5 DEF Grace, w, v, n
    <3>4. QED
      BY <3>2, <3>3
  <2>4. QED
    BY <2>2, <2>3
<1>10. QED
  BY <1>7, <1>8, <1>9

LEMMA GraceOfTick ==
    ASSUME IInv, Tick, NEW p \in hung, NEW s \in Peers(p)
    PROVE  /\ alive' = alive /\ missed' = missed
           /\ GraceOf(monitor'[s], missed'[s][p], p) < Grace(s, p)
           /\ GraceOf(monitor'[s], missed'[s][p], p) <= Grace(s, p)
<1>1. p \in Server /\ s \in Server \ hung
  BY OthersWork
<1> DEFINE w == monitor[s]
           v == monitor'[s]
           n == missed[s][p]
<1>2. alive' = alive /\ missed' = missed /\ v = [w EXCEPT !.waited = w.waited + 1]
  BY <1>1 DEF Tick
<1>3. w \in Monitor
  BY <1>1 DEF IInv, MonitorOK
<1> HIDE DEF w, v
<1>4. v.left = w.left /\ v.waited = w.waited + 1
  BY <1>2, <1>3 DEF Monitor
<1> USE DEF w
<1>5. /\ w.waited \in Nat /\ n \in 0..MissedThreshold
      /\ HeartbeatInterval \in Nat /\ HeartbeatTimeout \in Nat /\ MissedThreshold \in Nat
  BY <1>1, LoopIs
<1> HIDE DEF w, n
<1>6. (MissedThreshold - n) * Round \in Int
  BY <1>5 DEF Round
<1>7. GraceOf(v, n, p) < GraceOf(w, n, p) /\ GraceOf(v, n, p) <= GraceOf(w, n, p)
  BY <1>4, <1>5, <1>6 DEF GraceOf
<1>8. QED
  BY <1>2, <1>7 DEF Grace, v, w, n

\* A node that hangs is taken for ALIVE by another for the threshold's number of rounds
\* of heartbeats at most, and the end of the round it hangs in (fault.py:232-269).
GraceIsBounded ==
    \A p \in hung : \A s \in Peers(p) : alive[s][p] =>
       Grace(s, p) \in 0..(MissedThreshold * Round + HeartbeatTimeout)

THEOREM HangIsShort == Spec => []GraceIsBounded
<1>1. ASSUME IInv, NEW p \in hung, NEW s \in Peers(p), alive[s][p]
      PROVE  Grace(s, p) \in 0..(MissedThreshold * Round + HeartbeatTimeout)
  <2> DEFINE w == monitor[s]
             n == missed[s][p]
             M == MissedThreshold
             D == (M - n) * Round
  <2>1. p \in Server /\ s \in Server
    BY <1>1, OthersWork
  <2>2. /\ w.waited \in Nat
        /\ w.left = {} => w.waited <= HeartbeatInterval
        /\ w.left # {} => w.waited <= HeartbeatTimeout
        /\ n \in 0..M /\ n < M
        /\ HeartbeatInterval \in Nat /\ HeartbeatTimeout \in Nat /\ M \in Nat
    BY <1>1, <2>1, LoopIs
  <2> HIDE DEF w, n, M
  <2>3. Round \in Nat /\ Round = HeartbeatInterval + HeartbeatTimeout
    BY <2>2 DEF Round
  <2>4. 1 <= M - n /\ M - n <= M /\ M - n \in Nat /\ 1 \in Nat
    BY <2>2
  <2>5. 1 * Round <= D /\ D <= M * Round /\ D \in Nat /\ M * Round \in Nat
    BY <2>2, <2>3, <2>4, TimesKeepsOrder
  <2>6. 1 * Round = Round
    BY <2>3
  <2> HIDE DEF D
  <2>7. GraceOf(w, n, p) = D - w.waited
          + (IF w.left = {} THEN 0 ELSE IF p \in w.left THEN -HeartbeatInterval ELSE HeartbeatTimeout)
    BY DEF GraceOf, D, M
  <2>8. GraceOf(w, n, p) \in 0..(M * Round + HeartbeatTimeout)
    BY <2>2, <2>3, <2>5, <2>6, <2>7
  <2>9. QED
    BY <2>8 DEF Grace, w, n, M
<1>2. IInv => GraceIsBounded
  BY <1>1 DEF GraceIsBounded
<1>3. QED
  BY <1>2, Invariant, PTL

\* Nothing prolongs that time, each tick takes of it, and a node that hangs is never
\* ALIVE again (fault.py:232-269), whatever the round of heartbeats it hangs in, and
\* whoever of the others answers.
GraceRunsOut ==
    [][\A p \in hung : \A s \in Peers(p) : alive'[s][p] =>
          /\ alive[s][p] /\ Grace(s, p)' <= Grace(s, p)
          /\ Tick => Grace(s, p)' < Grace(s, p)]_vars

THEOREM HangIsDetectedInTime == Spec => GraceRunsOut
<1>1. ASSUME IInv, IInv', [Next]_vars, NEW p \in hung, NEW s \in Peers(p), alive'[s][p]
      PROVE  /\ alive[s][p] /\ Grace(s, p)' <= Grace(s, p)
             /\ Tick => Grace(s, p)' < Grace(s, p)
  <2> DEFINE G == GraceOf(monitor'[s], missed'[s][p], p)
  <2>1. Grace(s, p)' = G
    BY DEF Grace, GraceOf, Round
  <2>2. Grace(s, p) \in Int
    <3>1. p \in Server /\ s \in Server
      BY <1>1, OthersWork
    <3>2. /\ monitor[s].waited \in Nat /\ missed[s][p] \in 0..MissedThreshold
          /\ HeartbeatInterval \in Nat /\ HeartbeatTimeout \in Nat /\ MissedThreshold \in Nat
      BY <1>1, <3>1, LoopIs
    <3> DEFINE D == (MissedThreshold - missed[s][p]) * Round
    <3>3. D \in Int
      BY <3>2 DEF Round
    <3> HIDE DEF D
    <3>4. QED
      BY <3>2, <3>3 DEF Grace, GraceOf, D
  <2>3. CASE Tick
    <3>1. alive' = alive /\ G < Grace(s, p) /\ G <= Grace(s, p)
      BY <1>1, <2>3, GraceOfTick
    <3>2. QED
      BY <1>1, <2>1, <3>1
  <2>4. ASSUME UNCHANGED <<alive, missed, monitor>>
        PROVE  alive[s][p] /\ Grace(s, p)' <= Grace(s, p)
    <3>1. G = Grace(s, p)
      BY <2>4 DEF Grace
    <3>2. QED
      BY <1>1, <2>1, <2>2, <2>4, <3>1
  <2>5. ASSUME NEW t \in Server, BeginPings(t) \/ PingAnswered(t) \/ PingMissed(t)
        PROVE  alive[s][p] /\ Grace(s, p)' <= Grace(s, p)
    BY <1>1, <2>1, <2>5, GraceOfPings
  <2>6. CASE Next /\ ~Tick
    <3>1. ASSUME NEW m \in Message, ClientTimeout(m) \/ HandleDuplicate(m) \/ BeginHandler(m)
          PROVE  UNCHANGED <<alive, missed, monitor>>
      BY <3>1 DEF ClientTimeout, HandleDuplicate, BeginHandler
    <3>2. ASSUME NEW h \in running, PeerAnswers(h) \/ CallTimesOut(h)
          PROVE  UNCHANGED <<alive, missed, monitor>>
      BY <3>2 DEF PeerAnswers, CallTimesOut
    <3>3. ASSUME NEW m \in Message, NEW t \in Listed, Send(m, t)
          PROVE  UNCHANGED <<alive, missed, monitor>>
      BY <3>3 DEF Send
    <3>4. ASSUME NEW t \in Hanging, Hang(t) PROVE UNCHANGED <<alive, missed, monitor>>
      BY <3>4 DEF Hang
    <3>5. QED
      BY <2>4, <2>5, <2>6, <3>1, <3>2, <3>3, <3>4 DEF Next, Step
  <2>7. CASE UNCHANGED vars /\ ~Tick
    BY <2>4, <2>7 DEF vars
  <2>8. QED
    BY <1>1, <2>3, <2>6, <2>7
<1>2. ASSUME IInv, IInv', [Next]_vars
      PROVE  [\A p \in hung : \A s \in Peers(p) : alive'[s][p] =>
                /\ alive[s][p] /\ Grace(s, p)' <= Grace(s, p)
                /\ Tick => Grace(s, p)' < Grace(s, p)]_vars
  BY <1>1, <1>2
<1>3. QED
  BY <1>2, Invariant, PTL DEF Spec, GraceRunsOut
=============================================================================
