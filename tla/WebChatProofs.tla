---------------------------- MODULE WebChatProofs ----------------------------
(***************************************************************************)
(* Proofs about WebChat, for any number of servers, requests and failures: *)
(* fail-over tries every server of the list unless another request moves   *)
(* the index under it, the chat view has merged what each server it has    *)
(* been to held, and the client, with the servers, implements              *)
(* ReplicatedInbox.  Last, the steps behind FindsTheServer: a request ends *)
(* after so many attempts, and only late answers move the index away from  *)
(* the one server that runs.                                               *)
(***************************************************************************)
EXTENDS WebChat, TLAPS

-----------------------------------------------------------------------------
(* Types.                                                                  *)

Request ==
    [pc : {"idle", "next", "calling", "broken", "ended", "failed"},
     attempt : Server, at : Server, result : SUBSET Message,
     steady : SUBSET Server, owed : [Server -> SUBSET Message]]

LEMMA ServersOK == NumServers \in Nat \ {0} /\ 0 \in Server /\ Server \subseteq Nat
BY ServersAssumption DEF ServersAssumption, Server

LEMMA MaxFailuresOK == MaxFailures \in Nat
BY BoundAssumption DEF BoundAssumption

\* The list is gone through in a circle.
LEMMA Modulus ==
    ASSUME NEW a \in Server, NEW b \in Server
    PROVE  /\ a + b < NumServers => (a + b) % NumServers = a + b
           /\ a + b >= NumServers => (a + b) % NumServers = a + b - NumServers
           /\ (a + b) % NumServers \in Server
<1>1. a \in Nat /\ b \in Nat /\ a < NumServers /\ b < NumServers /\ NumServers \in Nat \ {0}
  BY ServersAssumption DEF ServersAssumption, Server
<1>2. CASE a + b < NumServers
  <2>1. (a + b) % NumServers = a + b
    BY <1>1, <1>2
  <2>2. QED
    BY <1>1, <1>2, <2>1 DEF Server
<1>3. CASE a + b >= NumServers
  <2>1. (a + b) % NumServers = a + b - NumServers
    BY <1>1, <1>3
  <2>2. QED
    BY <1>1, <1>3, <2>1 DEF Server
<1>4. QED
  BY <1>1, <1>2, <1>3

\* Every server is tried by one of the attempts.
LEMMA EveryServerIsTried ==
    ASSUME NEW i \in Server, NEW s \in Server
    PROVE  \E k \in Server : (i + k) % NumServers = s
<1>1. i \in Nat /\ s \in Nat /\ i < NumServers /\ s < NumServers /\ NumServers \in Nat \ {0}
  BY ServersAssumption DEF ServersAssumption, Server
<1>2. CASE i <= s
  <2> DEFINE k == s - i
  <2>1. k \in Server /\ i + k = s
    BY <1>1, <1>2 DEF Server
  <2> HIDE DEF k
  <2>2. (i + k) % NumServers = i + k
    BY <1>1, <2>1, Modulus
  <2>3. QED
    BY <2>1, <2>2
<1>3. CASE i > s
  <2> DEFINE k == s - i + NumServers
  <2>1. k \in Server /\ i + k = s + NumServers
    BY <1>1, <1>3 DEF Server
  <2> HIDE DEF k
  <2>2. (i + k) % NumServers = i + k - NumServers
    BY <1>1, <2>1, Modulus
  <2>3. QED
    BY <1>1, <2>1, <2>2
<1>4. QED
  BY <1>1, <1>2, <1>3

\* What the operators on a request give.
LEMMA IdleOK ==
    /\ Idle \in Request /\ Idle.steady = {} /\ Idle.attempt = 0
    /\ \A s \in Server : Idle.owed[s] = {}
<1> DEFINE none == [s \in Server |-> {}]
<1>1. none \in [Server -> SUBSET Message] /\ \A s \in Server : none[s] = {}
  OBVIOUS
<1>2. Idle = [pc |-> "idle", attempt |-> 0, at |-> 0, result |-> {}, steady |-> {}, owed |-> none]
  BY DEF Idle
<1> HIDE DEF none
<1>3. QED
  BY <1>1, <1>2, ServersOK DEF Request

LEMMA WithoutOK ==
    ASSUME NEW r \in Request, NEW s \in Server
    PROVE  LET w == Without(r, s)
           IN /\ w \in Request /\ w.pc = r.pc /\ w.attempt = r.attempt /\ w.at = r.at
              /\ w.result = r.result /\ w.steady = r.steady \ {s}
              /\ \A x \in Server : w.owed[x] = IF x = s THEN {} ELSE r.owed[x]
<1> DEFINE owed == [r.owed EXCEPT ![s] = {}]
           steady == r.steady \ {s}
           w == Without(r, s)
<1>1. r.owed \in [Server -> SUBSET Message] /\ r.steady \in SUBSET Server
  BY DEF Request
<1>2. /\ owed \in [Server -> SUBSET Message] /\ steady \in SUBSET Server
      /\ \A x \in Server : owed[x] = IF x = s THEN {} ELSE r.owed[x]
  BY <1>1
<1>3. w = [r EXCEPT !.steady = steady, !.owed = owed]
  BY DEF Without, Request
<1> HIDE DEF w, owed
<1>4. /\ w \in Request /\ w.pc = r.pc /\ w.attempt = r.attempt /\ w.at = r.at
      /\ w.result = r.result /\ w.steady = steady /\ w.owed = owed
  BY <1>2, <1>3 DEF Request
<1>5. QED
  BY <1>2, <1>4 DEF w

LEMMA NextAttempt ==
    ASSUME NEW c \in Call, call[c].attempt \in Server
    PROVE  /\ ~IsLast(c) => call[c].attempt + 1 \in Server
           /\ IsLast(c) => \A s \in Server : s <= call[c].attempt
BY ServersAssumption DEF ServersAssumption, Server, IsLast

-----------------------------------------------------------------------------
(* The invariant, for fields r of the request of c, index i and disks h.   *)

Runs(r) == r.pc \in {"next", "calling", "broken"}

\* A view has merged what it owes of the servers it has been to, and no server
\* lost any of it.
ViewSoFar(r, h) ==
    /\ \A s \in Server : r.owed[s] \subseteq h[s]
    /\ Runs(r) => \A s \in Server : s < r.attempt => r.owed[s] \subseteq r.result
    /\ r.pc \in {"calling", "broken"} => r.at = r.attempt
    /\ r.pc = "ended" => \A s \in Server : r.owed[s] \subseteq r.result

\* A send or an inbox, whose index nobody moved, has tried no steady server.
Tries(r, i) ==
    \A s \in r.steady :
        /\ Runs(r) => \A k \in Server : k < r.attempt => (i + k) % NumServers # s
        /\ r.pc \in {"calling", "broken"} => r.at = (i + r.attempt) % NumServers
        /\ r.pc # "failed"

CallOK(c, r, i, h) ==
    /\ r \in Request
    /\ IF c \in View THEN ViewSoFar(r, h) ELSE Tries(r, i)

CallsOK == \A c \in Call : CallOK(c, call[c], index, held)

\* The disks keep what they have.
LEMMA MoreIsHeld ==
    ASSUME NEW c, NEW r, NEW i, NEW h, CallOK(c, r, i, h),
           NEW g, \A s \in Server : h[s] \subseteq g[s]
    PROVE  CallOK(c, r, i, g)
BY DEF CallOK, ViewSoFar

\* Another request moved the index.
LEMMA NothingIsSteady ==
    ASSUME NEW c, NEW r, NEW i, NEW h, CallOK(c, r, i, h), NEW j
    PROVE  CallOK(c, [r EXCEPT !.steady = {}], j, h)
<1> DEFINE z == [r EXCEPT !.steady = {}]
<1>1. r \in Request
  BY DEF CallOK
<1>2. /\ z \in Request /\ z.steady = {} /\ z.pc = r.pc /\ z.attempt = r.attempt /\ z.at = r.at
      /\ z.result = r.result /\ z.owed = r.owed
  BY <1>1 DEF Request
<1> HIDE DEF z
<1>3. ViewSoFar(r, h) => ViewSoFar(z, h)
  BY <1>2 DEF ViewSoFar, Runs
<1>4. Tries(z, j)
  BY <1>2 DEF Tries
<1>5. CallOK(c, z, j, h)
  BY <1>2, <1>3, <1>4 DEF CallOK
<1>6. QED
  BY <1>5 DEF z

\* A server fails a request, or crashes under it.
LEMMA ServerFailsIt ==
    ASSUME NEW c, NEW r, NEW i, NEW h, CallOK(c, r, i, h), NEW s \in Server
    PROVE  LET z == [Without(r, s) EXCEPT !.pc = IF @ = "calling" /\ r.at = s
                                                 THEN "broken" ELSE @]
           IN CallOK(c, Without(r, s), i, h) /\ CallOK(c, z, i, h)
<1> DEFINE w == Without(r, s)
           pc == IF w.pc = "calling" /\ r.at = s THEN "broken" ELSE w.pc
           z == [w EXCEPT !.pc = pc]
<1>1. r \in Request
  BY DEF CallOK
<1>2. /\ w \in Request /\ w.pc = r.pc /\ w.attempt = r.attempt /\ w.at = r.at
      /\ w.result = r.result /\ w.steady = r.steady \ {s}
      /\ \A x \in Server : w.owed[x] = IF x = s THEN {} ELSE r.owed[x]
  BY <1>1, WithoutOK
<1> HIDE DEF w
<1>3. /\ pc \in {"idle", "next", "calling", "broken", "ended", "failed"}
      /\ pc = r.pc \/ (r.pc = "calling" /\ pc = "broken")
  BY <1>1, <1>2 DEF Request
<1> HIDE DEF pc
<1>4. /\ z \in Request /\ z.pc = pc /\ z.attempt = r.attempt /\ z.at = r.at
      /\ z.result = r.result /\ z.steady = r.steady \ {s}
      /\ \A x \in Server : z.owed[x] = IF x = s THEN {} ELSE r.owed[x]
  BY <1>2, <1>3 DEF Request
<1> HIDE DEF z
<1>5. ViewSoFar(r, h) => ViewSoFar(w, h) /\ ViewSoFar(z, h)
  BY <1>2, <1>3, <1>4 DEF ViewSoFar, Runs
<1>6. Tries(r, i) => Tries(w, i) /\ Tries(z, i)
  BY <1>2, <1>3, <1>4 DEF Tries, Runs
<1>7. CallOK(c, w, i, h) /\ CallOK(c, z, i, h)
  BY <1>2, <1>4, <1>5, <1>6 DEF CallOK
<1>8. QED
  BY <1>7 DEF z, pc, w

-----------------------------------------------------------------------------
(* Each action keeps it.                                                   *)

LEMMA Types ==
    TypeOK <=> /\ index \in Server /\ call \in [Call -> Request]
               /\ requests \in [Server -> SUBSET Message]
               /\ held \in [Server -> SUBSET Message]
               /\ up \subseteq Server /\ failures \in 0..MaxFailures
BY DEF TypeOK, Request

\* An action that changes the request of c only, to z.
LEMMA OneCall ==
    ASSUME TypeOK, CallsOK, NEW c \in Call, NEW z,
           call' = [call EXCEPT ![c] = z], UNCHANGED <<index, held>>,
           CallOK(c, z, index, held)
    PROVE  CallsOK'
<1>1. \A d \in Call : call'[d] = IF d = c THEN z ELSE call[d]
  BY Types
<1>2. \A d \in Call : CallOK(d, call'[d], index', held')
  BY <1>1 DEF CallsOK
<1>3. QED
  BY <1>2 DEF CallsOK

LEMMA BeginKeeps ==
    ASSUME TypeOK, CallsOK, NEW c \in Call, Begin(c) PROVE CallsOK'
<1> DEFINE steady == IF c \in View THEN {} ELSE up
           owed == [s \in Server |-> IF c \in View /\ s \in up THEN held[s] ELSE {}]
           z == [Idle EXCEPT !.pc = "next", !.steady = steady, !.owed = owed]
<1>1. call' = [call EXCEPT ![c] = z] /\ UNCHANGED <<index, held>>
  BY DEF Begin
<1>2. up \subseteq Server /\ held \in [Server -> SUBSET Message]
  BY Types
<1>3. /\ steady \in SUBSET Server /\ owed \in [Server -> SUBSET Message]
      /\ \A s \in Server : owed[s] \subseteq held[s]
  BY <1>2
<1> HIDE DEF steady, owed
<1>4. /\ z \in Request /\ z.pc = "next" /\ z.attempt = 0 /\ z.owed = owed
  BY <1>3, IdleOK DEF Request
<1> HIDE DEF z
<1>5. ViewSoFar(z, held) /\ Tries(z, index)
  BY <1>3, <1>4, ServersOK DEF ViewSoFar, Tries, Runs, Server
<1>6. CallOK(c, z, index, held)
  BY <1>4, <1>5 DEF CallOK
<1>7. QED
  BY <1>1, <1>6, OneCall

LEMMA TryKeeps ==
    ASSUME TypeOK, CallsOK, NEW c \in Call, Try(c) PROVE CallsOK'
<1> DEFINE r == call[c]
           s == IF c \in View THEN r.attempt ELSE Rotated(r.attempt)
           pc == IF s \in up THEN "calling" ELSE "broken"
           z == [r EXCEPT !.pc = pc, !.at = s]
<1>1. /\ call' = [call EXCEPT ![c] = z] /\ UNCHANGED <<index, held>> /\ r.pc = "next"
  BY Types DEF Try
<1>2. CallOK(c, r, index, held) /\ r \in Request /\ r.attempt \in Server /\ index \in Server
  BY Types DEF CallsOK, Request
<1>3. /\ s \in Server /\ pc \in {"calling", "broken"}
      /\ c \in View => s = r.attempt
      /\ c \notin View => s = (index + r.attempt) % NumServers
  BY <1>2, Modulus DEF Rotated
<1> HIDE DEF s, pc, r
<1>4. /\ z \in Request /\ z.pc = pc /\ z.at = s /\ z.attempt = r.attempt
      /\ z.result = r.result /\ z.steady = r.steady /\ z.owed = r.owed
  BY <1>2, <1>3 DEF Request
<1> HIDE DEF z
<1>5. c \in View => ViewSoFar(z, held)
  BY <1>1, <1>2, <1>3, <1>4 DEF CallOK, ViewSoFar, Runs
<1>6. c \notin View => Tries(z, index)
  BY <1>1, <1>2, <1>3, <1>4 DEF CallOK, Tries, Runs
<1>7. CallOK(c, z, index, held)
  BY <1>4, <1>5, <1>6 DEF CallOK
<1>8. QED
  BY <1>1, <1>7, OneCall

\* A send or an inbox is answered, and the index becomes i.
LEMMA AnswerKeeps ==
    ASSUME TypeOK, CallsOK, NEW c \in Call, c \notin View, NEW i, EndCall(c, i), UNCHANGED held
    PROVE  CallsOK'
<1> DEFINE z == [Idle EXCEPT !.pc = "ended"]
<1>1. /\ index' = i
      /\ \A d \in Call : call'[d] = IF d = c THEN z ELSE IF i = index THEN call[d]
                                    ELSE [call[d] EXCEPT !.steady = {}]
  BY DEF EndCall
<1>2. z \in Request /\ z.steady = {}
  BY IdleOK DEF Request
<1> HIDE DEF z
<1>3. CallOK(c, z, i, held)
  BY <1>2 DEF CallOK, Tries
<1>4. ASSUME NEW d \in Call PROVE CallOK(d, call'[d], i, held)
  <2>1. CallOK(d, call[d], index, held)
    BY DEF CallsOK
  <2>2. CallOK(d, [call[d] EXCEPT !.steady = {}], i, held)
    BY <2>1, NothingIsSteady
  <2>3. QED
    BY <1>1, <1>3, <2>1, <2>2
<1>5. QED
  BY <1>1, <1>4 DEF CallsOK

LEMMA ViewAnswerKeeps ==
    ASSUME TypeOK, CallsOK, NEW c \in Call, ViewAnswered(c) PROVE CallsOK'
<1> DEFINE r == call[c]
           all == r.result \union held[r.at]
           a == [r EXCEPT !.result = all]
           z == IF IsLast(c) THEN [a EXCEPT !.pc = "ended"]
                ELSE [a EXCEPT !.pc = "next", !.attempt = @ + 1, !.at = 0]
<1>1. /\ call' = [call EXCEPT ![c] = z] /\ UNCHANGED <<index, held>>
      /\ r.pc = "calling" /\ c \in View
  BY DEF ViewAnswered, GoOn, Calls
<1>2. /\ CallOK(c, r, index, held) /\ r \in Request /\ r.attempt \in Server
      /\ r.at \in Server /\ held \in [Server -> SUBSET Message]
  BY Types DEF CallsOK, Request
<1>3. /\ ~IsLast(c) => r.attempt + 1 \in Server
      /\ IsLast(c) => \A s \in Server : s <= r.attempt
  BY <1>2, NextAttempt
<1>4. all \in SUBSET Message /\ r.result \subseteq all /\ held[r.at] \subseteq all
  BY <1>2 DEF Request
<1> HIDE DEF all, r
<1>5. /\ z \in Request /\ z.result = all /\ z.owed = r.owed
      /\ IsLast(c) => z.pc = "ended"
      /\ ~IsLast(c) => z.pc = "next" /\ z.attempt = r.attempt + 1
  BY <1>2, <1>3, <1>4, ServersOK DEF Request
<1> HIDE DEF z
<1>6. /\ \A s \in Server : r.owed[s] \subseteq held[s] /\ r.at = r.attempt
      /\ \A s \in Server : s < r.attempt => r.owed[s] \subseteq r.result
  BY <1>1, <1>2 DEF CallOK, ViewSoFar, Runs
<1>7. \A s \in Server : s <= r.attempt => r.owed[s] \subseteq all
  <2>1. ASSUME NEW s \in Server, s < r.attempt PROVE r.owed[s] \subseteq all
    BY <1>4, <1>6, <2>1
  <2>2. r.owed[r.attempt] \subseteq all
    BY <1>2, <1>4, <1>6
  <2>3. \A s \in Server : s <= r.attempt => s < r.attempt \/ s = r.attempt
    BY <1>2 DEF Server
  <2>4. QED
    BY <2>1, <2>2, <2>3
<1>8. ViewSoFar(z, held)
  <2>1. CASE IsLast(c)
    BY <1>3, <1>5, <1>6, <1>7, <2>1 DEF ViewSoFar, Runs
  <2>2. CASE ~IsLast(c)
    <3>1. \A s \in Server : s < z.attempt => s <= r.attempt
      BY <1>2, <1>5, <2>2 DEF Server
    <3>2. QED
      BY <1>5, <1>6, <1>7, <2>2, <3>1 DEF ViewSoFar, Runs
  <2>3. QED
    BY <2>1, <2>2
<1>9. CallOK(c, z, index, held)
  BY <1>1, <1>5, <1>8 DEF CallOK
<1>10. QED
  BY <1>1, <1>9, OneCall

LEMMA FailureKeeps ==
    ASSUME TypeOK, CallsOK, NEW c \in Call, CallFails(c) PROVE CallsOK'
<1> DEFINE r == call[c]
           w == Without(r, r.at)
           pc == Outcome(c)
           z == IF IsLast(c) THEN [w EXCEPT !.pc = pc]
                ELSE [w EXCEPT !.pc = "next", !.attempt = @ + 1, !.at = 0]
<1>1. /\ call' = [call EXCEPT ![c] = z] /\ UNCHANGED <<index, held>>
      /\ r.pc \in {"calling", "broken"}
  BY DEF CallFails, GoOn, NoAnswer
<1>2. /\ CallOK(c, r, index, held) /\ r \in Request /\ r.attempt \in Server
      /\ r.at \in Server /\ index \in Server
  BY Types DEF CallsOK, Request
<1>3. /\ ~IsLast(c) => r.attempt + 1 \in Server
      /\ IsLast(c) => \A s \in Server : s <= r.attempt
  BY <1>2, NextAttempt
<1> HIDE DEF r
<1>4. /\ w \in Request /\ w.pc = r.pc /\ w.attempt = r.attempt /\ w.at = r.at
      /\ w.result = r.result /\ w.steady = r.steady \ {r.at}
      /\ \A x \in Server : w.owed[x] = IF x = r.at THEN {} ELSE r.owed[x]
      /\ CallOK(c, w, index, held)
  <2>1. CallOK(c, w, index, held)
    BY <1>2, ServerFailsIt
  <2>2. QED
    BY <1>2, <2>1, WithoutOK DEF Request
<1>5. /\ pc \in {"ended", "failed"} /\ (c \in View => pc = "ended")
  BY DEF Outcome
<1> HIDE DEF w, pc
<1>6. /\ z \in Request /\ z.result = w.result /\ z.owed = w.owed /\ z.steady = w.steady
      /\ IsLast(c) => z.pc = pc
      /\ ~IsLast(c) => z.pc = "next" /\ z.attempt = r.attempt + 1
  BY <1>3, <1>4, <1>5, ServersOK DEF Request
<1> HIDE DEF z
<1>7. \A s \in Server : s <= r.attempt => s < r.attempt \/ s = r.attempt
  BY <1>2 DEF Server
<1>8. ~IsLast(c) => \A s \in Server : s < z.attempt => s <= r.attempt
  BY <1>2, <1>6 DEF Server
<1>9. ASSUME c \in View PROVE ViewSoFar(z, held)
  <2>1. /\ \A s \in Server : w.owed[s] \subseteq held[s]
        /\ \A s \in Server : s < r.attempt => w.owed[s] \subseteq w.result
        /\ r.at = r.attempt
    BY <1>1, <1>2, <1>4, <1>9 DEF CallOK, ViewSoFar, Runs
  <2>2. w.owed[r.attempt] = {}
    BY <1>2, <1>4, <2>1
  <2>3. \A s \in Server : s <= r.attempt => w.owed[s] \subseteq w.result
    BY <1>7, <2>1, <2>2
  <2>4. CASE IsLast(c)
    BY <1>3, <1>5, <1>6, <1>9, <2>1, <2>3, <2>4 DEF ViewSoFar, Runs
  <2>5. CASE ~IsLast(c)
    BY <1>6, <1>8, <2>1, <2>3, <2>5 DEF ViewSoFar, Runs
  <2>6. QED
    BY <2>4, <2>5
<1>10. ASSUME c \notin View PROVE Tries(z, index)
  <2>1. ASSUME NEW s \in w.steady, NEW k \in Server, k <= r.attempt
        PROVE  (index + k) % NumServers # s
    <3>1. s \in r.steady /\ s # r.at
      BY <1>4
    <3>2. /\ k < r.attempt => (index + k) % NumServers # s
          /\ r.at = (index + r.attempt) % NumServers
      BY <1>1, <1>2, <1>10, <3>1 DEF CallOK, Tries, Runs
    <3>3. QED
      BY <1>7, <2>1, <3>1, <3>2
  <2>2. CASE IsLast(c)
    <3>1. ASSUME NEW s \in w.steady PROVE FALSE
      <4>1. s \in Server
        BY <1>4 DEF Request
      <4>2. PICK k \in Server : (index + k) % NumServers = s
        BY <1>2, <4>1, EveryServerIsTried
      <4>3. QED
        BY <1>3, <2>1, <2>2, <4>2
    <3>2. QED
      BY <1>6, <3>1 DEF Tries
  <2>3. CASE ~IsLast(c)
    BY <1>6, <1>8, <2>1, <2>3 DEF Tries, Runs
  <2>4. QED
    BY <2>2, <2>3
<1>11. CallOK(c, z, index, held)
  BY <1>6, <1>9, <1>10 DEF CallOK
<1>12. QED
  BY <1>1, <1>11, OneCall

\* The disks grow, and a crash takes a server from every request.
LEMMA ClusterKeeps ==
    ASSUME TypeOK, CallsOK,
           \/ \E s \in Server, m \in Message : Handle(s, m)
           \/ \E p, s \in Server : Spread(p, s)
           \/ \E s \in Server : Crash(s) \/ Start(s)
    PROVE  CallsOK'
<1>1. held \in [Server -> SUBSET Message]
  BY Types
<1>2. ASSUME UNCHANGED <<index, call>>, \A s \in Server : held[s] \subseteq held'[s]
      PROVE  CallsOK'
  <2>1. \A d \in Call : CallOK(d, call[d], index, held')
    BY <1>2, MoreIsHeld DEF CallsOK
  <2>2. QED
    BY <1>2, <2>1 DEF CallsOK
<1>3. ASSUME NEW s \in Server, NEW m \in Message, Handle(s, m) PROVE CallsOK'
  <2>1. UNCHANGED <<index, call>> /\ held' = [held EXCEPT ![s] = held[s] \union {m}]
    BY <1>3 DEF Handle
  <2>2. QED
    BY <1>1, <1>2, <2>1
<1>4. ASSUME NEW p \in Server, NEW s \in Server, Spread(p, s) PROVE CallsOK'
  <2>1. UNCHANGED <<index, call>> /\ held' = [held EXCEPT ![s] = held[s] \union held[p]]
    BY <1>4 DEF Spread
  <2>2. QED
    BY <1>1, <1>2, <2>1
<1>5. ASSUME NEW s \in Server, Start(s) PROVE CallsOK'
  BY <1>2, <1>5 DEF Start
<1>6. ASSUME NEW s \in Server, Crash(s) PROVE CallsOK'
  <2>1. /\ UNCHANGED <<index, held>>
        /\ \E late \in SUBSET (Inbox \union (held[s] \ requests[s])) : \A d \in Call :
             call'[d] = [Without(call[d], s) EXCEPT
                            !.pc = IF @ = "calling" /\ call[d].at = s /\ d \notin late
                                   THEN "broken" ELSE @]
    BY <1>6 DEF Crash
  <2>2. ASSUME NEW d \in Call PROVE CallOK(d, call'[d], index, held)
    <3>1. CallOK(d, call[d], index, held)
      BY DEF CallsOK
    <3> DEFINE w == Without(call[d], s)
    <3>2. CallOK(d, w, index, held) /\ w \in Request
      BY <3>1, ServerFailsIt DEF CallOK
    <3>3. CallOK(d, [w EXCEPT !.pc = IF @ = "calling" /\ call[d].at = s
                                     THEN "broken" ELSE @], index, held)
      BY <3>1, ServerFailsIt
    <3>4. PICK late : call'[d] = [w EXCEPT !.pc = IF @ = "calling" /\ call[d].at = s /\ d \notin late
                                                  THEN "broken" ELSE @]
      BY <2>1
    <3> HIDE DEF w
    <3>5. [w EXCEPT !.pc = w.pc] = w
      BY <3>2 DEF Request
    <3>6. CASE d \in late
      BY <3>2, <3>4, <3>5, <3>6
    <3>7. CASE d \notin late
      BY <3>3, <3>4, <3>7
    <3>8. QED
      BY <3>6, <3>7
  <2>3. QED
    BY <2>1, <2>2 DEF CallsOK
<1>7. QED
  BY <1>3, <1>4, <1>5, <1>6

LEMMA CallsNext == ASSUME TypeOK, CallsOK, [Next]_vars PROVE CallsOK'
<1>1. ASSUME NEW c \in Call, SendAnswered(c) PROVE CallsOK'
  <2>1. c \notin View /\ EndCall(c, call[c].at) /\ UNCHANGED held
    BY <1>1, CallAssumption DEF SendAnswered, Calls, CallAssumption
  <2>2. QED
    BY <2>1, AnswerKeeps
<1>2. ASSUME NEW c \in Call, InboxAnswered(c) PROVE CallsOK'
  <2>1. c \notin View /\ EndCall(c, Remembered(c)) /\ UNCHANGED held
    BY <1>2, CallAssumption DEF InboxAnswered, Calls, CallAssumption
  <2>2. QED
    BY <2>1, AnswerKeeps
<1>3. ASSUME UNCHANGED vars PROVE CallsOK'
  BY <1>3 DEF CallsOK, vars
<1>4. QED
  BY <1>1, <1>2, <1>3, BeginKeeps, TryKeeps, ViewAnswerKeeps, FailureKeeps, ClusterKeeps
  DEF Next, Step

LEMMA CallsInit == Init => TypeOK /\ CallsOK
<1> SUFFICES ASSUME Init PROVE TypeOK /\ CallsOK
  OBVIOUS
<1>1. /\ index = 0 /\ call = [c \in Call |-> Idle] /\ requests = [s \in Server |-> {}]
      /\ held = [s \in Server |-> {}] /\ up = Server /\ failures = 0
  BY DEF Init
<1>2. TypeOK
  BY <1>1, IdleOK, ServersOK, MaxFailuresOK, Types
<1>3. Idle.pc = "idle"
  BY DEF Idle
<1>4. \A c \in Call : CallOK(c, Idle, index, held)
  BY <1>3, IdleOK DEF CallOK, ViewSoFar, Tries, Runs
<1>5. CallsOK
  BY <1>1, <1>4 DEF CallsOK
<1>6. QED
  BY <1>2, <1>5

LEMMA CallIsFunction ==
    ASSUME TypeOK, [Next]_vars PROVE call' = [c \in Call |-> call'[c]]
<1>1. call = [c \in Call |-> call[c]]
  BY Types
<1>2. ASSUME NEW c \in Call, NEW z, call' = [call EXCEPT ![c] = z]
      PROVE  call' = [d \in Call |-> call'[d]]
  BY <1>1, <1>2
<1>3. ASSUME NEW c \in Call, Begin(c) \/ Step(c) PROVE call' = [d \in Call |-> call'[d]]
  <2>1. CASE SendAnswered(c) \/ InboxAnswered(c)
    BY <2>1 DEF SendAnswered, InboxAnswered, EndCall
  <2>2. CASE Begin(c)
    BY <1>2, <2>2 DEF Begin
  <2>3. CASE ViewAnswered(c)
    BY <1>2, <2>3 DEF ViewAnswered, GoOn
  <2>4. CASE CallFails(c)
    BY <1>2, <2>4 DEF CallFails, GoOn
  <2>5. CASE Try(c)
    BY <1>1, <2>5 DEF Try
  <2>6. QED
    BY <1>3, <2>1, <2>2, <2>3, <2>4, <2>5 DEF Step
<1>4. ASSUME NEW s \in Server, Crash(s) PROVE call' = [d \in Call |-> call'[d]]
  BY <1>4 DEF Crash
<1>5. CASE UNCHANGED call
  BY <1>1, <1>5
<1>6. QED
  BY <1>3, <1>4, <1>5 DEF Next, Handle, Spread, Start, vars

LEMMA TypeNext == ASSUME TypeOK, CallsOK, [Next]_vars PROVE TypeOK'
<1>1. call' \in [Call -> Request]
  <2>1. \A c \in Call : call'[c] \in Request
    BY CallsNext DEF CallsOK, CallOK
  <2>2. QED
    BY <2>1, CallIsFunction
<1>2. /\ index \in Server /\ call \in [Call -> Request]
      /\ requests \in [Server -> SUBSET Message] /\ held \in [Server -> SUBSET Message]
      /\ up \subseteq Server /\ failures \in 0..MaxFailures
  BY Types
<1> DEFINE Others == /\ index' \in Server
                     /\ requests' \in [Server -> SUBSET Message]
                     /\ held' \in [Server -> SUBSET Message]
                     /\ up' \subseteq Server /\ failures' \in 0..MaxFailures
<1>3. \A c \in Call : call[c].at \in Server
  BY <1>2 DEF Request
<1>4. ASSUME NEW c \in Call, Begin(c) PROVE Others
  BY <1>2, <1>4 DEF Begin
<1>5. ASSUME NEW c \in Call, Try(c) PROVE Others
  BY <1>2, <1>5 DEF Try
<1>6. ASSUME NEW c \in Call, SendAnswered(c) PROVE Others
  BY <1>2, <1>3, <1>6 DEF SendAnswered, EndCall
<1>7. ASSUME NEW c \in Call, InboxAnswered(c) PROVE Others
  BY <1>2, <1>3, <1>7 DEF InboxAnswered, EndCall, Remembered
<1>8. ASSUME NEW c \in Call, ViewAnswered(c) PROVE Others
  BY <1>2, <1>8 DEF ViewAnswered
<1>9. ASSUME NEW c \in Call, CallFails(c) PROVE Others
  BY <1>2, <1>9, MaxFailuresOK DEF CallFails, NoAnswer
<1>10. ASSUME NEW s \in Server, NEW m \in Message, Handle(s, m) PROVE Others
  BY <1>2, <1>10 DEF Handle
<1>11. ASSUME NEW p \in Server, NEW s \in Server, Spread(p, s) PROVE Others
  BY <1>2, <1>11 DEF Spread
<1>12. ASSUME NEW s \in Server, Crash(s) PROVE Others
  BY <1>2, <1>12, MaxFailuresOK DEF Crash
<1>13. ASSUME NEW s \in Server, Start(s) PROVE Others
  BY <1>2, <1>13 DEF Start
<1>14. ASSUME UNCHANGED vars PROVE Others
  BY <1>2, <1>14 DEF vars
<1> HIDE DEF Others
<1>15. Others
  BY <1>4, <1>5, <1>6, <1>7, <1>8, <1>9, <1>10, <1>11, <1>12, <1>13, <1>14 DEF Next, Step
<1>16. QED
  BY <1>1, <1>15 DEF Others, TypeOK, Request

-----------------------------------------------------------------------------
(* The steps of the servers and the client, as steps of ReplicatedInbox.   *)

Confirmed == {m \in Message : call[m].pc = "ended"}

\* An answer to the send of c is all that makes a send end in success.
LEMMA OnlyAnswersConfirm ==
    ASSUME TypeOK, [Next]_vars
    PROVE  \/ Confirmed' = Confirmed
           \/ \E c \in Message : SendAnswered(c) /\ Confirmed' = Confirmed \union {c}
<1>1. call \in [Call -> Request] /\ Message \subseteq Call
  BY Types DEF Call
<1> DEFINE Same(d) == call'[d].pc = "ended" <=> call[d].pc = "ended"
<1>2. ASSUME \A d \in Message : Same(d) PROVE Confirmed' = Confirmed
  BY <1>2 DEF Confirmed
<1>3. ASSUME NEW c \in Call, NEW z, call' = [call EXCEPT ![c] = z],
             c \in Message => z.pc # "ended" /\ call[c].pc # "ended"
      PROVE  Confirmed' = Confirmed
  <2>1. \A d \in Message : call'[d] = IF d = c THEN z ELSE call[d]
    BY <1>1, <1>3
  <2>2. \A d \in Message : Same(d)
    BY <1>3, <2>1
  <2>3. QED
    BY <1>2, <2>2
<1>4. ASSUME NEW c \in Call, Begin(c) PROVE Confirmed' = Confirmed
  <2> DEFINE steady == IF c \in View THEN {} ELSE up
             owed == [s \in Server |-> IF c \in View /\ s \in up THEN held[s] ELSE {}]
             z == [Idle EXCEPT !.pc = "next", !.steady = steady, !.owed = owed]
  <2>1. call' = [call EXCEPT ![c] = z] /\ (c \in Message => call[c].pc = "idle")
    BY <1>4 DEF Begin
  <2> HIDE DEF steady, owed
  <2>2. z.pc = "next"
    BY DEF Idle
  <2> HIDE DEF z
  <2>3. QED
    BY <1>3, <2>1, <2>2
<1>5. ASSUME NEW c \in Call, Try(c) PROVE Confirmed' = Confirmed
  <2> DEFINE s == IF c \in View THEN call[c].attempt ELSE Rotated(call[c].attempt)
             pc == IF s \in up THEN "calling" ELSE "broken"
             z == [call[c] EXCEPT !.pc = pc, !.at = s]
  <2>1. call' = [call EXCEPT ![c] = z] /\ call[c].pc = "next"
    BY <1>1, <1>5 DEF Try
  <2>2. pc # "ended"
    OBVIOUS
  <2> HIDE DEF s, pc
  <2>3. z.pc = pc
    BY <1>1 DEF Request
  <2> HIDE DEF z
  <2>4. QED
    BY <1>3, <2>1, <2>2, <2>3
<1>6. ASSUME NEW c \in Call, NEW i, EndCall(c, i)
      PROVE  /\ call'[c].pc = "ended"
             /\ \A d \in Call : d # c => call'[d].pc = call[d].pc
  <2>1. \A d \in Call : call'[d] = IF d = c THEN [Idle EXCEPT !.pc = "ended"]
                                   ELSE IF i = index THEN call[d]
                                   ELSE [call[d] EXCEPT !.steady = {}]
    BY <1>6 DEF EndCall
  <2>2. [Idle EXCEPT !.pc = "ended"].pc = "ended"
    BY DEF Idle
  <2>3. \A d \in Call : [call[d] EXCEPT !.steady = {}].pc = call[d].pc
    BY <1>1 DEF Request
  <2>4. QED
    BY <2>1, <2>2, <2>3
<1>7. ASSUME NEW c \in Call, SendAnswered(c)
      PROVE  c \in Message /\ Confirmed' = Confirmed \union {c}
  <2>1. c \in Message /\ EndCall(c, call[c].at)
    BY <1>7 DEF SendAnswered, Calls
  <2>2. call'[c].pc = "ended" /\ \A d \in Call : d # c => call'[d].pc = call[d].pc
    BY <1>6, <2>1
  <2>3. QED
    BY <1>1, <2>1, <2>2 DEF Confirmed
<1>8. ASSUME NEW c \in Call, InboxAnswered(c) PROVE Confirmed' = Confirmed
  <2>1. c \notin Message /\ EndCall(c, Remembered(c))
    BY <1>8, CallAssumption DEF InboxAnswered, Calls, CallAssumption
  <2>2. \A d \in Call : d # c => call'[d].pc = call[d].pc
    BY <1>6, <2>1
  <2>3. QED
    BY <1>1, <1>2, <2>1, <2>2
<1>9. ASSUME NEW c \in Call, ViewAnswered(c) PROVE Confirmed' = Confirmed
  <2>1. c \notin Message
    BY <1>9, CallAssumption DEF ViewAnswered, Calls, CallAssumption
  <2>2. QED
    BY <1>3, <1>9, <2>1 DEF ViewAnswered, GoOn
<1>10. ASSUME NEW c \in Call, CallFails(c) PROVE Confirmed' = Confirmed
  <2> DEFINE w == Without(call[c], call[c].at)
             z == IF IsLast(c) THEN [w EXCEPT !.pc = Outcome(c)]
                  ELSE [w EXCEPT !.pc = "next", !.attempt = @ + 1, !.at = 0]
  <2>1. call' = [call EXCEPT ![c] = z] /\ call[c].pc \in {"calling", "broken"}
    BY <1>10 DEF CallFails, GoOn, NoAnswer
  <2>2. c \in Message => Outcome(c) = "failed"
    BY CallAssumption DEF Outcome, CallAssumption
  <2>3. w \in Request
    BY <1>1, WithoutOK DEF Request
  <2> HIDE DEF w
  <2>4. z.pc = IF IsLast(c) THEN Outcome(c) ELSE "next"
    BY <2>3 DEF Request
  <2> HIDE DEF z
  <2>5. QED
    BY <1>3, <2>1, <2>2, <2>4
<1>11. ASSUME NEW s \in Server, Crash(s) PROVE Confirmed' = Confirmed
  <2>1. ASSUME NEW d \in Message PROVE Same(d)
    <3> DEFINE w == Without(call[d], s)
    <3>0. PICK late : call'[d] = [w EXCEPT !.pc = IF @ = "calling" /\ call[d].at = s /\ d \notin late
                                                  THEN "broken" ELSE @]
      BY <1>1, <1>11 DEF Crash
    <3> DEFINE pc == IF w.pc = "calling" /\ call[d].at = s /\ d \notin late THEN "broken" ELSE w.pc
               z == [w EXCEPT !.pc = pc]
    <3>1. call'[d] = z
      BY <3>0
    <3>2. w \in Request /\ w.pc = call[d].pc
      BY <1>1, WithoutOK
    <3> HIDE DEF w
    <3>3. pc = "ended" <=> call[d].pc = "ended"
      BY <3>2
    <3> HIDE DEF pc
    <3>4. z.pc = pc
      BY <3>2 DEF Request
    <3> HIDE DEF z
    <3>5. QED
      BY <3>1, <3>3, <3>4
  <2>2. QED
    BY <1>2, <2>1
<1>12. CASE UNCHANGED call
  BY <1>12 DEF Confirmed
<1>13. QED
  BY <1>4, <1>5, <1>7, <1>8, <1>9, <1>10, <1>11, <1>12
  DEF Next, Step, Handle, Spread, Start, vars

LEMMA ClusterStep ==
    ASSUME TypeOK, [Next]_vars PROVE [Cluster!Next]_<<held, Confirmed>>
<1>1. held \in [Server -> SUBSET Message] /\ call \in [Call -> Request]
  BY Types
<1>2. ASSUME NEW s \in Server, NEW m \in Message, Handle(s, m), Confirmed' = Confirmed
      PROVE  Cluster!Next
  <2>1. Cluster!Submit(s, m)
    BY <1>2 DEF Cluster!Submit, Handle, Confirmed
  <2>2. QED
    BY <2>1 DEF Cluster!Next
<1>3. ASSUME NEW p \in Server, NEW s \in Server, Spread(p, s), Confirmed' = Confirmed
      PROVE  Cluster!Next
  <2>1. held' = [held EXCEPT ![s] = held[s] \union held[p]] /\ held[p] \in SUBSET held[p]
    BY <1>3 DEF Spread
  <2>2. Cluster!Spread(p, s)
    BY <1>3, <2>1 DEF Cluster!Spread, Confirmed
  <2>3. QED
    BY <2>2 DEF Cluster!Next
<1>4. ASSUME NEW c \in Message, SendAnswered(c), Confirmed' = Confirmed \union {c}
      PROVE  Cluster!Next
  <2>1. c \in held[call[c].at] /\ UNCHANGED held
    BY <1>4 DEF SendAnswered
  <2>2. call[c].at \in Server
    BY <1>1 DEF Call, Request
  <2>3. Cluster!Confirm(c)
    BY <1>4, <2>1, <2>2 DEF Cluster!Confirm, Confirmed
  <2>4. QED
    BY <2>3 DEF Cluster!Next
<1>5. \/ UNCHANGED held
      \/ \E s \in Server, m \in Message : Handle(s, m)
      \/ \E p, s \in Server : Spread(p, s)
  BY DEF Next, Step, Begin, Try, SendAnswered, InboxAnswered, ViewAnswered, CallFails, Crash,
     Start, vars
<1>6. CASE Confirmed' = Confirmed
  BY <1>2, <1>3, <1>5, <1>6
<1>7. QED
  BY <1>4, <1>6, OnlyAnswersConfirm

-----------------------------------------------------------------------------
(* Theorems.                                                               *)

\* TypeOK, with the requests' invariant: an attempt goes to a server of the list.
THEOREM TypeCorrect == Spec => [](TypeOK /\ CallsOK)
<1>1. TypeOK /\ CallsOK /\ [Next]_vars => (TypeOK /\ CallsOK)'
  BY TypeNext, CallsNext
<1>2. QED
  BY <1>1, CallsInit, PTL DEF Spec

\* GivesUpForAReason: however the other requests, the crashes and the timeouts
\* fall, a send that raised, or an inbox that stayed empty, tried each server that
\* ran, and each failed it (client.py:77-93, 130-163).
THEOREM GivingUpHasAReason == Spec => []GivesUpForAReason
<1>1. TypeOK /\ CallsOK => GivesUpForAReason
  BY CallAssumption DEF CallAssumption, CallsOK, CallOK, Tries, GivesUpForAReason, Call
<1>2. QED
  BY <1>1, TypeCorrect, PTL

\* ViewIsComplete: get_all_messages loses nothing of what a server it could reach
\* held when it was called (web_client.py:118-147).
THEOREM ViewsAreComplete == Spec => []ViewIsComplete
<1>1. TypeOK /\ CallsOK => ViewIsComplete
  BY DEF CallsOK, CallOK, ViewSoFar, ViewIsComplete, Call
<1>2. QED
  BY <1>1, TypeCorrect, PTL

\* ImplementsInbox: a user is told of success only when some server keeps the
\* message, and no fail-over takes one back.
THEOREM Refinement == Spec => ImplementsInbox
<1>1. Init => Cluster!Init
  <2>1. Init => call = [c \in Call |-> Idle] /\ held = [s \in Server |-> {}]
    BY DEF Init
  <2>2. Idle.pc = "idle" /\ Message \subseteq Call
    BY DEF Idle, Call
  <2>3. QED
    BY <2>1, <2>2 DEF Cluster!Init
<1>2. TypeOK /\ [Next]_vars
        => [Cluster!Next]_<<held, {m \in Message : call[m].pc = "ended"}>>
  BY ClusterStep DEF Confirmed
<1>3. QED
  BY <1>1, <1>2, TypeCorrect, PTL DEF Spec, ImplementsInbox, Cluster!Spec

-----------------------------------------------------------------------------
(* The course of a request, and what moves the index: the steps behind     *)
(* FindsTheServer.                                                         *)

\* The steps request c has left: two for each server not tried yet.
Effort(c) ==
    LET r == call[c]
    IN IF Runs(r) THEN 2 * (NumServers - r.attempt) - (IF r.pc = "next" THEN 0 ELSE 1) ELSE 0

\* A request makes at most NumServers attempts, each of them one RPC or none, and
\* ends, wherever the other requests move the index meanwhile (client.py:77-93,
\* 130-163; web_client.py:123-137).
RequestsAreFinite ==
    [][\A c \in Call : Effort(c) > 0 =>
         Effort(c)' <= Effort(c) /\ (Step(c) => Effort(c)' < Effort(c))]_vars

\* The requests that still wait for the answer of another server than s.
Stragglers(s) == {c \in Call : call[c].pc = "calling" /\ call[c].at # s}

\* Once s is the one server left running, nobody begins to wait for another, and
\* only the late answer of one that was waited for already moves the index away
\* from s, each once (client.py:84, 153).
OnlyLateAnswersMislead ==
    [][\A s \in Server : up = {s} /\ up' = {s} =>
         /\ Stragglers(s)' \subseteq Stragglers(s)
         /\ \/ index' \in {index, s}
            \/ \E c \in Stragglers(s) \ Stragglers(s)' : index' = call[c].at]_vars

\* What a step of another request, or of the servers, leaves of a request r.
SameCourse(r, z) ==
    /\ z.attempt = r.attempt /\ z.at = r.at
    /\ z.pc = r.pc \/ (r.pc = "calling" /\ z.pc = "broken")

\* What a step of a request's own makes of it.
Advances(r, z) ==
    \/ r.pc = "next" /\ z.pc \in {"calling", "broken"} /\ z.attempt = r.attempt
    \/ r.pc \in {"calling", "broken"} /\ z.pc \in {"ended", "failed"}
    \/ r.pc \in {"calling", "broken"} /\ z.pc = "next" /\ z.attempt = r.attempt + 1

LEMMA EndCallMoves ==
    ASSUME TypeOK, NEW c \in Call, NEW i, EndCall(c, i)
    PROVE  /\ index' = i /\ call'[c].pc = "ended"
           /\ \A d \in Call : d # c => SameCourse(call[d], call'[d])
<1>1. call \in [Call -> Request]
  BY Types
<1>2. \A d \in Call : call'[d] = IF d = c THEN [Idle EXCEPT !.pc = "ended"]
                                 ELSE IF i = index THEN call[d]
                                 ELSE [call[d] EXCEPT !.steady = {}]
  BY DEF EndCall
<1>3. [Idle EXCEPT !.pc = "ended"].pc = "ended"
  BY DEF Idle
<1>4. ASSUME NEW d \in Call PROVE SameCourse(call[d], [call[d] EXCEPT !.steady = {}])
  <2> DEFINE z == [call[d] EXCEPT !.steady = {}]
  <2>1. z.pc = call[d].pc /\ z.attempt = call[d].attempt /\ z.at = call[d].at
    BY <1>1 DEF Request
  <2>2. QED
    BY <2>1 DEF SameCourse
<1>5. \A d \in Call : SameCourse(call[d], call[d])
  BY DEF SameCourse
<1>6. ASSUME NEW d \in Call, d # c PROVE SameCourse(call[d], call'[d])
  BY <1>2, <1>4, <1>5, <1>6
<1>7. index' = i /\ call'[c].pc = "ended"
  BY <1>2, <1>3 DEF EndCall
<1>8. QED
  BY <1>6, <1>7

LEMMA TryMoves ==
    ASSUME TypeOK, NEW c \in Call, Try(c)
    PROVE  /\ Advances(call[c], call'[c])
           /\ call'[c].pc = "calling" => call'[c].at \in up
           /\ \A d \in Call : d # c => call'[d] = call[d]
<1> DEFINE s == IF c \in View THEN call[c].attempt ELSE Rotated(call[c].attempt)
           pc == IF s \in up THEN "calling" ELSE "broken"
           z == [call[c] EXCEPT !.pc = pc, !.at = s]
<1>1. call \in [Call -> Request]
  BY Types
<1>2. /\ call' = [call EXCEPT ![c] = z] /\ call[c].pc = "next"
  BY <1>1 DEF Try
<1>3. pc \in {"calling", "broken"} /\ (pc = "calling" => s \in up)
  OBVIOUS
<1> HIDE DEF s, pc
<1>4. z.pc = pc /\ z.at = s /\ z.attempt = call[c].attempt
  BY <1>1 DEF Request
<1> HIDE DEF z
<1>5. \A d \in Call : call'[d] = IF d = c THEN z ELSE call[d]
  BY <1>1, <1>2
<1>6. QED
  BY <1>2, <1>3, <1>4, <1>5 DEF Advances

\* The next attempt of c, after an answer or a failure.
LEMMA GoOnMoves ==
    ASSUME TypeOK, NEW c \in Call, NEW r \in Request, r.attempt = call[c].attempt,
           call[c].pc \in {"calling", "broken"},
           NEW pc \in {"ended", "failed"}, GoOn(c, r, pc)
    PROVE  /\ Advances(call[c], call'[c]) /\ call'[c].pc # "calling"
           /\ \A d \in Call : d # c => call'[d] = call[d]
<1> DEFINE z == IF IsLast(c) THEN [r EXCEPT !.pc = pc]
                ELSE [r EXCEPT !.pc = "next", !.attempt = @ + 1, !.at = 0]
<1>1. call \in [Call -> Request]
  BY Types
<1>2. \A d \in Call : call'[d] = IF d = c THEN z ELSE call[d]
  BY <1>1 DEF GoOn
<1>3. /\ IsLast(c) => z.pc = pc
      /\ ~IsLast(c) => z.pc = "next" /\ z.attempt = r.attempt + 1
  BY DEF Request
<1> HIDE DEF z
<1>4. QED
  BY <1>2, <1>3 DEF Advances

LEMMA ViewAnswerMoves ==
    ASSUME TypeOK, NEW c \in Call, ViewAnswered(c)
    PROVE  /\ Advances(call[c], call'[c]) /\ call'[c].pc # "calling"
           /\ \A d \in Call : d # c => call'[d] = call[d]
<1> DEFINE all == call[c].result \union held[call[c].at]
           r == [call[c] EXCEPT !.result = all]
<1>1. call[c] \in Request /\ call[c].at \in Server /\ held \in [Server -> SUBSET Message]
  BY Types DEF Request
<1>2. all \in SUBSET Message
  BY <1>1 DEF Request
<1>3. call[c].pc = "calling" /\ GoOn(c, r, "ended")
  BY DEF ViewAnswered, Calls
<1> HIDE DEF all
<1>4. r \in Request /\ r.attempt = call[c].attempt
  BY <1>1, <1>2 DEF Request
<1> HIDE DEF r
<1>5. QED
  BY <1>3, <1>4, GoOnMoves

LEMMA FailureMoves ==
    ASSUME TypeOK, NEW c \in Call, CallFails(c)
    PROVE  /\ Advances(call[c], call'[c]) /\ call'[c].pc # "calling"
           /\ \A d \in Call : d # c => call'[d] = call[d]
<1> DEFINE r == Without(call[c], call[c].at)
<1>1. call[c] \in Request /\ call[c].at \in Server
  BY Types DEF Request
<1>2. r \in Request /\ r.attempt = call[c].attempt
  BY <1>1, WithoutOK
<1>3. call[c].pc \in {"calling", "broken"} /\ GoOn(c, r, Outcome(c))
  BY DEF CallFails, NoAnswer
<1>4. Outcome(c) \in {"ended", "failed"}
  BY DEF Outcome
<1> HIDE DEF r
<1>5. QED
  BY <1>2, <1>3, <1>4, GoOnMoves

LEMMA BeginMoves ==
    ASSUME TypeOK, NEW c \in Call, Begin(c)
    PROVE  /\ ~Runs(call[c]) /\ call'[c].pc = "next"
           /\ \A d \in Call : d # c => call'[d] = call[d]
<1> DEFINE steady == IF c \in View THEN {} ELSE up
           owed == [s \in Server |-> IF c \in View /\ s \in up THEN held[s] ELSE {}]
           z == [Idle EXCEPT !.pc = "next", !.steady = steady, !.owed = owed]
<1>1. call \in [Call -> Request]
  BY Types
<1>2. call' = [call EXCEPT ![c] = z]
  BY DEF Begin
<1> HIDE DEF steady, owed
<1>3. z.pc = "next"
  BY DEF Idle
<1> HIDE DEF z
<1>4. ~Runs(call[c])
  BY DEF Begin, Runs
<1>5. \A d \in Call : call'[d] = IF d = c THEN z ELSE call[d]
  BY <1>1, <1>2
<1>6. QED
  BY <1>3, <1>4, <1>5

LEMMA CrashMoves ==
    ASSUME TypeOK, NEW s \in Server, Crash(s), NEW d \in Call
    PROVE  SameCourse(call[d], call'[d])
<1> DEFINE w == Without(call[d], s)
<1>1. call[d] \in Request
  BY Types
<1>2. PICK late : call'[d] = [w EXCEPT !.pc = IF @ = "calling" /\ call[d].at = s /\ d \notin late
                                              THEN "broken" ELSE @]
  BY DEF Crash
<1> DEFINE pc == IF w.pc = "calling" /\ call[d].at = s /\ d \notin late THEN "broken" ELSE w.pc
           z == [w EXCEPT !.pc = pc]
<1>3. call'[d] = z
  BY <1>2
<1>4. /\ w \in Request /\ w.pc = call[d].pc /\ w.attempt = call[d].attempt
      /\ w.at = call[d].at
  BY <1>1, WithoutOK
<1> HIDE DEF w
<1>5. pc = call[d].pc \/ (call[d].pc = "calling" /\ pc = "broken")
  BY <1>4
<1> HIDE DEF pc
<1>6. z.pc = pc /\ z.attempt = w.attempt /\ z.at = w.at
  BY <1>4 DEF Request
<1> HIDE DEF z
<1>7. QED
  BY <1>3, <1>4, <1>5, <1>6 DEF SameCourse

\* A request goes on by its own steps only.
LEMMA OwnSteps ==
    ASSUME TypeOK, NEW c \in Call, Step(c)
    PROVE  /\ Runs(call[c])
           /\ Advances(call[c], call'[c])
           /\ call'[c].pc = "calling" => call'[c].at \in up
           /\ \A d \in Call : d # c => SameCourse(call[d], call'[d])
<1>1. \A d \in Call : call'[d] = call[d] => SameCourse(call[d], call'[d])
  BY DEF SameCourse
<1>2. Advances(call[c], call'[c]) => Runs(call[c])
  BY DEF Advances, Runs
<1>3. ASSUME NEW i, EndCall(c, i), call[c].pc = "calling"
      PROVE  /\ Advances(call[c], call'[c]) /\ call'[c].pc # "calling"
             /\ \A d \in Call : d # c => SameCourse(call[d], call'[d])
  BY <1>3, EndCallMoves DEF Advances
<1>4. CASE SendAnswered(c) \/ InboxAnswered(c)
  BY <1>2, <1>3, <1>4 DEF SendAnswered, InboxAnswered, Calls
<1>5. CASE Try(c)
  BY <1>1, <1>2, <1>5, TryMoves
<1>6. CASE ViewAnswered(c)
  BY <1>1, <1>2, <1>6, ViewAnswerMoves
<1>7. CASE CallFails(c)
  BY <1>1, <1>2, <1>7, FailureMoves
<1>8. QED
  BY <1>4, <1>5, <1>6, <1>7 DEF Step

LEMMA CourseOf ==
    ASSUME TypeOK, [Next]_vars, NEW c \in Call
    PROVE  \/ Step(c)
           \/ ~Runs(call[c]) /\ call'[c].pc = "next"
           \/ SameCourse(call[c], call'[c])
<1>1. call'[c] = call[c] => SameCourse(call[c], call'[c])
  BY DEF SameCourse
<1>2. ASSUME NEW d \in Call, Begin(d)
      PROVE  \/ ~Runs(call[c]) /\ call'[c].pc = "next"
             \/ SameCourse(call[c], call'[c])
  BY <1>1, <1>2, BeginMoves
<1>3. ASSUME NEW d \in Call, Step(d) PROVE Step(c) \/ SameCourse(call[c], call'[c])
  BY <1>3, OwnSteps
<1>4. ASSUME NEW s \in Server, Crash(s) PROVE SameCourse(call[c], call'[c])
  BY <1>4, CrashMoves
<1>5. CASE UNCHANGED call
  BY <1>1, <1>5
<1>6. QED
  BY <1>2, <1>3, <1>4, <1>5 DEF Next, Handle, Spread, Start, vars

LEMMA EffortOf ==
    ASSUME TypeOK, NEW c \in Call
    PROVE  /\ Effort(c) > 0 <=> Runs(call[c])
           /\ Effort(c) \in Nat
<1>1. call[c].attempt \in Server
  BY Types DEF Request
<1>2. call[c].attempt \in Nat /\ call[c].attempt < NumServers /\ NumServers \in Nat
  BY <1>1, ServersAssumption DEF ServersAssumption, Server
<1> DEFINE a == call[c].attempt
           n == IF call[c].pc = "next" THEN 0 ELSE 1
<1>3. 2 * (NumServers - a) - n \in Nat /\ 2 * (NumServers - a) - n > 0
  BY <1>2
<1>4. Effort(c) = IF Runs(call[c]) THEN 2 * (NumServers - a) - n ELSE 0
  BY DEF Effort
<1> HIDE DEF a, n
<1>5. QED
  BY <1>3, <1>4

LEMMA EffortShrinks ==
    ASSUME TypeOK, TypeOK', [Next]_vars, NEW c \in Call, Effort(c) > 0
    PROVE  Effort(c)' <= Effort(c) /\ (Step(c) => Effort(c)' < Effort(c))
<1> DEFINE r == call[c]
           z == call'[c]
<1>1. /\ r.attempt \in Nat /\ r.attempt < NumServers /\ NumServers \in Nat
      /\ z.attempt \in Nat /\ z.attempt < NumServers
  <2>1. r.attempt \in Server /\ z.attempt \in Server
    BY Types DEF Request, TypeOK
  <2>2. QED
    BY <2>1, ServersAssumption DEF ServersAssumption, Server
<1>2. Runs(r)
  BY EffortOf
<1>3. Effort(c) = 2 * (NumServers - r.attempt) - (IF r.pc = "next" THEN 0 ELSE 1)
  BY <1>2 DEF Effort
<1>4. Effort(c)' = IF Runs(z) THEN 2 * (NumServers - z.attempt) - (IF z.pc = "next" THEN 0 ELSE 1)
                   ELSE 0
  BY DEF Effort
<1>5. Step(c) => Advances(r, z)
  BY OwnSteps
<1>6. Step(c) \/ SameCourse(r, z)
  BY <1>2, CourseOf
<1> HIDE DEF r, z
<1>7. ASSUME Advances(r, z) PROVE Effort(c)' < Effort(c)
  <2>1. CASE r.pc = "next" /\ z.pc \in {"calling", "broken"} /\ z.attempt = r.attempt
    BY <1>1, <1>3, <1>4, <2>1 DEF Runs
  <2>2. CASE r.pc \in {"calling", "broken"} /\ z.pc \in {"ended", "failed"}
    BY <1>1, <1>3, <1>4, <2>2 DEF Runs
  <2>3. CASE r.pc \in {"calling", "broken"} /\ z.pc = "next" /\ z.attempt = r.attempt + 1
    BY <1>1, <1>3, <1>4, <2>3 DEF Runs
  <2>4. QED
    BY <1>7, <2>1, <2>2, <2>3 DEF Advances
<1>8. ASSUME SameCourse(r, z) PROVE Effort(c)' <= Effort(c)
  BY <1>1, <1>2, <1>3, <1>4, <1>8 DEF SameCourse, Runs
<1>9. Effort(c)' \in Int /\ Effort(c) \in Int
  BY <1>1, <1>3, <1>4
<1>10. QED
  BY <1>5, <1>6, <1>7, <1>8, <1>9

LEMMA NobodyStartsToStraggle ==
    ASSUME TypeOK, [Next]_vars, NEW s \in Server, up = {s}
    PROVE  Stragglers(s)' \subseteq Stragglers(s)
<1> SUFFICES ASSUME NEW c \in Call, call'[c].pc = "calling", call'[c].at # s
             PROVE  call[c].pc = "calling" /\ call[c].at # s
  BY DEF Stragglers
<1>1. ~Step(c)
  BY OwnSteps
<1>2. SameCourse(call[c], call'[c])
  BY <1>1, CourseOf
<1>3. QED
  BY <1>2 DEF SameCourse

LEMMA IndexMoves ==
    ASSUME TypeOK, [Next]_vars, NEW s \in Server
    PROVE  \/ index' \in {index, s}
           \/ \E c \in Stragglers(s) \ Stragglers(s)' : index' = call[c].at
<1>1. ASSUME NEW c \in Call, NEW i, EndCall(c, i), call[c].pc = "calling",
             i \in {index, call[c].at}
      PROVE  \/ index' \in {index, s}
             \/ \E d \in Stragglers(s) \ Stragglers(s)' : index' = call[d].at
  <2>1. index' = i /\ call'[c].pc = "ended"
    BY <1>1, EndCallMoves
  <2>2. c \notin Stragglers(s)'
    BY <2>1 DEF Stragglers
  <2>3. call[c].at # s => c \in Stragglers(s)
    BY <1>1 DEF Stragglers
  <2>4. QED
    BY <1>1, <2>1, <2>2, <2>3
<1>2. ASSUME NEW c \in Call, SendAnswered(c)
      PROVE  EndCall(c, call[c].at) /\ call[c].pc = "calling"
  BY <1>2 DEF SendAnswered, Calls
<1>3. ASSUME NEW c \in Call, InboxAnswered(c)
      PROVE  /\ EndCall(c, Remembered(c)) /\ call[c].pc = "calling"
             /\ Remembered(c) \in {index, call[c].at}
  BY <1>3 DEF InboxAnswered, Calls, Remembered
<1>4. \/ index' = index
      \/ \E c \in Call : SendAnswered(c) \/ InboxAnswered(c)
  BY DEF Next, Step, Begin, Try, ViewAnswered, CallFails, Handle, Spread, Crash, Start, vars
<1>5. QED
  BY <1>1, <1>2, <1>3, <1>4

\* RequestsAreFinite: fail-over ends, after two steps for each server of the list at
\* most, even while other requests turn the list under it.
THEOREM RequestsEnd == Spec => RequestsAreFinite
<1>1. TypeOK /\ TypeOK' /\ [Next]_vars
        => [\A c \in Call : Effort(c) > 0 =>
              Effort(c)' <= Effort(c) /\ (Step(c) => Effort(c)' < Effort(c))]_vars
  BY EffortShrinks
<1>2. QED
  BY <1>1, TypeCorrect, PTL DEF Spec, RequestsAreFinite

\* OnlyLateAnswersMislead: what can move the index away from the one server that
\* runs only gets less.
THEOREM LateAnswersOnly == Spec => OnlyLateAnswersMislead
<1>1. TypeOK /\ [Next]_vars
        => [\A s \in Server : up = {s} /\ up' = {s} =>
              /\ Stragglers(s)' \subseteq Stragglers(s)
              /\ \/ index' \in {index, s}
                 \/ \E c \in Stragglers(s) \ Stragglers(s)' : index' = call[c].at]_vars
  BY NobodyStartsToStraggle, IndexMoves
<1>2. QED
  BY <1>1, TypeCorrect, PTL DEF Spec, OnlyLateAnswersMislead
=============================================================================
