------------------------------ MODULE WebChat ------------------------------
(***************************************************************************)
(* One user of the cluster: HiveChatClient of client/client.py, shared by  *)
(* the threads that serve the user's requests in web_client.py, and the    *)
(* chat view of web_client.py, which asks every server.                    *)
(*                                                                         *)
(* web_client.py keeps one client object for a user and a list of servers, *)
(* so requests that run at the same time read and write one _current_index.*)
(* The servers are what FaultTolerance shows them to be: each keeps on its *)
(* disk what it was given, and copies spread.                              *)
(*                                                                         *)
(* Left out: RETRY_DELAY, the filter by receiver and sender, the list of   *)
(* users online, and that two first requests at once each make a client.   *)
(***************************************************************************)
EXTENDS Integers, FiniteSets

CONSTANTS
    NumServers,     \* servers are their indices in the client's list
    Message,        \* each with the request that sends it
    Inbox,          \* callers of receive_messages: /api/messages and the user's /inbox
    View,           \* threads of /api/all-messages, which the page polls
    MaxFailures     \* bound: crashes, and calls to a running server that time out

ASSUME ServersAssumption == NumServers \in Nat \ {0}
ASSUME CallAssumption ==
    /\ Message \intersect Inbox = {} /\ Message \intersect View = {}
    /\ Inbox \intersect View = {}
ASSUME BoundAssumption == MaxFailures \in Nat

Server == 0 .. NumServers - 1
Call == Message \union Inbox \union View

VARIABLES
    index,      \* _current_index
    call,       \* call[c]: the running request, or the last one, of c
    requests,   \* requests[s]: SendMessage calls that reached s, not handled yet
    held,       \* held[s]: the rows on the disk of s
    up,         \* the servers that run
    failures

vars == <<index, call, requests, held, up, failures>>

\* History, of a send or inbox, steady: the servers that ran, and failed no call of
\* it, since it began; none counts when another call changed the index since.  Of a
\* view, owed: what such servers held when it began.
Idle == [pc |-> "idle", attempt |-> 0, at |-> 0, result |-> {},
         steady |-> {}, owed |-> [s \in Server |-> {}]]

Init ==
    /\ index = 0
    /\ call = [c \in Call |-> Idle]
    /\ requests = [s \in Server |-> {}]
    /\ held = [s \in Server |-> {}]
    /\ up = Server
    /\ failures = 0

-----------------------------------------------------------------------------
(* A request.  An operator whose name begins with Bad is a mutation of the *)
(* one after it, used by no specification.                                 *)

\* A message is sent once, under one id; an inbox or a view is asked for any number
\* of times.
Begin(c) ==
    /\ call[c].pc \in IF c \in Message THEN {"idle"} ELSE {"idle", "ended", "failed"}
    /\ call' = [call EXCEPT ![c] =
         [Idle EXCEPT !.pc = "next",
                      !.steady = IF c \in View THEN {} ELSE up,
                      !.owed = [s \in Server |-> IF c \in View /\ s \in up THEN held[s] ELSE {}]]]
    /\ UNCHANGED <<index, requests, held, up, failures>>

BadRotated(attempt) == index + attempt

\* The index is read again for each attempt.
Rotated(attempt) == (index + attempt) % NumServers

\* The RPC of the next attempt starts, or finds nobody; the view goes down the list
\* as it is.
Try(c) ==
    LET s == IF c \in View THEN call[c].attempt ELSE Rotated(call[c].attempt)
    IN /\ call[c].pc = "next"
       /\ call' = [call EXCEPT ![c].pc = IF s \in up THEN "calling" ELSE "broken",
                             ![c].at = s]
       /\ requests' = IF c \in Message /\ s \in up
                      THEN [requests EXCEPT ![s] = @ \union {c}] ELSE requests
       /\ UNCHANGED <<index, held, up, failures>>

\* handle_client_message, or what is left of it: m is stored, if it was not.
Handle(s, m) ==
    /\ m \in requests[s]
    /\ requests' = [requests EXCEPT ![s] = @ \ {m}]
    /\ held' = [held EXCEPT ![s] = @ \union {m}]
    /\ UNCHANGED <<index, call, up, failures>>

\* c is answered, and the client's index becomes i.
EndCall(c, i) ==
    /\ index' = i
    /\ call' = [d \in Call |->
                  IF d = c THEN [Idle EXCEPT !.pc = "ended"]
                  ELSE IF i = index THEN call[d]
                  ELSE [call[d] EXCEPT !.steady = {}]]

\* The server of c's call runs, and may answer.
Calls(c, ids) == c \in ids /\ call[c].pc = "calling"

\* send_message_to_server returns, and its server is remembered.
SendAnswered(m) ==
    /\ Calls(m, Message)
    /\ m \in held[call[m].at] \ requests[call[m].at]
    /\ EndCall(m, call[m].at)
    /\ UNCHANGED <<requests, held, up, failures>>

BadRemembered(c) == index

\* receive_messages remembers a server only if it was not the first it tried.
Remembered(c) == IF call[c].attempt > 0 THEN call[c].at ELSE index

InboxAnswered(c) ==
    /\ Calls(c, Inbox)
    /\ EndCall(c, Remembered(c))
    /\ UNCHANGED <<requests, held, up, failures>>

\* Server s failed the call r.
Without(r, s) == [r EXCEPT !.steady = @ \ {s}, !.owed[s] = {}]

BadIsLast(c) == call[c].attempt = NumServers - 2

IsLast(c) == call[c].attempt = NumServers - 1

\* On to the next attempt of c, with fields r; after the last it ends as pc.
GoOn(c, r, pc) ==
    call' = [call EXCEPT ![c] = IF IsLast(c) THEN [r EXCEPT !.pc = pc]
                                ELSE [r EXCEPT !.pc = "next", !.attempt = @ + 1, !.at = 0]]

BadViewAnswered(c) ==
    /\ Calls(c, View)
    /\ call' = [call EXCEPT ![c].pc = "ended", ![c].result = held[call[c].at]]
    /\ UNCHANGED <<index, requests, held, up, failures>>

\* get_all_messages merges the answers of all servers.
ViewAnswered(c) ==
    /\ Calls(c, View)
    /\ GoOn(c, [call[c] EXCEPT !.result = @ \union held[call[c].at]], "ended")
    /\ UNCHANGED <<index, requests, held, up, failures>>

\* The server is down, or was since, or it is too slow.
NoAnswer(c) ==
    \/ call[c].pc = "broken" /\ UNCHANGED failures
    \/ /\ call[c].pc = "calling"
       /\ failures < MaxFailures /\ failures' = failures + 1

BadOutcome(c) == "ended"

\* RuntimeError, or an empty inbox; a view shows what it got.
Outcome(c) == IF c \in View THEN "ended" ELSE "failed"

CallFails(c) ==
    /\ NoAnswer(c)
    /\ GoOn(c, Without(call[c], call[c].at), Outcome(c))
    /\ UNCHANGED <<index, requests, held, up>>

-----------------------------------------------------------------------------
(* The cluster                                                             *)

\* Replicate, the queue or recovery bring copies of p's messages to s.
Spread(p, s) ==
    /\ {p, s} \subseteq up
    /\ held' = [held EXCEPT ![s] = @ \union held[p]]
    /\ UNCHANGED <<index, call, requests, up, failures>>

\* The disk stays; the calls in progress break, but for those whose answer has come
\* and whose thread has not gone on to set the index.
Crash(s) ==
    /\ s \in up
    /\ failures < MaxFailures /\ failures' = failures + 1
    /\ up' = up \ {s}
    /\ requests' = [requests EXCEPT ![s] = {}]
    /\ \E late \in SUBSET (Inbox \union (held[s] \ requests[s])) :
         call' = [c \in Call |->
                    [Without(call[c], s) EXCEPT
                        !.pc = IF @ = "calling" /\ call[c].at = s /\ c \notin late
                               THEN "broken" ELSE @]]
    /\ UNCHANGED <<index, held>>

Start(s) ==
    /\ s \notin up
    /\ up' = up \union {s}
    /\ UNCHANGED <<index, call, requests, held, failures>>

Step(c) ==
    Try(c) \/ SendAnswered(c) \/ InboxAnswered(c) \/ ViewAnswered(c) \/ CallFails(c)

Next ==
    \/ \E c \in Call : Begin(c) \/ Step(c)
    \/ \E s \in Server, m \in Message : Handle(s, m)
    \/ \E p, s \in Server : Spread(p, s)
    \/ \E s \in Server : Crash(s) \/ Start(s)

\* Requests and handlers are threads that are scheduled, and every RPC has a
\* timeout.  Nobody has to send or to ask: the page polls the view only, which
\* neither reads nor sets the index.
Spec ==
    /\ Init /\ [][Next]_vars
    /\ \A c \in Call : WF_vars(Step(c))
    /\ \A s \in Server, m \in Message : WF_vars(Handle(s, m))

-----------------------------------------------------------------------------
(* Properties                                                              *)

\* The type invariant; an attempt goes to a server of the list, from wherever the
\* index may stand.
TypeOK ==
    /\ index \in Server
    /\ call \in [Call -> [pc : {"idle", "next", "calling", "broken", "ended", "failed"},
                          attempt : Server, at : Server, result : SUBSET Message,
                          steady : SUBSET Server, owed : [Server -> SUBSET Message]]]
    /\ requests \in [Server -> SUBSET Message]
    /\ held \in [Server -> SUBSET Message]
    /\ up \subseteq Server
    /\ failures \in 0..MaxFailures

\* A send raises, and an inbox is empty for want of servers, only if each server
\* was down or failed a call in the meantime: fail-over finds one that runs
\* (client.py:77-93, 130-163), as long as no other request moves the index under it.
GivesUpForAReason ==
    \A c \in Message \union Inbox :
        call[c].pc = "failed" => call[c].steady = {}

\* The chat view shows all that a server which ran all the time, and answered,
\* held when the view began: "no messages are lost even when some nodes hold
\* messages others don't" (web_client.py:118-119).
ViewIsComplete ==
    \A c \in View : call[c].pc = "ended" =>
        \A s \in Server : call[c].owed[s] \subseteq call[c].result

\* The servers' disks and the confirmed sends, as the promise of ReplicatedInbox.
Cluster == INSTANCE ReplicatedInbox WITH
    Node <- Server,
    confirmed <- {m \in Message : call[m].pc = "ended"}

\* Whichever server answers, in whatever attempt, a user is told of success only
\* when some server keeps the message, and no fail-over takes one back.
ImplementsInbox == Cluster!Spec

\* When one server is left running in the end, and the user goes on asking for the
\* inbox, the client comes to start with that server, and stays, in spite of late
\* answers of others (client.py:84, 153).  If nobody asks or sends, the index is
\* not looked at, and stays where it is.
FindsTheServer ==
    \A s \in Server :
        <>[](up = {s}) /\ []<>(\E c \in Inbox : call[c].pc = "next") => <>[](index = s)
=============================================================================
