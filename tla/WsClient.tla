------------------------------ MODULE WsClient ------------------------------
(***************************************************************************)
(* ws_client and session of xdaqvc/ws_client.cc: a chain of asynchronous   *)
(* operations run by one thread, which reconnects when the connection is   *)
(* refused or lost, and hands every message to the application.            *)
(*                                                                         *)
(* All handlers run on the thread that is inside _ioc->run(), so one       *)
(* action is the completion of one operation with the handler it calls.    *)
(* The server numbers its messages; it and the network are external.       *)
(***************************************************************************)
EXTENDS Integers, Sequences, FiniteSets

CONSTANT MaxSent   \* bound: messages the server sends

ASSUME MaxSentAssumption == MaxSent \in Nat

VARIABLES
  client,     \* the ws_client object
  thread,     \* _thread
  pending,    \* the operations that have been started and not completed
  host_ports, \* how many ":<port>" _host carries
  buffer,     \* _buffer: the pieces of messages in it
  events,     \* what _event_handler was called with, oldest first
  last_error, \* the operation whose failure the chain handled last
  link,       \* the connection: no TCP, TCP only, or an open WebSocket
  sent, wire  \* messages sent so far, and those that are still to be read

vars == <<client, thread, pending, host_ports, buffer, events, last_error, link,
          sent, wire>>
network == <<sent, wire>>

-----------------------------------------------------------------------------
Operation == {"resolve", "connect", "handshake", "read", "close"}

\* A piece of a message in _buffer: all of it, or only its beginning.
Piece == [id : 1 .. MaxSent, whole : BOOLEAN]

Running == thread = "running" /\ client # "crashed"

\* The completion of op, which leaves the operations of next outstanding.
Completes(op, next) ==
  /\ Running /\ op \in pending
  /\ pending' = (pending \ {op}) \cup next

\* Seeded fault: run appends to the host of the previous connection.
RestartKeepsHost == UNCHANGED host_ports

\* Seeded fault: run strips a port that is not there after a failed connect.
RestartStripsPort == host_ports' = host_ports - 1

\* session::run
Restart == host_ports' = 0

\* reconnect: close a stream that still counts as open, sleep, and run again.
Reconnect(op, open) ==
  /\ Completes(op, {"resolve"} \cup (IF open THEN {"close"} ELSE {}))
  /\ Restart
  /\ last_error' = op

-----------------------------------------------------------------------------
ThreadStart ==
  /\ thread = "starting"
  /\ thread' = "running"
  /\ Restart
  /\ pending' = {"resolve"}
  /\ UNCHANGED <<client, buffer, events, last_error, link, network>>

\* async_connect closes the socket of a connection that is still there.
OnResolve ==
  /\ Completes("resolve", {"connect"})
  /\ link' = "none" /\ wire' = <<>>
  /\ UNCHANGED <<client, thread, host_ports, buffer, events, last_error, sent>>

OnResolveFails ==
  /\ Completes("resolve", {})
  /\ last_error' = "resolve"
  /\ UNCHANGED <<client, thread, host_ports, buffer, events, link, network>>

OnConnect ==
  /\ Completes("connect", {"handshake"})
  /\ host_ports' = host_ports + 1
  /\ link' = "tcp" /\ wire' = <<>>
  /\ UNCHANGED <<client, thread, buffer, events, last_error, sent>>

\* Seeded fault: a refused connection is reported and forgotten.
OnConnectGivesUp ==
  /\ Completes("connect", {})
  /\ last_error' = "connect"
  /\ UNCHANGED <<client, thread, host_ports, buffer, events, link, network>>

OnConnectFails ==
  /\ Reconnect("connect", FALSE)
  /\ UNCHANGED <<client, thread, buffer, events, link, network>>

OnHandshake ==
  /\ link = "tcp"
  /\ Completes("handshake", {"read"})
  /\ link' = "open"
  /\ UNCHANGED <<client, thread, host_ports, buffer, events, last_error, network>>

OnHandshakeFails ==
  /\ Completes("handshake", {})
  /\ last_error' = "handshake" /\ link' = "none"
  /\ UNCHANGED <<client, thread, host_ports, buffer, events, network>>

\* The event that on_read hands over: all that _buffer holds.
Event == Append(buffer, [id |-> Head(wire), whole |-> TRUE])

\* Seeded fault: the buffer is not cleared after a message.
OnReadKeepsBuffer ==
  /\ link = "open" /\ wire # <<>>
  /\ Completes("read", {"read"})
  /\ events' = Append(events, Event)
  /\ buffer' = Event
  /\ wire' = Tail(wire)
  /\ UNCHANGED <<client, thread, host_ports, last_error, link, sent>>

\* Seeded fault: the next read is never started.
OnReadOnce ==
  /\ link = "open" /\ wire # <<>>
  /\ Completes("read", {})
  /\ events' = Append(events, Event)
  /\ buffer' = <<>>
  /\ wire' = Tail(wire)
  /\ UNCHANGED <<client, thread, host_ports, last_error, link, sent>>

OnRead ==
  /\ link = "open" /\ wire # <<>>
  /\ Completes("read", {"read"})
  /\ events' = Append(events, Event)
  /\ buffer' = <<>>
  /\ wire' = Tail(wire)
  /\ UNCHANGED <<client, thread, host_ports, last_error, link, sent>>

\* The handler throws: a std::exception leaves _ioc->run() and ends the thread,
\* anything else is caught by nobody and ends the process.
OnReadThrows ==
  /\ link = "open" /\ wire # <<>>
  /\ Completes("read", {})
  /\ events' = Append(events, Event)
  /\ buffer' = Event
  /\ wire' = Tail(wire)
  /\ last_error' = "handler" /\ thread' = "ended"
  /\ client' \in {client, "crashed"}
  /\ UNCHANGED <<host_ports, link, sent>>

\* The destructor has destroyed _event_handler, and the thread still calls it:
\* undefined, and a crash is one of the outcomes.
OnReadCrashes ==
  /\ client = "destroying" /\ link = "open" /\ wire # <<>>
  /\ Completes("read", {})
  /\ client' = "crashed"
  /\ UNCHANGED <<thread, host_ports, buffer, events, last_error, link, network>>

\* The connection is lost with what had not been read, or the stream is left
\* open.  Part of a message may have reached the buffer, which stays as it is.
OnReadFails ==
  /\ \E open \in BOOLEAN :
       /\ open => link = "open"
       /\ Reconnect("read", open)
       /\ link' = IF open THEN link ELSE "none"
  /\ \/ UNCHANGED buffer
     \/ /\ wire # <<>>
        /\ buffer' = Append(buffer, [id |-> Head(wire), whole |-> FALSE])
  /\ wire' = <<>>
  /\ UNCHANGED <<client, thread, events, sent>>

\* A graceful close tears down whatever connection the stream has by then.
OnClose ==
  /\ Completes("close", {})
  /\ link' = "none" /\ wire' = <<>>
  /\ UNCHANGED <<client, thread, host_ports, buffer, events, last_error, sent>>

OnCloseFails ==
  /\ Completes("close", {})
  /\ UNCHANGED <<client, thread, host_ports, buffer, events, last_error, link, network>>

\* run() returns when no work is left.
RunReturns ==
  /\ Running /\ pending = {}
  /\ thread' = "ended"
  /\ UNCHANGED <<client, pending, host_ports, buffer, events, last_error, link, network>>

-----------------------------------------------------------------------------
(* The application, the destructor, and the server.                         *)

\* ~ws_client destroys _event_handler, then ~jthread joins.
Destroy ==
  /\ client = "alive"
  /\ client' = "destroying"
  /\ UNCHANGED <<thread, pending, host_ports, buffer, events, last_error, link, network>>

\* Seeded fault: the thread is detached instead of joined.
JoinedDetaches ==
  /\ client = "destroying"
  /\ client' = "destroyed"
  /\ UNCHANGED <<thread, pending, host_ports, buffer, events, last_error, link, network>>

\* ~jthread returns, _ioc goes with the operations it holds, and then _session,
\* whose socket and resolver still refer to _ioc: undefined, as in OnReadCrashes.
Joined ==
  /\ client = "destroying" /\ thread = "ended"
  /\ client' \in {"destroyed", "crashed"}
  /\ pending' = {} /\ link' = "none" /\ wire' = <<>>
  /\ UNCHANGED <<thread, host_ports, buffer, events, last_error, sent>>

Send ==
  /\ link = "open" /\ sent < MaxSent
  /\ sent' = sent + 1 /\ wire' = Append(wire, sent + 1)
  /\ UNCHANGED <<client, thread, pending, host_ports, buffer, events, last_error, link>>

-----------------------------------------------------------------------------
Init ==
  /\ client = "alive" /\ thread = "starting"
  /\ pending = {} /\ host_ports = 0 /\ buffer = <<>> /\ events = <<>>
  /\ last_error = "none" /\ link = "none"
  /\ sent = 0 /\ wire = <<>>

\* The network or the server makes an operation fail.
Failure ==
  \/ OnResolveFails \/ OnConnectFails \/ OnHandshakeFails \/ OnReadFails
  \/ OnCloseFails

Completion ==
  \/ OnResolve \/ OnConnect \/ OnHandshake
  \/ OnRead \/ OnReadThrows \/ OnReadCrashes
  \/ OnClose \/ RunReturns

Next ==
  \/ ThreadStart \/ Completion \/ Failure
  \/ Destroy \/ Joined \/ Send

\* The thread runs, every operation but a read has a timeout, and a read
\* completes when there is something to be read or the connection is gone.
Fairness ==
  /\ WF_vars(ThreadStart) /\ WF_vars(Joined) /\ WF_vars(RunReturns)
  /\ WF_vars(OnResolve \/ OnResolveFails)
  /\ WF_vars(OnConnect \/ OnConnectFails)
  /\ WF_vars(OnHandshake \/ OnHandshakeFails)
  /\ WF_vars(OnRead \/ OnReadThrows \/ OnReadCrashes)
  /\ WF_vars(link = "none" /\ OnReadFails)
  /\ WF_vars(OnClose \/ OnCloseFails)

Spec == Init /\ [][Next]_vars /\ Fairness

-----------------------------------------------------------------------------
TypeOK ==
  /\ client \in {"alive", "destroying", "destroyed", "crashed"}
  /\ thread \in {"starting", "running", "ended"}
  /\ pending \subseteq Operation
  /\ host_ports \in Nat
  /\ buffer \in Seq(Piece)
  /\ events \in Seq(Seq(Piece))
  /\ last_error \in Operation \cup {"none", "handler"}
  /\ link \in {"none", "tcp", "open"}
  /\ sent \in 0 .. MaxSent
  /\ wire \in Seq(1 .. MaxSent)

\* The chain has met an error that it does not recover from.
Stopped == last_error \in {"resolve", "handshake", "handler"} \/ client = "crashed"

(* The handler sees the messages in the order in which the server sent them *)
(* and each at most once, across reconnections: an event ends with one      *)
(* whole message, and all that can precede it are beginnings of messages    *)
(* lost with an earlier connection (ws_client.cc:105-124).                  *)
EventsInOrder ==
  LET read == IF thread = "ended" THEN events ELSE Append(events, buffer)
  IN /\ \A i, j \in DOMAIN read : \A m \in DOMAIN read[i], n \in DOMAIN read[j] :
          i < j \/ (i = j /\ m < n) => read[i][m].id < read[j][n].id
     /\ \A i \in DOMAIN events : \A m \in DOMAIN events[i] :
          events[i][m].whole <=> m = Len(events[i])

(* Until an operation has failed nothing is lost, merged or split: message  *)
(* n is the n-th event, alone and whole, and every message that was sent    *)
(* was delivered or is still to be read (ws_client.cc:105-124).             *)
CompleteUntilFailure ==
  last_error = "none" =>
    /\ sent = Len(events) + Len(wire)
    /\ \A i \in DOMAIN events : events[i] = <<[id |-> i, whole |-> TRUE]>>
    /\ \A k \in DOMAIN wire : wire[k] = Len(events) + k

(* The WebSocket handshake carries a Host header with exactly one port,     *)
(* however many connections came before (ws_client.cc:38, 82-85).           *)
HostHeader == "handshake" \in pending => host_ports = 1

(* One operation of the chain is outstanding at any time, and the chain     *)
(* ends only after a failed lookup, a failed handshake, or an exception of  *)
(* the handler: a refused connection and a lost one are retried             *)
(* (ws_client.cc:48, 61-65, 95, 109-113, 179).                              *)
ChainContinues ==
  /\ Cardinality(pending \ {"close"}) <= 1
  /\ pending \subseteq {"close"} /\ thread # "starting" => Stopped

(* Once the destructor has returned, the handler is not called again and no *)
(* operation is outstanding: ~jthread waits for the thread before _ioc and  *)
(* _session are destroyed (ws_client.h:64-67).                              *)
DestructorJoins ==
  [][client = "destroyed" => events' = events /\ pending' = {}]_vars

(* If the network fails only finitely often, the client ends up waiting for *)
(* messages, unless one of the errors that end the chain has occurred       *)
(* (ws_client.cc:61-65, 109-113, 123).                                      *)
StableNetworkRecovers ==
  <>[][~Failure]_vars =>
    <>[](Stopped \/ "read" \in pending)

(* A message that has reached the client's socket does not stay there: it   *)
(* is handed to the handler, or lost with the connection or the chain       *)
(* (ws_client.cc:105-124).                                                  *)
MessageLeavesSocket ==
  \A n \in 1 .. MaxSent :
    (\E i \in DOMAIN wire : wire[i] = n) ~>
      (\A i \in DOMAIN wire : wire[i] # n) \/ Stopped

(* Claimed by the comments at ws_client.cc:115 and 119 ("Process the        *)
(* received message", "Clear the buffer"): the handler is called with one   *)
(* received message.  The buffer is not cleared when a read fails           *)
(* (ws_client.cc:109-113).                                                  *)
EventIsOneMessage == \A i \in DOMAIN events : Len(events[i]) = 1

(* Claimed by the comment at ws_client.cc:174-175, "The call will return    *)
(* when the socket is closed".  on_read reconnects instead, so that run()   *)
(* goes on (ws_client.cc:109-113).                                          *)
RunReturnsWhenClosed ==
  last_error = "read" /\ link = "none" ~> thread = "ended" \/ client = "crashed"
=============================================================================
