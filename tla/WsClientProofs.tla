--------------------------- MODULE WsClientProofs ---------------------------
(* The chain of operations of a session, for any number of messages.         *)
EXTENDS WsClient, FiniteSetTheorems, SequenceTheorems, TLAPS

USE DEF network

-----------------------------------------------------------------------------
(* The inductive invariant of the chain: while the thread runs and no error *)
(* has stopped it, exactly one of its operations is outstanding, and _host  *)
(* has a port exactly from the connection to the next run.                  *)

ChainInv ==
  /\ thread = "starting" => pending = {} /\ ~Stopped
  /\ thread = "running" /\ ~Stopped =>
       \E op \in Operation \ {"close"} : pending \ {"close"} = {op}
  /\ Stopped => pending \subseteq {"close"}
  /\ thread = "ended" => Stopped
  /\ pending \cap {"resolve", "connect"} # {} => host_ports = 0
  /\ "handshake" \in pending => host_ports = 1
  /\ client = "destroyed" => thread = "ended" /\ pending = {}

IInv == TypeOK /\ ChainInv

\* The invariant holds when the object is constructed.
LEMMA InitialIInv == Init => IInv
BY MaxSentAssumption DEF Init, IInv, TypeOK, ChainInv, Stopped

\* The first message on the wire, and the rest of it.
LEMMA WireHead ==
  ASSUME TypeOK, wire # <<>>
  PROVE  /\ Head(wire) \in 1 .. MaxSent /\ Tail(wire) \in Seq(1 .. MaxSent)
         /\ \A b \in BOOLEAN : [id |-> Head(wire), whole |-> b] \in Piece
<1>1. wire \in Seq(1 .. MaxSent)
  BY DEF TypeOK
<1>2. Head(wire) \in 1 .. MaxSent /\ Tail(wire) \in Seq(1 .. MaxSent)
  BY <1>1, HeadTailProperties
<1>3. QED
  BY <1>2 DEF Piece

\* What on_read hands over is a sequence of pieces.
LEMMA EventType ==
  ASSUME TypeOK, wire # <<>>
  PROVE  /\ \A b \in BOOLEAN :
              Append(buffer, [id |-> Head(wire), whole |-> b]) \in Seq(Piece)
         /\ Event \in Seq(Piece) /\ Append(events, Event) \in Seq(Seq(Piece))
<1>1. buffer \in Seq(Piece) /\ events \in Seq(Seq(Piece))
  BY DEF TypeOK
<1>2. \A b \in BOOLEAN : Append(buffer, [id |-> Head(wire), whole |-> b]) \in Seq(Piece)
  BY <1>1, WireHead, AppendProperties
<1>3. Event \in Seq(Piece)
  BY <1>2 DEF Event
<1>4. QED
  BY <1>1, <1>2, <1>3, AppendProperties

\* Every step preserves the types.
LEMMA NextType == TypeOK /\ [Next]_vars => TypeOK'
<1> SUFFICES ASSUME TypeOK, [Next]_vars PROVE TypeOK'
  OBVIOUS
<1>0. <<>> \in Seq(1 .. MaxSent) /\ <<>> \in Seq(Piece)
  BY EmptySeq
<1> USE <1>0 DEF Operation, Completes
<1>1. CASE ThreadStart
  BY <1>1 DEF TypeOK, ThreadStart, Restart
<1>2. CASE OnResolve
  BY <1>2 DEF TypeOK, OnResolve
<1>3. CASE OnResolveFails
  BY <1>3 DEF TypeOK, OnResolveFails
<1>4. CASE OnConnect
  BY <1>4 DEF TypeOK, OnConnect
<1>5. CASE OnConnectFails
  BY <1>5 DEF TypeOK, OnConnectFails, Reconnect, Restart
<1>6. CASE OnHandshake
  BY <1>6 DEF TypeOK, OnHandshake
<1>7. CASE OnHandshakeFails
  BY <1>7 DEF TypeOK, OnHandshakeFails
<1>8. CASE OnRead
  BY <1>8, WireHead, EventType DEF TypeOK, OnRead
<1>9. CASE OnReadThrows
  BY <1>9, WireHead, EventType DEF TypeOK, OnReadThrows
<1>10. CASE OnReadCrashes
  BY <1>10 DEF TypeOK, OnReadCrashes
<1>11. CASE OnReadFails
  <2>1. buffer' \in Seq(Piece)
    BY <1>11, EventType DEF OnReadFails, TypeOK
  <2>2. QED
    BY <1>11, <2>1 DEF TypeOK, OnReadFails, Reconnect, Restart
<1>12. CASE OnClose
  BY <1>12 DEF TypeOK, OnClose
<1>13. CASE OnCloseFails
  BY <1>13 DEF TypeOK, OnCloseFails
<1>14. CASE RunReturns
  BY <1>14 DEF TypeOK, RunReturns
<1>15. CASE Destroy
  BY <1>15 DEF TypeOK, Destroy
<1>16. CASE Joined
  BY <1>16 DEF TypeOK, Joined
<1>17. CASE Send
  <2>1. sent' \in 1 .. MaxSent
    BY <1>17, MaxSentAssumption DEF Send, TypeOK
  <2>2. wire' \in Seq(1 .. MaxSent)
    BY <1>17, <2>1, AppendProperties DEF Send, TypeOK
  <2>3. QED
    BY <1>17, <2>1, <2>2 DEF TypeOK, Send
<1>18. CASE UNCHANGED vars
  BY <1>18 DEF TypeOK, vars
<1>19. QED
  BY <1>1, <1>2, <1>3, <1>4, <1>5, <1>6, <1>7, <1>8, <1>9, <1>10, <1>11, <1>12,
     <1>13, <1>14, <1>15, <1>16, <1>17, <1>18 DEF Next, Completion, Failure

\* Every step keeps the chain of operations single.
LEMMA NextChain == TypeOK /\ ChainInv /\ [Next]_vars => ChainInv'
<1> SUFFICES ASSUME pending \subseteq Operation, host_ports \in Nat, ChainInv, [Next]_vars
             PROVE  ChainInv'
  BY DEF TypeOK
<1> USE DEF ChainInv, Stopped, Operation, Completes, Running
<1>1. CASE ThreadStart
  BY <1>1 DEF ThreadStart, Restart
<1>2. CASE OnResolve
  BY <1>2 DEF OnResolve
<1>3. CASE OnResolveFails
  BY <1>3 DEF OnResolveFails
<1>4. CASE OnConnect
  BY <1>4 DEF OnConnect
<1>5. CASE OnConnectFails
  BY <1>5 DEF OnConnectFails, Reconnect, Restart
<1>6. CASE OnHandshake
  BY <1>6 DEF OnHandshake
<1>7. CASE OnHandshakeFails
  BY <1>7 DEF OnHandshakeFails
<1>8. CASE OnRead
  BY <1>8 DEF OnRead
<1>9. CASE OnReadThrows
  BY <1>9 DEF OnReadThrows
<1>10. CASE OnReadCrashes
  BY <1>10 DEF OnReadCrashes
<1>11. CASE OnReadFails
  BY <1>11 DEF OnReadFails, Reconnect, Restart
<1>12. CASE OnClose
  BY <1>12 DEF OnClose
<1>13. CASE OnCloseFails
  BY <1>13 DEF OnCloseFails
<1>14. CASE RunReturns
  BY <1>14 DEF RunReturns
<1>15. CASE Destroy
  BY <1>15 DEF Destroy
<1>16. CASE Joined
  BY <1>16 DEF Joined
<1>17. CASE Send
  BY <1>17 DEF Send
<1>18. CASE UNCHANGED vars
  BY <1>18 DEF vars
<1>19. QED
  BY <1>1, <1>2, <1>3, <1>4, <1>5, <1>6, <1>7, <1>8, <1>9, <1>10, <1>11, <1>12,
     <1>13, <1>14, <1>15, <1>16, <1>17, <1>18 DEF Next, Completion, Failure

\* Every step preserves the invariant.
LEMMA NextIInv == IInv /\ [Next]_vars => IInv'
BY NextType, NextChain DEF IInv

\* The invariant holds in every behaviour.
LEMMA IInvAlways == Spec => []IInv
BY InitialIInv, NextIInv, PTL DEF Spec

-----------------------------------------------------------------------------
(* Every variable of the client keeps its type; in particular nothing but   *)
(* pieces of messages that were sent is in the buffer or in an event.       *)
THEOREM TypeCorrect == Spec => []TypeOK
BY IInvAlways, PTL DEF IInv

(* Every handshake carries a Host header with one port (ws_client.cc:38,    *)
(* 82-85).                                                                  *)
THEOREM HostIsWellFormed == Spec => []HostHeader
<1>1. IInv => HostHeader
  BY DEF IInv, ChainInv, HostHeader
<1>2. QED
  BY <1>1, IInvAlways, PTL

(* There is never more than one chain of operations, and it ends only with  *)
(* an error that the code does not retry (ws_client.cc:48, 61-65, 95,       *)
(* 109-113, 179).                                                           *)
THEOREM ChainIsUnique == Spec => []ChainContinues
<1>1. IInv => ChainContinues
  <2> SUFFICES ASSUME IInv PROVE ChainContinues
    OBVIOUS
  <2>1. CASE pending \subseteq {"close"}
    <3>1. pending \ {"close"} = {}
      BY <2>1
    <3>2. Cardinality(pending \ {"close"}) = 0
      BY <3>1, FS_EmptySet
    <3>3. thread # "starting" => Stopped
      BY <2>1 DEF IInv, TypeOK, ChainInv, Operation
    <3>4. QED
      BY <3>2, <3>3 DEF ChainContinues
  <2>2. CASE ~(pending \subseteq {"close"})
    <3>1. PICK op \in Operation : pending \ {"close"} = {op}
      BY <2>2 DEF IInv, TypeOK, ChainInv
    <3>2. Cardinality(pending \ {"close"}) = 1
      BY <3>1, FS_Singleton
    <3>3. QED
      BY <2>2, <3>2 DEF ChainContinues
  <2>3. QED
    BY <2>1, <2>2
<1>2. QED
  BY <1>1, IInvAlways, PTL

(* After the destructor the handler is not called and nothing is            *)
(* outstanding (ws_client.h:64-67).                                         *)
THEOREM NothingAfterDestruction == Spec => DestructorJoins
<1>1. IInv /\ [Next]_vars =>
        [client = "destroyed" => events' = events /\ pending' = {}]_vars
  <2> SUFFICES ASSUME IInv, [Next]_vars, client = "destroyed"
               PROVE  events' = events /\ pending' = {}
    OBVIOUS
  <2>1. thread = "ended" /\ pending = {}
    BY DEF IInv, ChainInv
  <2>2. QED
    BY <2>1 DEF Next, Completion, Failure, vars, ThreadStart, OnResolve, OnResolveFails,
       OnConnect, OnConnectFails, OnHandshake, OnHandshakeFails, OnRead, OnReadThrows,
       OnReadCrashes, OnReadFails, OnClose, OnCloseFails, RunReturns, Destroy, Joined,
       Send, Completes, Reconnect, Running
<1>2. QED
  BY <1>1, IInvAlways, PTL DEF DestructorJoins, Spec

-----------------------------------------------------------------------------
(* The order of the events.  While the thread has not ended, everything     *)
(* that was delivered was sent before everything in the buffer, and that    *)
(* before everything on the wire.                                           *)

Ordered ==
  \A i, j \in 1 .. Len(events) : \A m \in 1 .. Len(events[i]), n \in 1 .. Len(events[j]) :
    i < j \/ (i = j /\ m < n) => events[i][m].id < events[j][n].id

WholeAtEnd ==
  \A i \in 1 .. Len(events) : \A m \in 1 .. Len(events[i]) :
    events[i][m].whole <=> m = Len(events[i])

\* Every piece that was delivered precedes message n.
DeliveredBefore(n) ==
  \A i \in 1 .. Len(events) : \A m \in 1 .. Len(events[i]) : events[i][m].id < n

BufferedBefore(n) == \A m \in 1 .. Len(buffer) : buffer[m].id < n

BufferInv ==
  /\ \A m, n \in 1 .. Len(buffer) : m < n => buffer[m].id < buffer[n].id
  /\ \A m \in 1 .. Len(buffer) : ~buffer[m].whole /\ DeliveredBefore(buffer[m].id)

WireInv ==
  /\ \A j, k \in 1 .. Len(wire) : j < k => wire[j] < wire[k]
  /\ \A k \in 1 .. Len(wire) : DeliveredBefore(wire[k]) /\ BufferedBefore(wire[k])
  /\ \A k \in 1 .. Len(wire) : wire[k] <= sent
  /\ DeliveredBefore(sent + 1) /\ BufferedBefore(sent + 1)

OrderInv == Ordered /\ WholeAtEnd /\ (thread # "ended" => BufferInv /\ WireInv)

\* The indices of the three sequences.
LEMMA Lengths ==
  ASSUME TypeOK
  PROVE  /\ Len(events) \in Nat /\ Len(buffer) \in Nat /\ Len(wire) \in Nat
         /\ sent \in Nat
         /\ \A i \in 1 .. Len(events) : events[i] \in Seq(Piece) /\ Len(events[i]) \in Nat
         /\ \A i \in 1 .. Len(events) : \A m \in 1 .. Len(events[i]) : events[i][m] \in Piece
         /\ \A m \in 1 .. Len(buffer) : buffer[m] \in Piece
         /\ \A k \in 1 .. Len(wire) : wire[k] \in Nat
<1>1. /\ events \in Seq(Seq(Piece)) /\ buffer \in Seq(Piece)
      /\ wire \in Seq(1 .. MaxSent) /\ sent \in 0 .. MaxSent
  BY DEF TypeOK
<1>2. \A i \in 1 .. Len(events) : events[i] \in Seq(Piece) /\ Len(events[i]) \in Nat
  BY <1>1, ElementOfSeq, LenProperties
<1>3. QED
  BY <1>1, <1>2, ElementOfSeq, LenProperties, MaxSentAssumption

\* The event that is built from the buffer and the first message on the wire.
LEMMA EventShape ==
  ASSUME TypeOK, wire # <<>>
  PROVE  /\ Event \in Seq(Piece) /\ Len(Event) = Len(buffer) + 1
         /\ \A m \in 1 .. Len(buffer) : Event[m] = buffer[m]
         /\ Event[Len(buffer) + 1] = [id |-> Head(wire), whole |-> TRUE]
<1>1. buffer \in Seq(Piece) /\ [id |-> Head(wire), whole |-> TRUE] \in Piece
  BY WireHead DEF TypeOK
<1>2. QED
  BY <1>1, AppendProperties DEF Event

\* Delivering it keeps what was delivered, and adds a later event.
LEMMA DeliverKeepsOrder ==
  ASSUME TypeOK, OrderInv, thread # "ended", wire # <<>>,
         events' = Append(events, Event)
  PROVE  /\ Ordered' /\ WholeAtEnd'
         /\ \A n \in Nat : DeliveredBefore(n) /\ BufferedBefore(n) /\ wire[1] < n
                              => DeliveredBefore(n)'
<1>1. /\ Len(events') = Len(events) + 1
      /\ \A i \in 1 .. Len(events) : events'[i] = events[i]
      /\ events'[Len(events) + 1] = Event
  <2>1. events \in Seq(Seq(Piece)) /\ Event \in Seq(Piece)
    BY EventShape DEF TypeOK
  <2>2. QED
    BY <2>1, AppendProperties
<1>2. /\ \A m \in 1 .. Len(Event) : m # Len(Event) => m \in 1 .. Len(buffer)
      /\ wire[1] = Head(wire) /\ 1 \in 1 .. Len(wire)
      /\ Len(Event) \in Nat
  BY Lengths, EventShape, EmptySeq DEF TypeOK
<1>3. /\ \A m \in 1 .. Len(Event) : DeliveredBefore(Event[m].id)
      /\ \A m, n \in 1 .. Len(Event) : m < n => Event[m].id < Event[n].id
      /\ \A m \in 1 .. Len(Event) : Event[m].whole <=> m = Len(Event)
  <2>1. /\ Event[Len(Event)].id = wire[1] /\ Event[Len(Event)].whole
        /\ Len(Event) = Len(buffer) + 1 /\ Len(buffer) \in Nat
    BY <1>2, Lengths, EventShape
  <2>2. \A m \in 1 .. Len(buffer) :
          Event[m].id = buffer[m].id /\ Event[m].whole = buffer[m].whole
    BY EventShape
  <2>3. \A m \in 1 .. Len(Event) : DeliveredBefore(Event[m].id)
    BY <1>2, <2>1, <2>2 DEF OrderInv, BufferInv, WireInv
  <2>4. \A m \in 1 .. Len(buffer) : buffer[m].id < wire[1]
    BY <1>2 DEF OrderInv, WireInv, BufferedBefore
  <2>5. \A m, n \in 1 .. Len(Event) : m < n => Event[m].id < Event[n].id
    BY <1>2, <2>1, <2>2, <2>4 DEF OrderInv, BufferInv
  <2>6. \A m \in 1 .. Len(Event) : Event[m].whole <=> m = Len(Event)
    BY <1>2, <2>1, <2>2 DEF OrderInv, BufferInv
  <2>7. QED
    BY <2>3, <2>5, <2>6
<1>4. Ordered'
  <2>1. \A i, j \in 1 .. Len(events') :
          \A m \in 1 .. Len(events'[i]), n \in 1 .. Len(events'[j]) :
            i < j \/ (i = j /\ m < n) => events'[i][m].id < events'[j][n].id
    <3> TAKE i, j \in 1 .. Len(events')
    <3> TAKE m \in 1 .. Len(events'[i]), n \in 1 .. Len(events'[j])
    <3> HAVE i < j \/ (i = j /\ m < n)
    <3>1. CASE j # Len(events) + 1
      <4>1. i \in 1 .. Len(events) /\ j \in 1 .. Len(events)
        BY <1>1, <3>1, Lengths
      <4>2. QED
        BY <1>1, <4>1 DEF OrderInv, Ordered
    <3>2. CASE i # Len(events) + 1 /\ j = Len(events) + 1
      <4>1. i \in 1 .. Len(events)
        BY <1>1, <3>2, Lengths
      <4>2. QED
        BY <1>1, <1>3, <3>2, <4>1 DEF DeliveredBefore
    <3>3. CASE i = Len(events) + 1 /\ j = Len(events) + 1
      BY <1>1, <1>3, <3>3
    <3>4. QED
      BY <1>1, <3>1, <3>2, <3>3, Lengths
  <2>2. QED
    BY <2>1, Zenon DEF Ordered
<1>5. WholeAtEnd'
  BY <1>1, <1>3, Lengths DEF OrderInv, WholeAtEnd
<1>6. ASSUME NEW n \in Nat, DeliveredBefore(n), BufferedBefore(n), wire[1] < n
      PROVE  DeliveredBefore(n)'
  <2>1. Event[Len(Event)].id = wire[1]
    BY <1>2, Lengths, EventShape
  <2>2. \A m \in 1 .. Len(buffer) : Event[m].id = buffer[m].id
    BY EventShape
  <2>3. \A m \in 1 .. Len(Event) : Event[m].id < n
    BY <1>2, <1>6, <2>1, <2>2 DEF BufferedBefore
  <2>4. \A i \in 1 .. Len(events') : i # Len(events) + 1 => i \in 1 .. Len(events)
    BY <1>1, Lengths
  <2>5. QED
    BY <1>1, <1>6, <2>3, <2>4 DEF DeliveredBefore
<1>7. QED
  BY <1>4, <1>5, <1>6

\* A step that delivers nothing and only forgets pieces or messages.
LEMMA ForgettingKeepsOrder ==
  ASSUME TypeOK, OrderInv, thread # "ended" \/ thread' = "ended",
         events' = events, sent' = sent,
         buffer' = buffer, wire' = wire \/ wire' = <<>>
  PROVE  OrderInv'
<1>1. Ordered' /\ WholeAtEnd'
  BY DEF OrderInv, Ordered, WholeAtEnd
<1>2. ASSUME thread' # "ended" PROVE BufferInv' /\ WireInv'
  BY <1>2 DEF OrderInv, BufferInv, WireInv, DeliveredBefore, BufferedBefore
<1>3. QED
  BY <1>1, <1>2 DEF OrderInv

\* A message is numbered higher than everything before it.
LEMMA SendKeepsOrder ==
  ASSUME TypeOK, OrderInv, Send
  PROVE  OrderInv'
<1>1. /\ events' = events /\ buffer' = buffer /\ thread' = thread
      /\ sent' = sent + 1
  BY DEF Send
<1>2. /\ Len(wire') = Len(wire) + 1 /\ wire'[Len(wire) + 1] = sent + 1
      /\ \A k \in 1 .. Len(wire) : wire'[k] = wire[k]
  <2>1. sent + 1 \in 1 .. MaxSent /\ wire \in Seq(1 .. MaxSent)
    BY MaxSentAssumption DEF Send, TypeOK
  <2>2. QED
    BY <2>1, AppendProperties DEF Send
<1>3. Ordered' /\ WholeAtEnd'
  BY <1>1 DEF OrderInv, Ordered, WholeAtEnd
<1>4. ASSUME thread # "ended" PROVE BufferInv' /\ WireInv'
  <2>1. BufferInv'
    BY <1>1, <1>4 DEF OrderInv, BufferInv, DeliveredBefore
  <2>2. \A k \in 1 .. Len(wire') : k = Len(wire) + 1 \/ k \in 1 .. Len(wire)
    BY <1>2, Lengths
  <2>3. /\ \A k \in 1 .. Len(wire') : DeliveredBefore(wire'[k]) /\ BufferedBefore(wire'[k])
        /\ \A k \in 1 .. Len(wire') : wire'[k] <= sent'
        /\ \A j, k \in 1 .. Len(wire') : j < k => wire'[j] < wire'[k]
    <3>1. \A k \in 1 .. Len(wire') : DeliveredBefore(wire'[k]) /\ BufferedBefore(wire'[k])
      BY <1>2, <1>4, <2>2 DEF OrderInv, WireInv
    <3>2. \A k \in 1 .. Len(wire) : wire[k] \in Nat /\ wire[k] <= sent
      BY <1>4, Lengths DEF OrderInv, WireInv
    <3>3. \A k \in 1 .. Len(wire') : wire'[k] <= sent'
      BY <1>1, <1>2, <2>2, <3>2, Lengths
    <3>4. \A j, k \in 1 .. Len(wire') : j < k => wire'[j] < wire'[k]
      <4> SUFFICES ASSUME NEW j \in 1 .. Len(wire'), NEW k \in 1 .. Len(wire'), j < k
                   PROVE  wire'[j] < wire'[k]
        OBVIOUS
      <4>1. j \in 1 .. Len(wire)
        BY <1>2, Lengths
      <4>2. CASE k = Len(wire) + 1
        BY <1>2, <3>2, <4>1, <4>2, Lengths
      <4>3. CASE k \in 1 .. Len(wire)
        BY <1>2, <1>4, <4>1, <4>3 DEF OrderInv, WireInv
      <4>4. QED
        BY <2>2, <4>2, <4>3
    <3>5. QED
      BY <3>1, <3>3, <3>4
  <2>4. /\ \A i \in 1 .. Len(events) : \A m \in 1 .. Len(events[i]) : events[i][m].id < sent + 1
        /\ \A m \in 1 .. Len(buffer) : buffer[m].id < sent + 1
    BY <1>4 DEF OrderInv, WireInv, DeliveredBefore, BufferedBefore
  <2>5. (DeliveredBefore(sent + 1) /\ BufferedBefore(sent + 1))'
    <3>1. /\ \A i \in 1 .. Len(events) : \A m \in 1 .. Len(events[i]) :
                 events[i][m].id \in Int
          /\ \A m \in 1 .. Len(buffer) : buffer[m].id \in Int
      BY Lengths, MaxSentAssumption DEF Piece
    <3>2. /\ \A i \in 1 .. Len(events) : \A m \in 1 .. Len(events[i]) :
                 events[i][m].id < sent + 2
          /\ \A m \in 1 .. Len(buffer) : buffer[m].id < sent + 2
      BY <2>4, <3>1, Lengths
    <3>3. (sent + 1)' = sent + 2
      BY <1>1, Lengths
    <3>4. QED
      BY <1>1, <3>2, <3>3 DEF DeliveredBefore, BufferedBefore
  <2>6. QED
    BY <1>1, <2>1, <2>3, <2>5 DEF WireInv, DeliveredBefore, BufferedBefore
<1>5. QED
  BY <1>1, <1>3, <1>4 DEF OrderInv

\* OnRead and OnReadThrows.
LEMMA ReadKeepsOrder ==
  ASSUME TypeOK, OrderInv, thread # "ended", wire # <<>>,
         events' = Append(events, Event), wire' = Tail(wire), sent' = sent,
         buffer' = <<>> \/ thread' = "ended"
  PROVE  OrderInv'
<1>1. Ordered' /\ WholeAtEnd'
  BY DeliverKeepsOrder
<1>2. ASSUME thread' # "ended" PROVE BufferInv' /\ WireInv'
  <2>1. buffer' = <<>> /\ Len(buffer') = 0
    BY <1>2
  <2>2. BufferInv' /\ \A n : BufferedBefore(n)'
    BY <2>1 DEF BufferInv, BufferedBefore
  <2>3. /\ Len(wire') = Len(wire) - 1 /\ Len(wire) \in Nat
        /\ \A k \in 1 .. Len(wire') : wire'[k] = wire[k + 1]
        /\ 1 \in 1 .. Len(wire)
    BY HeadTailProperties, Lengths, EmptySeq DEF TypeOK
  <2>4. \A k \in 1 .. Len(wire') : k + 1 \in 1 .. Len(wire)
    BY <2>3
  <2>5. \A k \in 1 .. Len(wire') : /\ wire[1] < wire'[k] /\ wire'[k] \in Nat
                                   /\ DeliveredBefore(wire'[k]) /\ BufferedBefore(wire'[k])
                                   /\ wire'[k] <= sent
    BY <2>3, <2>4, Lengths DEF OrderInv, WireInv
  <2>6. \A n \in Nat : DeliveredBefore(n) /\ BufferedBefore(n) /\ wire[1] < n
                       => DeliveredBefore(n)'
    BY DeliverKeepsOrder
  <2>7. (\A k \in 1 .. Len(wire) : DeliveredBefore(wire[k]))'
    <3>1. \A k \in 1 .. Len(wire') : \A n \in Nat : n = wire'[k] => DeliveredBefore(n)'
      BY <2>5, <2>6
    <3>2. QED
      BY <2>5, <3>1 DEF DeliveredBefore
  <2>8. DeliveredBefore(sent + 1)'
    <3>1. sent + 1 \in Nat /\ wire[1] < sent + 1 /\ DeliveredBefore(sent + 1)
          /\ BufferedBefore(sent + 1)
      BY <2>3, Lengths DEF OrderInv, WireInv
    <3>2. \A n \in Nat : n = sent + 1 => DeliveredBefore(n)'
      BY <2>6, <3>1
    <3>3. QED
      BY <3>1, <3>2 DEF DeliveredBefore
  <2>9. \A j, k \in 1 .. Len(wire') : j < k => wire'[j] < wire'[k]
    BY <2>3, <2>4 DEF OrderInv, WireInv
  <2>10. QED
    BY <2>1, <2>2, <2>5, <2>7, <2>8, <2>9 DEF WireInv, BufferedBefore
<1>3. QED
  BY <1>1, <1>2 DEF OrderInv

\* OnReadFails: the buffer may keep the beginning of the first message.
LEMMA FailedReadKeepsOrder ==
  ASSUME TypeOK, OrderInv, thread # "ended", OnReadFails
  PROVE  OrderInv'
<1>1. events' = events /\ wire' = <<>> /\ sent' = sent /\ thread' = thread
  BY DEF OnReadFails
<1>2. CASE buffer' = buffer
  BY <1>1, <1>2, ForgettingKeepsOrder
<1>3. CASE wire # <<>> /\ buffer' = Append(buffer, [id |-> Head(wire), whole |-> FALSE])
  <2>1. /\ Len(buffer') = Len(buffer) + 1 /\ Len(buffer) \in Nat
        /\ \A m \in 1 .. Len(buffer) : buffer'[m] = buffer[m]
        /\ buffer'[Len(buffer) + 1] = [id |-> Head(wire), whole |-> FALSE]
    <3>1. buffer \in Seq(Piece) /\ [id |-> Head(wire), whole |-> FALSE] \in Piece
      BY <1>3, WireHead DEF TypeOK
    <3>2. QED
      BY <1>3, <3>1, AppendProperties, Lengths
  <2>2. wire[1] = Head(wire) /\ 1 \in 1 .. Len(wire) /\ wire[1] \in Nat
    BY <1>3, Lengths, EmptySeq DEF TypeOK
  <2>3. \A m \in 1 .. Len(buffer') : m = Len(buffer) + 1 \/ m \in 1 .. Len(buffer)
    BY <2>1
  <2>4. /\ DeliveredBefore(wire[1]) /\ wire[1] < sent + 1
        /\ \A m \in 1 .. Len(buffer) : buffer[m].id < wire[1]
    BY <2>2, Lengths DEF OrderInv, WireInv, BufferedBefore
  <2>5. BufferInv'
    <3>1. \A m, n \in 1 .. Len(buffer') : m < n => buffer'[m].id < buffer'[n].id
      BY <2>1, <2>2, <2>3, <2>4 DEF OrderInv, BufferInv
    <3>2. \A m \in 1 .. Len(buffer') : ~buffer'[m].whole /\ DeliveredBefore(buffer'[m].id)
      BY <2>1, <2>2, <2>3, <2>4 DEF OrderInv, BufferInv
    <3>3. QED
      BY <1>1, <3>1, <3>2 DEF BufferInv, DeliveredBefore
  <2>6. WireInv'
    <3>1. \A m \in 1 .. Len(buffer) : buffer[m].id < sent + 1
      BY DEF OrderInv, WireInv, BufferedBefore
    <3>2. \A m \in 1 .. Len(buffer') : buffer'[m].id < sent + 1
      BY <2>1, <2>2, <2>3, <2>4, <3>1
    <3>3. DeliveredBefore(sent + 1)
      BY DEF OrderInv, WireInv
    <3>4. QED
      BY <1>1, <3>2, <3>3 DEF WireInv, DeliveredBefore, BufferedBefore
  <2>7. Ordered'
    <3>1. Ordered
      BY DEF OrderInv
    <3>2. QED
      BY <1>1, <3>1 DEF Ordered
  <2>8. WholeAtEnd'
    <3>1. WholeAtEnd
      BY DEF OrderInv
    <3>2. QED
      BY <1>1, <3>1 DEF WholeAtEnd
  <2>9. QED
    BY <2>5, <2>6, <2>7, <2>8 DEF OrderInv
<1>4. QED
  BY <1>2, <1>3 DEF OnReadFails

\* Every step keeps the messages in order.
LEMMA NextOrder == IInv /\ OrderInv /\ [Next]_vars => OrderInv'
<1> SUFFICES ASSUME IInv, TypeOK, OrderInv, [Next]_vars PROVE OrderInv'
  BY DEF IInv
<1>1. CASE OnRead
  BY <1>1, ReadKeepsOrder DEF OnRead, Completes, Running
<1>2. CASE OnReadThrows
  BY <1>2, ReadKeepsOrder DEF OnReadThrows, Completes, Running
<1>3. CASE OnReadFails
  BY <1>3, FailedReadKeepsOrder DEF OnReadFails, Reconnect, Completes, Running
<1>4. CASE Send
  BY <1>4, SendKeepsOrder
<1>5. CASE UNCHANGED vars
  BY <1>5 DEF vars, OrderInv, Ordered, WholeAtEnd, BufferInv, WireInv, DeliveredBefore,
     BufferedBefore
<1>6. CASE Next /\ ~OnRead /\ ~OnReadThrows /\ ~OnReadFails /\ ~Send
  <2>1. /\ events' = events /\ sent' = sent /\ buffer' = buffer
        /\ wire' = wire \/ wire' = <<>>
        /\ thread # "ended" \/ thread' = "ended"
    BY <1>6 DEF Next, Completion, Failure, ThreadStart, OnResolve, OnResolveFails,
       OnConnect, OnConnectFails, OnHandshake, OnHandshakeFails, OnReadCrashes, OnClose,
       OnCloseFails, RunReturns, Destroy, Joined
  <2>2. QED
    BY <2>1, ForgettingKeepsOrder
<1>7. QED
  BY <1>1, <1>2, <1>3, <1>4, <1>5, <1>6

\* Nothing was sent at first.
LEMMA InitialOrder == Init => OrderInv
BY DEF Init, OrderInv, Ordered, WholeAtEnd, BufferInv, WireInv, DeliveredBefore,
   BufferedBefore

(* The handler is given the messages in order and none of them twice, for   *)
(* any number of messages, failures and reconnections (ws_client.cc:        *)
(* 105-124).                                                                *)
THEOREM DeliveryInOrder == Spec => []EventsInOrder
<1>1. IInv /\ OrderInv => EventsInOrder
  <2> SUFFICES ASSUME TypeOK, OrderInv PROVE EventsInOrder
    BY DEF IInv
  <2> DEFINE read == IF thread = "ended" THEN events ELSE Append(events, buffer)
  <2>1. events \in Seq(Seq(Piece)) /\ buffer \in Seq(Piece)
    BY DEF TypeOK
  <2>2. /\ \A i \in DOMAIN events : i \in 1 .. Len(events) /\ DOMAIN events[i] = 1 .. Len(events[i])
        /\ DOMAIN buffer = 1 .. Len(buffer)
    BY <2>1, ElementOfSeq, LenProperties
  <2>3. \A i \in DOMAIN events : \A m \in DOMAIN events[i] :
          events[i][m].whole <=> m = Len(events[i])
    BY <2>2 DEF OrderInv, WholeAtEnd
  <2>4. CASE thread = "ended"
    BY <2>2, <2>3, <2>4 DEF OrderInv, Ordered, EventsInOrder
  <2>5. CASE thread # "ended"
    <3>1. /\ DOMAIN read = 1 .. Len(events) + 1 /\ Len(events) \in Nat
          /\ \A i \in 1 .. Len(events) : read[i] = events[i]
          /\ read[Len(events) + 1] = buffer
      BY <2>1, <2>5, AppendProperties, LenProperties
    <3>2. \A i \in DOMAIN read : i \in 1 .. Len(events) \/ i = Len(events) + 1
      BY <3>1
    <3>3. ASSUME NEW i \in DOMAIN read, NEW j \in DOMAIN read,
                 NEW m \in DOMAIN read[i], NEW n \in DOMAIN read[j],
                 i < j \/ (i = j /\ m < n)
          PROVE  read[i][m].id < read[j][n].id
      <4>1. CASE i \in 1 .. Len(events) /\ j \in 1 .. Len(events)
        BY <2>1, <2>2, <3>1, <3>3, <4>1, LenProperties DEF OrderInv, Ordered
      <4>2. CASE i \in 1 .. Len(events) /\ j = Len(events) + 1
        <5>1. m \in 1 .. Len(events[i]) /\ n \in 1 .. Len(buffer)
          BY <2>1, <2>2, <3>1, <4>2, LenProperties
        <5>2. QED
          BY <2>5, <3>1, <4>2, <5>1 DEF OrderInv, BufferInv, DeliveredBefore
      <4>3. CASE i = Len(events) + 1 /\ j = Len(events) + 1
        BY <2>2, <2>5, <3>1, <3>3, <4>3 DEF OrderInv, BufferInv
      <4>4. QED
        BY <3>1, <3>2, <3>3, <4>1, <4>2, <4>3
    <3>4. QED
      BY <2>3, <3>3 DEF EventsInOrder
  <2>6. QED
    BY <2>4, <2>5
<1>2. QED
  BY <1>1, InitialIInv, NextIInv, InitialOrder, NextOrder, PTL DEF Spec

-----------------------------------------------------------------------------
(* The first connection.  Until an operation has failed, nothing that was   *)
(* sent has left the wire but as an event.                                  *)

CleanInv ==
  last_error = "none" =>
    /\ buffer = <<>> /\ "close" \notin pending
    /\ thread = "starting" \/ pending \cap {"resolve", "connect", "handshake"} # {} =>
         link # "open" /\ sent = 0
    /\ sent = Len(events) + Len(wire)
    /\ \A i \in 1 .. Len(events) : events[i] = <<[id |-> i, whole |-> TRUE]>>
    /\ \A k \in 1 .. Len(wire) : wire[k] = Len(events) + k

\* Nothing was sent at first.
LEMMA InitialClean == Init => CleanInv
BY DEF Init, CleanInv

\* Before the first message there is nothing on the wire and no event.
LEMMA NothingYet ==
  ASSUME TypeOK, CleanInv, last_error = "none", sent = 0
  PROVE  events = <<>> /\ wire = <<>>
<1>1. Len(events) = 0 /\ Len(wire) = 0
  <2>1. Len(events) \in Nat /\ Len(wire) \in Nat
    BY Lengths
  <2>2. Len(events) + Len(wire) = 0
    BY DEF CleanInv
  <2>3. QED
    BY <2>1, <2>2
<1>2. QED
  BY <1>1, EmptySeq DEF TypeOK

\* The first message on the wire becomes the next event, alone and whole.
LEMMA ReadKeepsClean ==
  ASSUME TypeOK, CleanInv, OnRead
  PROVE  CleanInv'
<1> SUFFICES ASSUME last_error = "none" PROVE CleanInv'
  BY DEF OnRead, CleanInv
<1>1. /\ buffer = <<>> /\ buffer' = <<>> /\ "close" \notin pending
      /\ pending' = (pending \ {"read"}) \cup {"read"}
      /\ thread' = thread /\ link' = link /\ sent' = sent /\ wire # <<>>
      /\ events' = Append(events, Event) /\ wire' = Tail(wire)
  BY DEF OnRead, Completes, CleanInv
<1>2. Len(events) \in Nat /\ Len(wire) \in Nat
  BY Lengths
<1>3. /\ Len(wire') = Len(wire) - 1
      /\ \A k \in 1 .. Len(wire') : wire'[k] = wire[k + 1]
      /\ 1 \in 1 .. Len(wire) /\ Head(wire) = wire[1]
  BY <1>1, <1>2, HeadTailProperties, EmptySeq DEF TypeOK
<1>4. Event = <<[id |-> Len(events) + 1, whole |-> TRUE]>>
  <2>1. Head(wire) = Len(events) + 1
    BY <1>3 DEF CleanInv
  <2>2. /\ Event \in Seq(Piece) /\ Len(Event) = 1
        /\ Event[1] = [id |-> Len(events) + 1, whole |-> TRUE]
    BY <1>1, <2>1, EventShape
  <2>3. QED
    BY <2>2
<1>5. /\ Len(events') = Len(events) + 1
      /\ \A i \in 1 .. Len(events) : events'[i] = events[i]
      /\ events'[Len(events) + 1] = Event
  <2>1. events \in Seq(Seq(Piece)) /\ Event \in Seq(Piece)
    BY <1>1, EventShape DEF TypeOK
  <2>2. QED
    BY <1>1, <2>1, AppendProperties
<1>6. \A i \in 1 .. Len(events') : events'[i] = <<[id |-> i, whole |-> TRUE]>>
  <2> TAKE i \in 1 .. Len(events')
  <2>1. CASE i \in 1 .. Len(events)
    BY <1>5, <2>1 DEF CleanInv
  <2>2. CASE i = Len(events) + 1
    BY <1>4, <1>5, <2>2
  <2>3. QED
    BY <1>2, <1>5, <2>1, <2>2
<1>7. \A k \in 1 .. Len(wire') : wire'[k] = Len(events') + k
  <2> TAKE k \in 1 .. Len(wire')
  <2>1. k + 1 \in 1 .. Len(wire) /\ k \in Nat
    BY <1>2, <1>3
  <2>2. wire'[k] = Len(events) + (k + 1)
    BY <1>3, <2>1 DEF CleanInv
  <2>3. QED
    BY <1>2, <1>5, <2>1, <2>2
<1>8. sent' = Len(events') + Len(wire')
  <2>1. sent = Len(events) + Len(wire)
    BY DEF CleanInv
  <2>2. QED
    BY <1>1, <1>2, <1>3, <1>5, <2>1
<1>9. thread' = "starting" \/ pending' \cap {"resolve", "connect", "handshake"} # {} =>
        link' # "open" /\ sent' = 0
  BY <1>1 DEF CleanInv, OnRead, Completes, Running
<1>10. QED
  BY <1>1, <1>6, <1>7, <1>8, <1>9 DEF CleanInv

\* The next message goes to the end of the wire.
LEMMA SendKeepsClean ==
  ASSUME TypeOK, CleanInv, Send
  PROVE  CleanInv'
<1> SUFFICES ASSUME last_error = "none" PROVE CleanInv'
  BY DEF Send, CleanInv
<1>1. /\ events' = events /\ buffer' = buffer /\ thread' = thread
      /\ pending' = pending /\ link = "open" /\ link' = link /\ sent' = sent + 1
  BY DEF Send
<1>2. Len(events) \in Nat /\ Len(wire) \in Nat /\ sent = Len(events) + Len(wire)
  BY Lengths DEF CleanInv
<1>3. /\ Len(wire') = Len(wire) + 1 /\ wire'[Len(wire) + 1] = sent + 1
      /\ \A k \in 1 .. Len(wire) : wire'[k] = wire[k]
  <2>1. sent + 1 \in 1 .. MaxSent /\ wire \in Seq(1 .. MaxSent)
    BY MaxSentAssumption DEF Send, TypeOK
  <2>2. QED
    BY <2>1, AppendProperties DEF Send
<1>4. \A k \in 1 .. Len(wire') : wire'[k] = Len(events') + k
  <2> TAKE k \in 1 .. Len(wire')
  <2>1. CASE k \in 1 .. Len(wire)
    BY <1>1, <1>3, <2>1 DEF CleanInv
  <2>2. CASE k = Len(wire) + 1
    BY <1>1, <1>2, <1>3, <2>2
  <2>3. QED
    BY <1>2, <1>3, <2>1, <2>2
<1>5. sent' = Len(events') + Len(wire')
  BY <1>1, <1>2, <1>3
<1>6. /\ buffer' = <<>> /\ "close" \notin pending'
      /\ thread' # "starting" /\ pending' \cap {"resolve", "connect", "handshake"} = {}
      /\ \A i \in 1 .. Len(events') : events'[i] = <<[id |-> i, whole |-> TRUE]>>
  BY <1>1 DEF CleanInv
<1>7. QED
  BY <1>4, <1>5, <1>6 DEF CleanInv

\* Every step keeps the first connection complete.
LEMMA NextClean == IInv /\ CleanInv /\ [Next]_vars => CleanInv'
<1> SUFFICES ASSUME TypeOK, ChainInv, CleanInv, [Next]_vars PROVE CleanInv'
  BY DEF IInv
<1>1. CASE ThreadStart
  BY <1>1 DEF ThreadStart, CleanInv
<1>2. CASE OnResolve \/ OnConnect
  <2> SUFFICES ASSUME last_error = "none" PROVE CleanInv'
    BY <1>2 DEF OnResolve, OnConnect, CleanInv
  <2>1. sent = 0 /\ events = <<>> /\ wire = <<>>
    BY <1>2, NothingYet DEF OnResolve, OnConnect, Completes, CleanInv
  <2>2. QED
    BY <1>2, <2>1 DEF OnResolve, OnConnect, Completes, CleanInv
<1>3. CASE OnHandshake
  BY <1>3 DEF OnHandshake, Completes, Running, CleanInv, ChainInv, Stopped, TypeOK
<1>4. CASE OnRead
  BY <1>4, ReadKeepsClean
<1>5. CASE OnReadCrashes
  BY <1>5 DEF OnReadCrashes, Completes, CleanInv
<1>6. CASE OnResolveFails \/ OnConnectFails \/ OnHandshakeFails \/ OnReadFails \/ OnReadThrows
  BY <1>6 DEF OnResolveFails, OnConnectFails, OnHandshakeFails, OnReadFails, OnReadThrows,
     Reconnect, CleanInv
<1>7. CASE OnClose \/ OnCloseFails
  BY <1>7 DEF OnClose, OnCloseFails, Completes, CleanInv
<1>8. CASE RunReturns
  BY <1>8 DEF RunReturns, CleanInv
<1>9. CASE Destroy
  BY <1>9 DEF Destroy, CleanInv
<1>10. CASE Joined
  BY <1>10 DEF Joined, CleanInv, ChainInv, Stopped
<1>11. CASE Send
  BY <1>11, SendKeepsClean
<1>12. CASE UNCHANGED vars
  BY <1>12 DEF vars, CleanInv
<1>13. QED
  BY <1>1, <1>2, <1>3, <1>4, <1>5, <1>6, <1>7, <1>8, <1>9, <1>10, <1>11, <1>12
     DEF Next, Completion, Failure

(* Until an operation has failed the handler has been given every message   *)
(* that was sent and is no longer to be read, each by itself, for any       *)
(* number of messages (ws_client.cc:105-124).                               *)
THEOREM FirstConnectionIsComplete == Spec => []CompleteUntilFailure
<1>1. IInv /\ CleanInv => CompleteUntilFailure
  <2> SUFFICES ASSUME TypeOK, CleanInv PROVE CompleteUntilFailure
    BY DEF IInv
  <2>1. DOMAIN events = 1 .. Len(events) /\ DOMAIN wire = 1 .. Len(wire)
    BY LenProperties DEF TypeOK
  <2>2. QED
    BY <2>1 DEF CleanInv, CompleteUntilFailure
<1>2. QED
  BY <1>1, InitialIInv, NextIInv, InitialClean, NextClean, PTL DEF Spec
=============================================================================
