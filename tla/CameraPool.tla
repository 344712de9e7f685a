----------------------------- MODULE CameraPool -----------------------------
(***************************************************************************)
(* The class Camera of xdaqvc/camera.cc with the pool of ports that all    *)
(* cameras of a process share (xdaqvc/port_pool.cc), and the streams that  *)
(* the server sends because of start() and stop().                         *)
(*                                                                         *)
(* Camera has a destructor and the implicit copy operations, so that a     *)
(* port can belong to several objects.  The requests are blocking calls    *)
(* with a timeout: the server, which is external, may carry out a request  *)
(* after its sender has given up on it.                                    *)
(***************************************************************************)
EXTENDS Integers, FiniteSets

CONSTANTS
  Object,      \* the places where the application keeps Camera objects
  Id,          \* the cameras of the server
  PoolStart, PoolEnd,  \* the range of the pool: 9000 and 9010 in camera.cc
  MaxLate,     \* bound: requests that timed out and were not carried out yet
  NoCamera, NoPort

Port == PoolStart .. PoolEnd - 1

ASSUME CameraPoolAssumption ==
  /\ PoolStart \in Nat /\ PoolEnd \in Nat /\ MaxLate \in Nat
  /\ NoPort \notin Port
  /\ NoCamera \notin [id : Id, port : Port]

VARIABLES
  available,   \* pool._available_ports
  camera,      \* the Camera object at each place: its _id and _port
  stream,      \* the server: the port to which it streams each camera
  late,        \* requests that may still reach the server
  copied,      \* history: ports of Camera objects that were copied
  lost,        \* history: ports whose Camera object vanished without ~Camera
  abandoned    \* history: ports released while the server might stream to them

vars == <<available, camera, stream, late, copied, lost, abandoned>>
history == <<copied, lost, abandoned>>

Camera == [id : Id, port : Port]
Request == [id : Id, port : Port \cup {NoPort}]  \* NoPort: a stop request

Live(o) == camera[o] # NoCamera
Place(o, c) == camera' = [camera EXCEPT ![o] = c]

-----------------------------------------------------------------------------
(* PortPool                                                                 *)

\* Seeded fault: the loop of the constructor runs to the end inclusive.
AllPortsInclusive == PoolStart .. PoolEnd

\* The ports that the constructor inserts.
AllPorts == {port \in PoolStart .. PoolEnd : port < PoolEnd}

\* Seeded fault: the port is handed out and stays in the set.
allocate_port_keeps(port) == port \in available /\ UNCHANGED available

\* *begin() of an unordered_set is any element.
allocate_port(port) == port \in available /\ available' = available \ {port}

\* Seeded fault: the first port of the range is taken for one outside it.
release_port_skips_first(port) ==
  available' = IF PoolStart < port /\ port < PoolEnd THEN available \cup {port} ELSE available

release_port(port) ==
  available' = IF PoolStart <= port /\ port < PoolEnd THEN available \cup {port} ELSE available

-----------------------------------------------------------------------------
(* The objects.                                                             *)

Construct(o, id) ==
  /\ ~Live(o)
  /\ \E port \in Port : allocate_port(port) /\ Place(o, [id |-> id, port |-> port])
  /\ UNCHANGED <<stream, late, history>>

\* The pool is empty: allocate_port throws, and nothing has changed.
ConstructRefused == available = {} /\ UNCHANGED vars

\* Copying the name throws: the port is taken and no destructor will run.
ConstructThrows ==
  /\ \E port \in Port : allocate_port(port) /\ lost' = lost \cup {port}
  /\ UNCHANGED <<camera, stream, late, copied, abandoned>>

CopyConstruct(o, from) ==
  /\ ~Live(o) /\ Live(from)
  /\ Place(o, camera[from])
  /\ copied' = copied \cup {camera[from].port}
  /\ UNCHANGED <<available, stream, late, lost, abandoned>>

CopyAssign(o, from) ==
  /\ o # from /\ Live(o) /\ Live(from)
  /\ Place(o, camera[from])
  /\ lost' = lost \cup {camera[o].port}
  /\ copied' = copied \cup {camera[from].port}
  /\ UNCHANGED <<available, stream, late, abandoned>>

\* The server streams to the port, or has yet to read a request to do so.
InUse(port) ==
  \/ \E id \in Id : stream[id] = port
  \/ \E r \in late : r.port = port

\* ~Camera releases the port; it does not stop the camera.
Destroy(o) ==
  /\ Live(o)
  /\ release_port(camera[o].port)
  /\ Place(o, NoCamera)
  /\ abandoned' = IF InUse(camera[o].port) THEN abandoned \cup {camera[o].port}
                                           ELSE abandoned
  /\ UNCHANGED <<stream, late, copied, lost>>

-----------------------------------------------------------------------------
(* start and stop, and the server.                                          *)

Serve(r) == stream' = [stream EXCEPT ![r.id] = r.port]

\* Seeded fault: the request carries the first port of the range.
StartRequestDefaultPort(o) == [id |-> camera[o].id, port |-> PoolStart]

StartRequest(o) == [id |-> camera[o].id, port |-> camera[o].port]
StopRequest(o) == [id |-> camera[o].id, port |-> NoPort]

\* The reply is read in time; a refused request, which is only logged, changes
\* nothing.
Served(r) == Serve(r) /\ UNCHANGED <<available, camera, late, history>>

\* The timeout expires first.
TimesOut(r) ==
  /\ Cardinality(late \cup {r}) <= MaxLate
  /\ late' = late \cup {r}
  /\ UNCHANGED <<available, camera, stream, history>>

start(o) == Live(o) /\ (Served(StartRequest(o)) \/ TimesOut(StartRequest(o)))
stop(o) == Live(o) /\ (Served(StopRequest(o)) \/ TimesOut(StopRequest(o)))

\* The server carries out a request of a departed client, or never gets it.
ServeLate ==
  /\ \E r \in late : Serve(r) /\ late' = late \ {r}
  /\ UNCHANGED <<available, camera, history>>

LoseLate ==
  /\ \E r \in late : late' = late \ {r}
  /\ UNCHANGED <<available, camera, stream, history>>

-----------------------------------------------------------------------------
Init ==
  /\ available = AllPorts
  /\ camera = [o \in Object |-> NoCamera]
  /\ stream = [id \in Id |-> NoPort]
  /\ late = {} /\ copied = {} /\ lost = {} /\ abandoned = {}

Next ==
  \/ \E o \in Object :
       \/ \E id \in Id : Construct(o, id)
       \/ \E from \in Object : CopyConstruct(o, from) \/ CopyAssign(o, from)
       \/ Destroy(o)
       \/ start(o) \/ stop(o)
  \/ ConstructRefused \/ ConstructThrows
  \/ ServeLate \/ LoseLate

Spec == Init /\ [][Next]_vars

-----------------------------------------------------------------------------
TypeOK ==
  /\ available \subseteq Port
  /\ camera \in [Object -> Camera \cup {NoCamera}]
  /\ stream \in [Id -> Port \cup {NoPort}]
  /\ late \subseteq Request
  /\ copied \subseteq Port /\ lost \subseteq Port /\ abandoned \subseteq Port

(* No port disappears: one that is neither in the pool nor in a Camera was  *)
(* lost in one of the two ways the class allows, a constructor that throws  *)
(* after allocating and an assignment over a live object (camera.cc:30-35,  *)
(* port_pool.cc:13-29).                                                     *)
PortsAccounted ==
  \A port \in Port :
    \/ port \in available \cup lost
    \/ \E o \in Object : Live(o) /\ camera[o].port = port

(* Two live Camera objects have the same port, and a port in use can be     *)
(* handed out again, only if a Camera that had it was copied                *)
(* (camera.cc:31, 35).                                                      *)
PortsExclusive ==
  \A o \in Object : Live(o) /\ camera[o].port \notin copied =>
    /\ camera[o].port \notin available
    /\ \A other \in Object \ {o} : Live(other) => camera[other].port # camera[o].port

(* As long as no Camera was copied, assigned or half constructed, the pool  *)
(* neither loses capacity nor gains any, after any number of objects: a     *)
(* construction is refused exactly when PoolEnd - PoolStart cameras live    *)
(* (port_pool.cc:13-29, camera.cc:31, 35).                                  *)
PoolConserved ==
  copied = {} /\ lost = {} =>
    Cardinality(available) + Cardinality({o \in Object : Live(o)}) = Cardinality(Port)

(* The server sends two cameras to one port only if that port was released  *)
(* while a stream to it was running or a timed-out start was under way      *)
(* (camera.cc:35, 66-71, 84-89), or belonged to a Camera that was copied.   *)
StreamsApart ==
  \A i, j \in Id :
    i # j /\ stream[i] # NoPort /\ stream[i] = stream[j] =>
      stream[i] \in abandoned \cup copied
=============================================================================
