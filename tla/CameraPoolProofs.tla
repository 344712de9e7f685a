-------------------------- MODULE CameraPoolProofs --------------------------
(* The pool, the objects and the streams, for any number of Camera objects,  *)
(* cameras, ports and pending requests.                                      *)
EXTENDS CameraPool, FiniteSetTheorems, TLAPS

USE DEF history

-----------------------------------------------------------------------------
\* Camera id is streamed to port, or may yet be.
Uses(id, port) ==
  \/ stream[id] = port
  \/ \E r \in late : r.id = id /\ r.port = port

(* The inductive strengthening of StreamsApart.  A port that was neither    *)
(* abandoned nor copied is used by the camera of its owner only, or, when   *)
(* its owner was lost, by one camera, and by none when it is in the pool.   *)
StreamInv ==
  \A port \in Port \ (abandoned \cup copied) :
    /\ \A id \in Id : Uses(id, port) => port \notin available
    /\ \A id \in Id, o \in Object :
         Uses(id, port) /\ Live(o) /\ camera[o].port = port => camera[o].id = id
    /\ \A i, j \in Id : Uses(i, port) /\ Uses(j, port) => i = j

IInv == TypeOK /\ PortsAccounted /\ PortsExclusive /\ StreamInv

\* The requests of start and stop name the id of the object, and its port or none.
LEMMA RequestType ==
  ASSUME TypeOK, NEW o \in Object, Live(o)
  PROVE  /\ StartRequest(o) \in Request /\ StopRequest(o) \in Request
         /\ camera[o] \in Camera
         /\ StartRequest(o).id = camera[o].id /\ StartRequest(o).port = camera[o].port
         /\ StopRequest(o).port = NoPort
BY DEF TypeOK, Live, Camera, Request, StartRequest, StopRequest

\* A request is carried out or waits: in both cases the cameras and the pool
\* stay as they are, and only its own id and port gain a use.
Handled(r) == Served(r) \/ TimesOut(r)

\* A request that is answered or timed out adds at most its own use of a port.
LEMMA HandledUses ==
  ASSUME TypeOK, NEW r \in Request, Handled(r)
  PROVE  /\ TypeOK'
         /\ UNCHANGED <<available, camera, history>>
         /\ \A id \in Id, port \in Port :
              Uses(id, port)' => Uses(id, port) \/ (id = r.id /\ port = r.port)
BY DEF TypeOK, Handled, Served, TimesOut, Serve, Uses, Request

\* The server starts to use a port only if a pending request says so.
LEMMA ServerUses ==
  ASSUME TypeOK, ServeLate \/ LoseLate
  PROVE  /\ TypeOK'
         /\ UNCHANGED <<available, camera, history>>
         /\ \A id \in Id, port \in Port : Uses(id, port)' => Uses(id, port)
BY DEF TypeOK, ServeLate, LoseLate, Serve, Uses, Request

-----------------------------------------------------------------------------
\* The invariant holds before the first object is made.
LEMMA InitialIInv == Init => IInv
BY CameraPoolAssumption
DEF Init, IInv, TypeOK, PortsAccounted, PortsExclusive, StreamInv, Uses, Live, Port, AllPorts

\* Every operation preserves the invariant.
LEMMA NextIInv == IInv /\ [Next]_vars => IInv'
<1> SUFFICES ASSUME IInv, [Next]_vars PROVE IInv'
  OBVIOUS
<1> USE CameraPoolAssumption DEF IInv
<1>1. ASSUME NEW o \in Object, NEW id \in Id, Construct(o, id) PROVE IInv'
  <2>1. PICK port \in Port : allocate_port(port) /\ Place(o, [id |-> id, port |-> port])
    BY <1>1 DEF Construct
  <2>2. [id |-> id, port |-> port] \in Camera
    BY DEF Camera
  <2>3. TypeOK'
    BY <1>1, <2>1, <2>2 DEF Construct, TypeOK, allocate_port, Place
  <2>4. PortsAccounted'
    BY <1>1, <2>1, <2>2 DEF Construct, TypeOK, PortsAccounted, allocate_port, Place, Live, Camera
  <2>5. PortsExclusive'
    BY <1>1, <2>1, <2>2 DEF Construct, TypeOK, PortsExclusive, allocate_port, Place, Live, Camera
  <2>6. StreamInv'
    BY <1>1, <2>1, <2>2 DEF Construct, TypeOK, StreamInv, Uses, allocate_port, Place, Live, Camera
  <2>7. QED
    BY <2>3, <2>4, <2>5, <2>6
<1>2. CASE ConstructRefused \/ UNCHANGED vars
  BY <1>2 DEF ConstructRefused, vars, TypeOK, PortsAccounted, PortsExclusive, StreamInv,
     Uses, Live
<1>3. CASE ConstructThrows
  <2>1. TypeOK'
    BY <1>3 DEF ConstructThrows, TypeOK, allocate_port
  <2>2. PortsAccounted' /\ PortsExclusive'
    BY <1>3 DEF ConstructThrows, PortsAccounted, PortsExclusive, allocate_port, Live
  <2>3. StreamInv'
    BY <1>3 DEF ConstructThrows, StreamInv, Uses, allocate_port, Live
  <2>4. QED
    BY <2>1, <2>2, <2>3
<1>4. ASSUME NEW o \in Object, NEW from \in Object, CopyConstruct(o, from) PROVE IInv'
  <2>1. camera[from] \in Camera /\ camera[from].port \in Port
    BY <1>4 DEF CopyConstruct, TypeOK, Live, Camera
  <2>2. TypeOK'
    BY <1>4, <2>1 DEF CopyConstruct, TypeOK, Place
  <2>3. PortsAccounted'
    BY <1>4, <2>1 DEF CopyConstruct, TypeOK, PortsAccounted, Place, Live
  <2>4. PortsExclusive'
    BY <1>4, <2>1 DEF CopyConstruct, TypeOK, PortsExclusive, Place, Live
  <2>5. StreamInv'
    BY <1>4, <2>1 DEF CopyConstruct, TypeOK, StreamInv, Uses, Place, Live
  <2>6. QED
    BY <2>2, <2>3, <2>4, <2>5
<1>5. ASSUME NEW o \in Object, NEW from \in Object, CopyAssign(o, from) PROVE IInv'
  <2>1. /\ camera[from] \in Camera /\ camera[from].port \in Port
        /\ camera[o] \in Camera /\ camera[o].port \in Port
    BY <1>5 DEF CopyAssign, TypeOK, Live, Camera
  <2>2. TypeOK'
    BY <1>5, <2>1 DEF CopyAssign, TypeOK, Place
  <2>3. PortsAccounted'
    BY <1>5, <2>1 DEF CopyAssign, TypeOK, PortsAccounted, Place, Live
  <2>4. PortsExclusive'
    BY <1>5, <2>1 DEF CopyAssign, TypeOK, PortsExclusive, Place, Live
  <2>5. StreamInv'
    BY <1>5, <2>1 DEF CopyAssign, TypeOK, StreamInv, Uses, Place, Live
  <2>6. QED
    BY <2>2, <2>3, <2>4, <2>5
<1>6. ASSUME NEW o \in Object, Destroy(o) PROVE IInv'
  <2>1. camera[o] \in Camera /\ camera[o].port \in Port
    BY <1>6 DEF Destroy, TypeOK, Live, Camera
  <2>2. available' = available \cup {camera[o].port}
    BY <1>6, <2>1 DEF Destroy, release_port, Port
  <2>3. TypeOK'
    BY <1>6, <2>1, <2>2 DEF Destroy, TypeOK, Place
  <2>4. PortsAccounted'
    BY <1>6, <2>1, <2>2 DEF Destroy, TypeOK, PortsAccounted, Place, Live
  <2>5. PortsExclusive'
    BY <1>6, <2>1, <2>2 DEF Destroy, TypeOK, PortsExclusive, Place, Live
  <2>6. StreamInv'
    <3>1. \A id \in Id : Uses(id, camera[o].port) => camera[o].port \in abandoned'
      BY <1>6 DEF Destroy, InUse, Uses
    <3>2. QED
      BY <1>6, <2>1, <2>2, <3>1 DEF Destroy, TypeOK, StreamInv, Uses, Place, Live
  <2>7. QED
    BY <2>3, <2>4, <2>5, <2>6
<1>7. ASSUME NEW o \in Object, start(o) PROVE IInv'
  <2>1. /\ TypeOK' /\ UNCHANGED <<available, camera, history>>
        /\ \A id \in Id, port \in Port : Uses(id, port)' =>
             Uses(id, port) \/ (id = camera[o].id /\ port = camera[o].port)
    BY <1>7, RequestType, HandledUses DEF start, Handled
  <2>2. PortsAccounted' /\ PortsExclusive'
    BY <2>1 DEF PortsAccounted, PortsExclusive, Live
  <2>3. Live(o) /\ camera[o] \in Camera
    BY <1>7, RequestType DEF start
  <2>4. StreamInv'
    BY <2>1, <2>3 DEF StreamInv, PortsExclusive, Live, Camera
  <2>5. QED
    BY <2>1, <2>2, <2>4
<1>8. ASSUME NEW o \in Object, stop(o) PROVE IInv'
  <2>1. /\ TypeOK' /\ UNCHANGED <<available, camera, history>>
        /\ \A id \in Id, port \in Port : Uses(id, port)' => Uses(id, port)
    BY <1>8, RequestType, HandledUses DEF stop, Handled
  <2>2. QED
    BY <2>1 DEF PortsAccounted, PortsExclusive, StreamInv, Live
<1>9. CASE ServeLate \/ LoseLate
  <2>1. /\ TypeOK' /\ UNCHANGED <<available, camera, history>>
        /\ \A id \in Id, port \in Port : Uses(id, port)' => Uses(id, port)
    BY <1>9, ServerUses
  <2>2. QED
    BY <2>1 DEF PortsAccounted, PortsExclusive, StreamInv, Live
<1>10. QED
  BY <1>1, <1>2, <1>3, <1>4, <1>5, <1>6, <1>7, <1>8, <1>9 DEF Next

\* The invariant holds in every behaviour.
LEMMA IInvAlways == Spec => []IInv
BY InitialIInv, NextIInv, PTL DEF Spec

-----------------------------------------------------------------------------
(* Every variable keeps its type: the pool never holds a port outside the   *)
(* range it was made for (port_pool.cc:6-11, 24-29).                        *)
THEOREM TypeCorrect == Spec => []TypeOK
BY IInvAlways, PTL DEF IInv

(* No port disappears but by a constructor that throws or by an assignment  *)
(* (camera.cc:30-35, port_pool.cc:13-29).                                   *)
THEOREM NoPortDisappears == Spec => []PortsAccounted
BY IInvAlways, PTL DEF IInv

(* Without copies a port belongs to one Camera at a time (camera.cc:31, 35).*)
THEOREM PortsAreExclusive == Spec => []PortsExclusive
BY IInvAlways, PTL DEF IInv

(* Two cameras are streamed to the same port only if it was released while  *)
(* a stream to it was running or under way, or its Camera was copied        *)
(* (camera.cc:35, 66-71, 84-89).                                            *)
THEOREM StreamsAreApart == Spec => []StreamsApart
<1>1. IInv => StreamsApart
  BY DEF IInv, TypeOK, StreamInv, StreamsApart, Uses
<1>2. QED
  BY <1>1, IInvAlways, PTL

(* The ports outside of the pool are those of the live cameras, one each: a *)
(* construction is refused exactly when every port of the range has a       *)
(* camera, unless one was copied, assigned or half constructed              *)
(* (port_pool.cc:13-29, camera.cc:31, 35).                                  *)
THEOREM PoolIsConserved == Spec => []PoolConserved
<1>1. IInv => PoolConserved
  <2> SUFFICES ASSUME IInv, copied = {}, lost = {}
               PROVE  Cardinality(available) + Cardinality({o \in Object : Live(o)})
                        = Cardinality(Port)
    BY DEF PoolConserved
  <2> DEFINE Living == {o \in Object : Live(o)}
             Taken == Port \ available
             port == [o \in Living |-> camera[o].port]
  <2>1. IsFiniteSet(Port)
    BY CameraPoolAssumption, FS_Interval DEF Port
  <2>2. /\ IsFiniteSet(Taken) /\ Cardinality(Taken) = Cardinality(Port) - Cardinality(available)
        /\ Cardinality(Port) \in Nat /\ Cardinality(available) \in Nat
    <3>1. available \subseteq Port /\ Port \cap available = available
      BY DEF IInv, TypeOK
    <3>2. IsFiniteSet(available)
      BY <2>1, <3>1, FS_Subset
    <3>3. QED
      BY <2>1, <3>1, <3>2, FS_Difference, FS_CardinalityType
  <2>3. \A o \in Living : camera[o].port \in Taken
    BY DEF IInv, TypeOK, PortsExclusive, Live, Camera
  <2>4. \A o, other \in Living : camera[o].port = camera[other].port => o = other
    BY DEF IInv, PortsExclusive
  <2>5. \A p \in Taken : \E o \in Living : camera[o].port = p
    BY DEF IInv, PortsAccounted
  <2>6. port \in Injection(Living, Taken)
    BY <2>3, <2>4 DEF Injection, IsInjective
  <2>7. port \in Surjection(Living, Taken)
    BY <2>3, <2>5 DEF Surjection
  <2>8. Cardinality(Living) = Cardinality(Taken)
    BY <2>2, <2>6, <2>7, FS_Injection
  <2>9. QED
    BY <2>2, <2>8
<1>2. QED
  BY <1>1, IInvAlways, PTL
=============================================================================
