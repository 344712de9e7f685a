\* Every use of three Camera objects with two ports.
SPECIFICATION Spec
CONSTANTS
  Object = {o1, o2, o3}
  Id = {i1, i2}
  PoolStart = 9000
  PoolEnd = 9002
  MaxLate = 2
  NoCamera = NoCamera
  NoPort = NoPort
SYMMETRY Symmetry
INVARIANTS
  TypeOK
  PortsAccounted
  PortsExclusive
  PoolConserved
  StreamsApart
