\* Every interleaving of messages, failures and the destructor.
SPECIFICATION Spec
CONSTANT MaxSent = 4
CHECK_DEADLOCK FALSE
INVARIANTS
  TypeOK
  EventsInOrder
  HostHeader
  ChainContinues
  CompleteUntilFailure
PROPERTIES
  DestructorJoins
  StableNetworkRecovers
  MessageLeavesSocket
