\* Careful applications, and those that call the functions as they like.
SPECIFICATION Spec
CONSTANTS
  MaxStarts = 3
  MaxStops = 2
  MaxRefs = 3
CHECK_DEADLOCK FALSE
INVARIANTS
  TypeOK
  LinkedBranchStays
  RefsAccounted
  StartsSucceed
  NothingForgotten
PROPERTY
  StoppedBranchGoes
