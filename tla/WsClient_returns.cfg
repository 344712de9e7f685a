\* A closed socket does not make run() return.
SPECIFICATION Spec
CONSTANT MaxSent = 1
CHECK_DEADLOCK FALSE
PROPERTY
  RunReturnsWhenClosed
