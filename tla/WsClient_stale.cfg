\* What is left in the buffer by a read that failed.
SPECIFICATION Spec
CONSTANT MaxSent = 2
CHECK_DEADLOCK FALSE
INVARIANT
  EventIsOneMessage
