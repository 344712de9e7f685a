\* A start that comes too early for the thread of the last stop.
SPECIFICATION Spec
CONSTANTS
  MaxStarts = 3
  MaxStops = 2
  MaxRefs = 3
CHECK_DEADLOCK FALSE
INVARIANT
  ThreadsHavePipeline
