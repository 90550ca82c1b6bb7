\* Three calls, so that tasks of several are in the queue and on both threads.
SPECIFICATION Spec
CONSTANTS
  Requests = {r1, r2, r3}
  None = None
INVARIANTS
  EchoInv
  AbortsOnlyEarly
PROPERTIES
  MainEnds
\* main ends.
CHECK_DEADLOCK FALSE
