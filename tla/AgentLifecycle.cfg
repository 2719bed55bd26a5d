SPECIFICATION LiveSpec
CONSTANTS
  Requests = {r1, r2}
  MaxStarts = 2
INVARIANT
  RefusedOnceReported
PROPERTY ShutdownEnds
CHECK_DEADLOCK FALSE
