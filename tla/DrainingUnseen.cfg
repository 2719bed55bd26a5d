SPECIFICATION LiveSpec
CONSTANTS
  Requests = {r1, r2}
  MaxStarts = 2
PROPERTY DrainingReported
CHECK_DEADLOCK FALSE
