SPECIFICATION ServerSpec
CONSTANTS
  Requests = {r1}
  Values = {v1, v2}
  MaxEdits = 0
INVARIANT Graceful
CHECK_DEADLOCK FALSE
