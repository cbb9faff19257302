SPECIFICATION Spec
CONSTANTS
  Keep = 4
  Window = 3
  First = 2
  Listed = 4
  MaxEntries = 4
  MaxLost = 1
  MaxClicks = 1
  MaxCalls = 2
  Null = Null
INVARIANTS NoGap
PROPERTIES PollingCatchesUp
CHECK_DEADLOCK FALSE
