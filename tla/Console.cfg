SPECIFICATION Spec
CONSTANTS
  Urls = {"/a", "/b"}
  Ticks = 2
  MaxLost = 1
  MaxSends = 2
  MaxMoves = 1
  MaxCalls = 2
  Null = Null
INVARIANTS ResultIsLast ToastFullTime ScrollLocked
PROPERTIES PollingRecovers
CHECK_DEADLOCK FALSE
