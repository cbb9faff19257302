SPECIFICATION Spec
CONSTANTS
  Sessions = {s1}
  MaxReleases = 3
  MaxStamp = 3
  Keeps = {1}
  Faults = {"crash", "link"}
INVARIANTS OneActive Published SwapReady
PROPERTY RollbackRestores
CHECK_DEADLOCK FALSE
