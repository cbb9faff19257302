SPECIFICATION WiredSpec
CONSTANTS
  Sessions = {s1}
  MaxReleases = 2
  MaxStamp = 2
  Keeps = {}
  Faults = {"crash"}
INVARIANT NoBrokenActive
CHECK_DEADLOCK FALSE
