SPECIFICATION WiredSpec
CONSTANTS
  Sessions = {s1, s2}
  MaxReleases = 2
  MaxStamp = 1
  Keeps = {}
  Faults = {"crash", "write", "link"}
INVARIANT ServedWhole
CHECK_DEADLOCK FALSE
