SPECIFICATION WiredSpec
CONSTANTS
  Sessions = {s1}
  MaxReleases = 2
  MaxStamp = 2
  Keeps = {}
  Faults = {}
PROPERTY AtomicActivation
CHECK_DEADLOCK FALSE
