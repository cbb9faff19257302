SPECIFICATION Spec
CONSTANTS
  Ids = {a, b}
  MaxPort = 2
  Slots = {1, 2}
  Handlers = 2
  Found = 1
  MaxFaults = 1
  Null = Null
  None = None
  MaxCalls = 2
  MaxActs = 2
  MaxOther = 1
  MaxLost = 1
INVARIANTS FormFitsButton Registered ShowsItsOwn
SYMMETRY Renamings
CHECK_DEADLOCK FALSE
