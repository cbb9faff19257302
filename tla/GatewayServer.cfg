SPECIFICATION FairServerSpec
CONSTANTS
  Requests = {r1}
  Values = {v1, v2}
  MaxEdits = 2
INVARIANTS KnownGood Together
PROPERTIES LastReloadWins
CHECK_DEADLOCK FALSE
