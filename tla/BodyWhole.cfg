SPECIFICATION ResponseSpec
CONSTANTS
  Symbols <- MCSymbols
  Outputs <- MCOutputs
  MaxFragments = 4
  MaxLine = 7
  MaxTotal = 12
  MaxCount = 2
INVARIANT BodyWhole
CHECK_DEADLOCK FALSE
