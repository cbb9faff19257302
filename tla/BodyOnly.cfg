SPECIFICATION ResponseSpec
CONSTANTS
  Symbols <- MCSymbols
  Outputs <- MCOutputs
  MaxFragments = 1
  MaxLine = 7
  MaxTotal = 12
  MaxCount = 2
INVARIANT BodyOnly
CHECK_DEADLOCK FALSE
