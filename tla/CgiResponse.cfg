SPECIFICATION ResponseSpec
CONSTANTS
  Symbols <- MCSymbols
  Outputs <- MCOutputs
  MaxFragments = 5
  MaxLine = 7
  MaxTotal = 12
  MaxCount = 2
INVARIANTS SameAsWhole BodyIsBody
CHECK_DEADLOCK FALSE
