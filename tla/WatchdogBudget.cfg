SPECIFICATION TimedSpec
CONSTANTS
  RestartBudget = 2
  RestartWindow = 6
  CircuitCooldown = 7
  MinBackoff = 1
  MaxBackoff = 3
  MaxTime = 20
INVARIANT Budget
CHECK_DEADLOCK FALSE
