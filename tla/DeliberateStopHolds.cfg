SPECIFICATION Spec
CONSTANTS
  Main = Main
  Watchdog = Watchdog
  Threads = {Main, Watchdog}
  Masters = {m1, m2, m3, m4}
  Nothing = Nothing
  StaleFile = StaleFile
  MaxFaults = 2
  MaxRestarts = 2
PROPERTY DeliberateStopHolds
CHECK_DEADLOCK FALSE
