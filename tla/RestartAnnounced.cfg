SPECIFICATION ServerSpec
CONSTANTS
  Requests = {r1}
  Values = {v1, v2}
  MaxEdits = 2
PROPERTY RestartAnnounced
CHECK_DEADLOCK FALSE
