SPECIFICATION Spec
CONSTANTS
  Requests = {r1, r2, r3}
  Clients = {c1, c2, c3}
  Nobody = Nobody
  MaxIdle = 1
  MaxActive = 3
  Workers = 2
PROPERTIES DiscardAfterProtocolError
CHECK_DEADLOCK FALSE
