SPECIFICATION FairSpec
CONSTANTS
  Requests = {r1, r2, r3}
  Clients = {c1, c2, c3}
  Nobody = Nobody
  MaxIdle = 1
  MaxActive = 2
  Workers = 1
INVARIANTS Accounted Bounded OneOwner CleanReuse
PROPERTY HeldUpByIdleOnly
CHECK_DEADLOCK FALSE
