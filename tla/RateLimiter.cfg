SPECIFICATION Spec
CONSTANTS
  Requests = {r1, r2}
  Clients = {c1, c2, c3}
  Routes = {upload}
  Elsewhere = Elsewhere
  Global = Global
  Unit = 2
  Rate <- MCRate
  Burst <- MCBurst
  MaxBuckets = 2
  Cutoff = 2
  Interval = 2
  MaxClock = 5
SYMMETRY Symmetric
INVARIANTS Limited Bounded
PROPERTY ImplementsBuckets
CHECK_DEADLOCK FALSE
