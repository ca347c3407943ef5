SPECIFICATION Spec
CONSTANTS
  Callers = {c1, c2}
  Workloads <- MixedWorkloads
  MaxItems = 2
  Ttl = 2
  LandsAt = 2
  MaxClock = 3
  Parallel = FALSE
  Persists = TRUE
SYMMETRY Sym
INVARIANTS
  TypeOK
  GasFresh
  LatestIsLive
