SPECIFICATION Spec
CONSTANTS
  Names = {a, b}
  Requests = {r1, r2}
  Txids = {t1, t2, t3}
  Tcps = {k1, k2, k3}
  MaxUdpAttempts = 2
  MaxCallbacks = 2
  MaxQueries = 2
  MaxSends = 1
  MaxInFlight = 1
  MaxPosted = 1
  TryAAAA = TRUE
  Faults = TRUE
SYMMETRY Symmetry
INVARIANTS CalledOnce IndexesAgree QueryTimed
