SPECIFICATION Spec
CONSTANTS
  Names = {a}
  Requests = {r1}
  Txids = {t1, t2}
  Tcps = {k1, k2}
  MaxUdpAttempts = 1
  MaxCallbacks = 1
  MaxQueries = 1
  MaxSends = 1
  MaxInFlight = 1
  MaxPosted = 1
  TryAAAA = FALSE
  Faults = FALSE
INVARIANT ParentOutlives
