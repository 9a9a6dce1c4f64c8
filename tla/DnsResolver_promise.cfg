SPECIFICATION FairSpec
CONSTANTS
  Names = {a}
  Requests = {r1, r2}
  Txids = {t1, t2}
  Tcps = {k1}
  MaxUdpAttempts = 2
  MaxCallbacks = 2
  MaxQueries = 1
  MaxSends = 1
  MaxInFlight = 1
  MaxPosted = 1
  TryAAAA = TRUE
  Faults = TRUE
PROPERTIES ResolvesOnce StopEnds
