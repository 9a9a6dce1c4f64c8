SPECIFICATION Spec
CONSTANTS
  Locals = {c}
  Servers = {s}
  Names = {d, e}
  MaxInFlight = 1
  MaxSends = 2
  MaxDomains = 1
  MaxPerDomain = 2
  MaxAssemblies = 1
  MaxActive = 1
  MaxAssembled = 3
  MaxFrag = 2
  Sizes = {1}
  MaxPackets = 2
  Results = {s}
  Faults = FALSE
INVARIANT LimitMeansPending
