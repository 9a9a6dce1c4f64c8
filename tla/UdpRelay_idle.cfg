SPECIFICATION FairSpec
CONSTANTS
  Locals = {c}
  Servers = {s}
  Names = {d}
  MaxInFlight = 1
  MaxSends = 2
  MaxDomains = 1
  MaxPerDomain = 2
  MaxAssemblies = 1
  MaxActive = 1
  MaxAssembled = 3
  MaxFrag = 2
  Sizes = {1}
  MaxPackets = 1
  Results = {s}
  Faults = FALSE
PROPERTY IdleEnds
