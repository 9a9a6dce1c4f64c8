SPECIFICATION FairSpec
CONSTANTS
  Procs = {1, 2}
  MaxRetry = 3
  Delay = 2
INVARIANTS OneCopy ThreadJoined GlitchTolerated ShutdownFinal
PROPERTY ShutdownEnds
