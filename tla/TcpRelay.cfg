SPECIFICATION FairSpec
CONSTANTS
  Depth = 3
  PieceLen = 3
  MaxPieces = 5
  MaxInitial = 2
  Gss = TRUE
  MaxBurst = 2
  PostOutcomes = {TRUE, FALSE}
  Faults = TRUE
INVARIANTS TypeOK StreamIntact NoStall ReadNeverLost QueueBound
PROPERTIES QuietAfterClose IsDuplex Delivered
