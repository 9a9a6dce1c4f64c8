SPECIFICATION FairSpec
CONSTANTS
  HasCredentials = TRUE
  EnableGssapi = TRUE
  IdleTimeout = TRUE
  ConnectTimeout = TRUE
  MaxBuffered = 2
  MaxRecvs = 4
  PostOutcomes = {TRUE, FALSE}
  Faults = TRUE
INVARIANTS
  TypeOK
  OneReply
  SuccessMeansService
  Authenticated
  NoZombie
  NoLeakedTimer
PROPERTIES IdleMeansIdle ConnectEnds HandshakeEnds
