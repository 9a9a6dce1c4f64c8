SPECIFICATION FairSpec
CONSTANTS
  Clients = {c1, c2}
  Accepts = {a1, a2}
  Workers = {w1, w2}
  MaxConnections = 1
  Udp = TRUE
  Faults = TRUE
  Throws = {"retain"}
INVARIANTS SlotsExact NoSessionEscapes
PROPERTIES Answered StopReturns
