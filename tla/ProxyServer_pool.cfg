SPECIFICATION FairSpec
CONSTANTS
  Clients = {c1, c2}
  Accepts = {a1}
  Workers = {w1, w2}
  MaxConnections = 2
  Udp = TRUE
  Faults = FALSE
  Throws = {}
CHECK_DEADLOCK FALSE
PROPERTY StopReturns
