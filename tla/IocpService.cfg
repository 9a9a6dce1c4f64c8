SPECIFICATION FairSpec
CONSTANTS
  Workers = {w1, w2}
  SocketCtx = {c1}
  UserCtx = {u1}
  Timers = {t1}
  MaxPosts = 1
  MaxStarts = 2
  Faults = TRUE
INVARIANTS Accounting StopIsComplete TimerFiresOnce NoTimerSleptThrough
PROPERTY StopReturns
