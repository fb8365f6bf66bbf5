SPECIFICATION FairSpec
CONSTANTS
  Key = {k1}
  OpId = {u1, u2}
  ZeroOp = none
  ReadId = r
  TimerId = {t1, t2, t3, t4}
  NoTimer = NoTimer
  Empty = Empty
  Lease = 2
  MaxLag = 1
  TickFirst = TRUE
  Relock = {"blocks"}
PROPERTIES
  DeferredIsCalled
CHECK_DEADLOCK FALSE
