SPECIFICATION Spec
CONSTANTS
  Key = {k1}
  OpId = {u1, u2}
  ZeroOp = none
  ReadId = r
  TimerId = {t1, t2, t3, t4}
  NoTimer = NoTimer
  Empty = Empty
  Lease = 2
  MaxLag = 1
  TickFirst = FALSE
  Relock = {"proceeds"}
INVARIANTS
  LeaseHonoured
CHECK_DEADLOCK FALSE
