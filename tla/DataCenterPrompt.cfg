SPECIFICATION FairSpec
CONSTANTS
  Key = {k1, k2}
  OpId = {u1, u2, u3}
  ZeroOp = u3
  ReadId = r
  TimerId = {t1, t2, t3, t4}
  NoTimer = NoTimer
  Empty = Empty
  Lease = 2
  MaxLag = 1
  TickFirst = TRUE
  Relock = {"proceeds"}
INVARIANTS
  LeaseHonoured
  NoPhantomCallback
  NoUpdateThrown
PROPERTIES
  DeferredIsCalled
  StoreSpec
