SPECIFICATION Spec
CONSTANTS
  Key = {k1, k2}
  OpId = {u1, u2, u3}
  ZeroOp = u3
  ReadId = r
  TimerId = {t1, t2, t3, t4, t5}
  NoTimer = NoTimer
  Empty = Empty
  Lease = 2
  MaxLag = 1
  TickFirst = FALSE
  Relock = {"blocks", "proceeds"}
SYMMETRY Symmetry
INVARIANTS
  TypeOK
  LeaseTimed
  LeaseCovered
  PendingKept
PROPERTIES
  LeaseBrokenOnlyByOrphan
  WaitKeptUnlessOrphan
  OrphanOnlyByLateRead
CHECK_DEADLOCK FALSE
