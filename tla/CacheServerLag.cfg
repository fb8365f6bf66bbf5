SPECIFICATION Spec
CONSTANTS
  Key = {k1}
  OpId = {u1, u2}
  ReadOp = {r1, r2}
  ReadId = r
  TimerId = {t1, t2, t3, t4, t5}
  NoTimer = NoTimer
  Lease = 1
  Relock = {"blocks", "proceeds"}
  Client = {c1}
  Empty = Empty
  NoRequest = NoRequest
  AckTimeout = 1
  MaxLag = 1
  TickFirst = FALSE
  Lossy = {}
  Doubled = {"read"}
  MaxFaults = 1
  MaxFlight = 1
SYMMETRY Symmetry
INVARIANTS
  TypeOK
  OkApplied
PROPERTIES
  AppliedOnce
  CopyBrokenOnlyByOrphan
CHECK_DEADLOCK FALSE
