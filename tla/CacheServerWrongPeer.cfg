SPECIFICATION Spec
CONSTANTS
  Key = {k1}
  OpId = {u1, u2}
  ReadOp = {r1}
  ReadId = r
  TimerId = {t1, t2, t3, t4}
  NoTimer = NoTimer
  Lease = 2
  Relock = {"proceeds"}
  Client = {c1, c2}
  Empty = Empty
  NoRequest = NoRequest
  AckTimeout = 1
  MaxLag = 1
  TickFirst = TRUE
  Lossy = {}
  Doubled = {}
  MaxFaults = 0
  MaxFlight = 2
SYMMETRY Symmetry
INVARIANTS
  ResponseToAsker
CHECK_DEADLOCK FALSE
