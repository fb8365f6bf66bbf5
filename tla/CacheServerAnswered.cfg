SPECIFICATION FairSpec
CONSTANTS
  Key = {k1}
  OpId = {u1, u2}
  ReadOp = {r1}
  ReadId = r
  TimerId = {t1, t2, t3, t4}
  NoTimer = NoTimer
  Lease = 1
  Relock = {"proceeds"}
  Client = {c1}
  Empty = Empty
  NoRequest = NoRequest
  AckTimeout = 1
  MaxLag = 0
  TickFirst = TRUE
  Lossy = {"response"}
  Doubled = {}
  MaxFaults = 1
  MaxFlight = 2
INVARIANTS
  NoneForgotten
PROPERTIES
  Answered
