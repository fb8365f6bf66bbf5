SPECIFICATION Spec
CONSTANTS
  c1 = c1
  c2 = c2
  Client = {c1, c2}
  Key = {k1, k2}
  Cut = {k2}
  Datacenter <- FarDatacenter
  Worker <- OneWorker
  SequenceRange = 2
  TimeRange = 1
  MaxBurst = 2
  MaxNow = 1
  MaxCalls = 3
  MaxFailures = 1
  MaxFlight = 2
INVARIANTS
  TypeOK
  IdsDiffer
  TruncatedIdsDiffer
  RequestKept
  AnswerIsMine
  AckOfCalled
PROPERTIES
  CalledUntilAcked
CHECK_DEADLOCK FALSE
