SPECIFICATION Spec
CONSTANTS
  c1 = c1
  c2 = c2
  Client = {c1, c2}
  Key = {k1}
  Cut = {}
  Datacenter <- NearDatacenter
  Worker <- OneWorker
  SequenceRange = 2
  TimeRange = 1
  MaxBurst = 2
  MaxNow = 1
  MaxCalls = 2
  MaxFailures = 1
  MaxFlight = 2
INVARIANTS
  IdsDiffer
CHECK_DEADLOCK FALSE
