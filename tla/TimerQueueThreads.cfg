SPECIFICATION FairSpec
CONSTANTS
  Ticker = {k1}
  User = {w1, w2}
  TimerId = {t1, t2, t3}
  NoTimer = NoTimer
  MaxTimeout = 1
  MaxRepeat = 2
  MaxLag = 1
  Reserved = 1
INVARIANTS
  TypeOK
  AstrayOnlyInAdd
PROPERTIES
  NeverEarly
  DeletedSilent
  TimerServed
CHECK_DEADLOCK FALSE
