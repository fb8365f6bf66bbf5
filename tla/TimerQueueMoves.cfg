SPECIFICATION Spec
CONSTANTS
  Ticker = {k1}
  User = {w1}
  TimerId = {t1, t2, t3}
  NoTimer = NoTimer
  MaxTimeout = 1
  MaxRepeat = 2
  MaxLag = 1
  Reserved = 3
PROPERTIES
  ReferenceStays
