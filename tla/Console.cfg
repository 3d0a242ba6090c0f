SPECIFICATION ConSpec
CONSTANTS
  R = 2
  C = 1
  L = 2
  Limit = 3
CHECK_DEADLOCK FALSE
INVARIANTS ConTypeOK RingHoldsSession ReplayIsExact   TapHoldsTheLast
