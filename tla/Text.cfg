SPECIFICATION Spec
CONSTANTS
  N = 3
  Window = 2
  Limit = 4
  Changes = 3
INVARIANTS RingHoldsTheLast NothingLeftUnshown PressLights
