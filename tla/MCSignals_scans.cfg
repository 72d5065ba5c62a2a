SPECIFICATION Spec
CONSTANTS
  r1 = r1
  r2 = r2
  r3 = r3
  a = a
  b = b
  Radios = {r1, r2, r3}
  APs = {a, b}
  Top = 2
  Spread = 1
  Window = 2
  Long = 3
  Pair = 1
  ScoutMobile = 2
  ScoutStill = 3
  FadeScan = 3
  IdleScan = 5
  PollFast = 1
  PollEvery = 2
  Events = 1
  None = None
SYMMETRY Symmetry
INVARIANTS TypeOK NoneForgotten WeakLooks ScoutFeedsAll
PROPERTY SlopeOfOneAP
