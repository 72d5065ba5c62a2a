\* The user picks again a network that wifimimo once joined on the same radio.
SPECIFICATION Spec
CONSTANTS
  r1 = r1
  r2 = r2
  r3 = r3
  a = a
  a2 = a2
  b = b
  None = None
  Radios <- TwoRadios
  Profiles <- TwoProfiles
  NetOf <- TwoNets
  Bound <- OneBound
  UserMany = {}
  Faults = {}
  Scenes <- TwoTroubles
SYMMETRY Alike
INVARIANTS ChoiceWins
