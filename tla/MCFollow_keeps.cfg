\* Two radios and two troubles, or three radios one of which may be plugged in later.
SPECIFICATION Spec
CONSTANTS
  r1 = r1
  r2 = r2
  r3 = r3
  a = a
  a2 = a2
  b = b
  None = None
  Radios <- ThreeRadios
  Profiles <- TwoProfiles
  NetOf <- TwoNets
  Bound <- OneBound
  UserMany = {}
  Faults = {"multi_fails", "command_fails"}
  Scenes <- BothScenes
SYMMETRY Alike
INVARIANTS TypeOK PlainChoiceWins PlainDropSticks ModifiedRecorded
PROPERTIES KeepsPromise
