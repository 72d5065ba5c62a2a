SPECIFICATION Spec
CONSTANTS
  r1 = r1
  r2 = r2
  Radios = {r1, r2}
  APs = {"a", "public"}
  Mute = {"public"}
  DeadAfter = 2
  SuspectAfter = 1
  FailsafeAfter = 3
  HoldOff = 2
  HealEvery = 2
  PollEvery = 2
  HelperMax = 1
  Events = 3
  Naps = 1
  None = None
SYMMETRY Symmetry
INVARIANTS TypeOK DeafLeaves HandedInTime
PROPERTIES ThreeMisses MuteSpared DeadIsFound HandsOnlyTheStarved
