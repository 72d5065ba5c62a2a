SPECIFICATION FairSpec
CONSTANTS
  Radios = {r1, r2}
  Faults = {}
  MaxTrouble = 4
INVARIANTS NeverForgotten
PROPERTIES HandedBack
