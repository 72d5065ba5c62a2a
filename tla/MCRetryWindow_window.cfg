SPECIFICATION Spec
CONSTANTS
  a = a
  b = b
  None = None
  APs <- MCAPs
  Window = 2
  Slow = 2
  Stall = 3
  Modulus = 4
  Most = 1
  Events = 3
SYMMETRY MCAPsSymmetry
INVARIANTS TypeOK NeverOvercounts
PROPERTIES LosesNothing
