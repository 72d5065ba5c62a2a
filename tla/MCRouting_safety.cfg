SPECIFICATION Spec
CONSTANTS
  Radios = {1, 2}
  Leases = {l1, l2}
  MaxRadios = 2
  VpnTables = {101}
  VpnPrios = {32001}
  Legacy = FALSE
  Kills = FALSE
  MaxTrouble = 3
SYMMETRY LeaseSymmetry
INVARIANTS OriginalsKept
PROPERTIES NeverHalfBuilt ForeignKept
