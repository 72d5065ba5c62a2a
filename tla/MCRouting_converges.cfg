SPECIFICATION FairSpec
CONSTANTS
  Radios = {1, 2, 3}
  Leases = {1}
  MaxRadios = 2
  VpnTables = {}
  VpnPrios = {32001}
  Legacy = TRUE
  Kills = TRUE
  MaxTrouble = 2
INVARIANTS TypeOK
PROPERTIES Converges
