SPECIFICATION FairSpec
CONSTANTS
  Radios = {r1, r2}
  Faults = {"crash_mid_poll", "rfkill", "lost_release_fails", "on_mid_poll"}
  MaxTrouble = 3
INVARIANTS TypeOK
PROPERTIES RecordedHandedBack
