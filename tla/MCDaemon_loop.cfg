SPECIFICATION Spec
CONSTANTS
  v1 = v1
  v2 = v2
  None = None
  Versions <- MCVersions
  Days <- MCDays
  Radios = 2
  Events = 4
INVARIANTS TypeOK RowsUnderTheirHeader
PROPERTIES RowsKept StopEnds KeepsReporting
