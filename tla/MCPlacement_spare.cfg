SPECIFICATION Spec
CONSTANTS
  Radios = {1, 2, 3}
  Aps = {1, 2, 3}
  Span <- MCSpan
  Width <- MCWidth
  Signals <- MCSignals
  Surveys <- MCSurveys
  Poor = {}
  MaxTrouble = 1

PROPERTIES SpareKept
