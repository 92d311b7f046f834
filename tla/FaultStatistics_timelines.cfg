SPECIFICATION Spec
CONSTANTS
  E1 = E1
  E2 = E2
  Codes = {E1, E2}
  Times = {0, 1, 4}
  NaT = NaT
  Logs <- MCLogs
  MaxRows = 5
  SampleLimit = 4
  Sizes = {1, 2, 3}
  HalfHour = 2
  Hour = 3
  Day = 12
  Near = 1
  BurstWindow = 1
  BurstThreshold = 3
  MinSample = 3
  Frequent = 2
  Nothing = Nothing
  MaxUploads = 2
INVARIANTS
  StatTypeOK
  CountsOthers
  BurstIsDensest
  CooccursElsewhere
  
  OpenedIsShown
CHECK_DEADLOCK FALSE
