SPECIFICATION Spec
CONSTANTS
  Period = 4
  AwakeLimit = 4
  AwakeMax = 6
  SleepMax = 9
  BootMax = 2
  DriftMax = 4
INVARIANTS
  TypeOK
  NeverAhead
PROPERTIES
  NothingLeft
