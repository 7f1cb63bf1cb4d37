SPECIFICATION Spec
CONSTANTS
  Bssid = {1, 2, 3}
  Period = 11
  Phase = 2
  Duration = 2
  MergeGap = 1
  Budget = 2
  Sampling = 1
  Lead = 1
  FinalLead = 2
  StutterLead = 4
  StutterThreshold = 3
  MinSleep = 1
  TimeMax = 13
INVARIANTS
  AppointmentsAreWindows
  IntervalsServeAppointments
PROPERTIES
  ScoutsWithinBudget
  NeverSleepsThroughHome
CHECK_DEADLOCK FALSE
