CONSTANTS
  Board = {0, 1}
  Home = {h1, h2}
  NoHome = none
  AgeMax = 3
  Modes = {"parallel", "jobs=1", "log-only"}
  Freshness = 2
  Sustain = 1
  AckTimeout = 2
  Perils = 1
SPECIFICATION Spec
INVARIANTS TypeOK PortIsExclusive LossIsReported
PROPERTIES RequestsNeverOverlap EpochIsClean ObservedSinceReset SupervisorProgress
