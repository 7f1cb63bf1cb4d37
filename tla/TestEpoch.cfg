SPECIFICATION FairSpec
CONSTANTS
  Bssid = {1, 2}
  CyclesToCommit = 3
  MissesToReset = 3
  DelayCycles = 3
  MaxElapsed = 2
  Window = 9
INVARIANTS
  TypeOK
PROPERTIES
  CommitsOnStreak
  ResetIsAnnounced
  CommitLeadsToNewEpoch
