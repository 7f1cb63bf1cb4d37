SPECIFICATION Spec
CONSTANTS
  Board = {a, b}
  Resettable = {a}
  Crashable = {b}
  Sleepers = {b}
  Mortal = {}
  Epochs = {1, 2}
  Slots = 2
  Fresh = 0
  AgeMax = 1
  GenMax = 2
  MaxElapsed = 2
  Tracked = a
INVARIANTS
  TypeOK
  EpochConsistent
  UniqueOrigins
  NoFutureGeneration
PROPERTIES
  RumoursOnlyAge
  RegistryFollowsOrigin
