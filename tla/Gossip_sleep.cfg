SPECIFICATION Spec
CONSTANTS
  Board = {a, b}
  Resettable = {}
  Crashable = {}
  Sleepers = {b}
  Mortal = {a}
  Epochs = {1}
  Slots = 2
  Fresh = 0
  AgeMax = 2
  GenMax = 3
  MaxElapsed = 2
  Tracked = a
INVARIANTS
  OwnAgeExact
