SPECIFICATION Spec
CONSTANTS
  Board = {a, b, c}
  Resettable = {}
  Crashable = {}
  Sleepers = {}
  Mortal = {a}
  Epochs = {1}
  Slots = 3
  Fresh = 1
  AgeMax = 2
  GenMax = 2
  MaxElapsed = 1
  Tracked = a
SYMMETRY Symmetry
PROPERTIES
  GenerationsAdvance
  AgesLikeRumours
