CONSTANTS
  Board = {a, b, c}
  Home = {h1, h2, h3}
  NoHome = none
  Small = 3
  MarkerSkew = 2
  Skew = 2
  Freshness = 2
  End = 5
SPECIFICATION Spec
SYMMETRY Symmetry
INVARIANTS WavesAreResets CoverageIsUnion
PROPERTIES EpochsEndConverged SnapshotsAgree RecoveriesAreClean
