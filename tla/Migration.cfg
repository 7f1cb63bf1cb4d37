SPECIFICATION Spec
CONSTANTS
  Bssid = {1, 2, 3}
  Peers = 3
  Burst = 1
  proposalDelayCap = 1
  credibilityCap = 0
  credibilityStep = 4
  WakeMax = 3
  BlindSleeps = 0
  Perils = {"expiry", "recovery", "reset", "panic"}
INVARIANTS
  TypeOK
  DecisionsReplay
PROPERTIES
  PatientMoves
  Settles
