SPECIFICATION Spec
CONSTANTS
  Bssid = {1, 2, 3}
  Peers = 3
  Burst = 1
  proposalDelayCap = 2
  credibilityCap = 0
  credibilityStep = 4
  WakeMax = 5
  BlindSleeps = 0
  Perils = {}
PROPERTIES
  ImprovesOnCurrentHome
