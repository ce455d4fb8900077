SPECIFICATION Spec
CONSTANTS
  Gens <- TwoGens
  NoGen = NoGen
  Overlap = TRUE
  MaxFaults = 0
PROPERTIES StopSparesTheOwner
CHECK_DEADLOCK FALSE
