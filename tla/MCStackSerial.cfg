SPECIFICATION Spec
CONSTANTS
  Gens <- TwoGens
  NoGen = NoGen
  Overlap = FALSE
  MaxFaults = 1
INVARIANTS NoRivalStack CleanExit ListedServersAreStopped
PROPERTIES LeaseSpec
CHECK_DEADLOCK FALSE
