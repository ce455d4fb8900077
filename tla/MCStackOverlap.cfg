SPECIFICATION FairSpec
CONSTANTS
  Gens <- TwoGens
  NoGen = NoGen
  Overlap = TRUE
  MaxFaults = 0
INVARIANTS TypeOK ReadyOnlyAfterOwnStream
PROPERTIES SupersededLeaves
CHECK_DEADLOCK FALSE
