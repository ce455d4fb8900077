SPECIFICATION FairSpec
CONSTANTS
  Depth = 2
  Payload = 8
  Cols = 6
  Rows = 5
  TileW = 2
  TileH = 2
  WordPixels = 2
  MaxRects = 2
  StaleBudget = 2
  FullArea = 26
  Changes <- MCChanges
  Items <- MCItems
  MaxPasses = 2
  MaxFaults = 1
INVARIANTS SlotsExclusive SentIsComplete ListIsSound
PROPERTIES UpdateSpec ShownAgain
CHECK_DEADLOCK FALSE
