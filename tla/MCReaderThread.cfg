SPECIFICATION FairSpec
CONSTANTS
  Parts <- MCParts
  MaxFrames = 4
  MaxPasses = 3
PROPERTIES RegisterSpec LastFrameShown
CHECK_DEADLOCK FALSE
