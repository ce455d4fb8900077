SPECIFICATION FairSpec
CONSTANTS
  Slots = 2
  Parts <- TwoParts
  MaxAttempts = 2
  MaxFrames = 5
INVARIANTS Untorn EveryFrameCounted
PROPERTIES RegisterSpec NewestIsTaken
CHECK_DEADLOCK FALSE
