SPECIFICATION FairSpec
CONSTANTS
  Width = 2
  Images <- TwoImages
  Configs <- Mixed
  MaxFrames = 2
  MaxTouches = 2
  MaxReloads = 1
  MaxStalls = 1
  MaxFaults = 1
INVARIANTS PanelShowsPrev AckedIsShown
PROPERTIES Converges FirstFrameShown
CHECK_DEADLOCK FALSE
