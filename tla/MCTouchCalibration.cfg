SPECIFICATION Spec
CONSTANTS
  W = 16
  H = 24
  RawTop = 255
  Margin = 3
  Samples = 2
  ReleaseSamples = 3
  PressPoints = 2
  Floor = 8
  Mounts <- MCMounts
  Unit = 4
  Affines <- MCAffines
  Tolerance = 2
INVARIANT CalibrationIsTrue
CHECK_DEADLOCK FALSE
