SPECIFICATION FairSpec
CONSTANTS
  t1 = t1
  t2 = t2
  a1 = a1
  a2 = a2
  Tunings = {t1, t2}
  Affines = {a1, a2}
  Rotations = {"normal", "right"}
  MaxSaves = 2
  MaxFaults = 2
INVARIANTS CaptureGoesOn SessionKept
PROPERTIES ReportedGeometry ConfirmedComesTrue
CHECK_DEADLOCK FALSE
