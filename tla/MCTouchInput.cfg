SPECIFICATION FairSpec
CONSTANTS
  Span = 3
  MoveThresh = 2
  JumpThresh = 2
  Weight = 1
  MaxErrors = 1
  DisableOnErrors = FALSE
  Availabilities <- AllOrOne
INVARIANTS OneContact DownIsVisible
PROPERTIES StrokeStartsAtFinger LiftedInPlace FingerUpIsSeen SettlesAtFinger ModeIsFollowed
