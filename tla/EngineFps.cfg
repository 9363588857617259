SPECIFICATION FairSpec
CONSTANTS
  MaxPointers = 2
  SecondKey = "aim2"
  NoName = "-"
  NoGroup = "-"
  Names <- FpsNames
  Keys <- FpsKeys
  Triggers <- FpsTriggers
  MouseTriggers = {"ML"}
  WheelTriggers = {}
  Profile <- FpsProfile
  Dir <- FpsDir
  Unbounded = FALSE
  Handoff = FALSE
INVARIANTS FingersAccounted FingerNeedsAHeldKey StickFollowsKeys
PROPERTIES MotionSurvivesReset DelayedPressHappens StickSettles
