SPECIFICATION FairSpec
CONSTANTS
  MaxPointers = 3
  SecondKey = "aim2"
  NoName = "-"
  NoGroup = "-"
  Names <- GearNames
  Keys <- GearKeys
  Triggers <- GearTriggers
  MouseTriggers = {"ML", "MR", "WU"}
  WheelTriggers = {"WU"}
  Profile <- GearProfile
  Dir <- GearDir
  Unbounded = TRUE
  Handoff = FALSE
INVARIANTS SwipeOwnsItsFinger AimMatchesFinger PressAloneInFrame
PROPERTIES SwipesEnd
