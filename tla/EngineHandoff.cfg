SPECIFICATION Spec
CONSTANTS
  MaxPointers = 2
  SecondKey = "aim2"
  NoName = "-"
  NoGroup = "-"
  Names <- ScopeNames
  Keys <- ScopeKeys
  Triggers <- ScopeTriggers
  MouseTriggers = {"ML", "MR"}
  WheelTriggers = {}
  Profile <- ScopeProfile
  Dir <- ScopeDir
  Unbounded = FALSE
  Handoff = TRUE
INVARIANTS FingersAccounted
PROPERTIES LegalFrames
