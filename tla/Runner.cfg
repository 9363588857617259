SPECIFICATION FairSpec
CONSTANTS
  Ids = {0, 1}
  FifoCap = 1
  Profiled = {"game", "other"}
  Overlays = {"systemui"}
  Unprofiled = {"launcher"}
  NoPkg = "-"
  EscStreak = 2
INVARIANTS NoFingerWithoutEngine StatusTells
PROPERTIES RefinesGate DeadPipeIsReplaced
CHECK_DEADLOCK FALSE
