SPECIFICATION FairSpec
CONSTANTS
  Windows = {"w1"}
  NoWindow = "-"
  Threshold = 2
  MaxAttempts = 1
  MaxCrashes = 1
INVARIANTS ClosedSocketIsLeft
PROPERTIES NoRestartOnADip RestartKeepsWindow BrokenIsRecovered StateCatchesUp
