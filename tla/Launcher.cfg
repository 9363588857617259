SPECIFICATION LauncherFairSpec
CONSTANTS
  Callers = {user}
  Emitter = emitter
  EvCap = 1
  SinkCap = 1
INVARIANT StopIsSeen
PROPERTY StoppedLeavesTheScreen
