CONSTANTS
  Tasks = {a}
  Attempts = 1
  PollEvery = 2
  MaxWindows = 2
  MaxReports = 2
SPECIFICATION FairFullscreenSpec
PROPERTIES
  KnownIsKept
  ClosingIsNoticed
CHECK_DEADLOCK FALSE
