CONSTANTS
  FifoCap = 2
  MaxHotplugs = 2
SPECIFICATION FairTouchSpec
INVARIANT FingerNeedsTheButton
PROPERTY PathHeals
CHECK_DEADLOCK FALSE
