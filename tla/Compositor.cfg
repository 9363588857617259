SPECIFICATION FairSpec
CONSTANTS
  Windows = {w1, w2}
  Sizes = {small, large}
  FirstSize = small
  Screens = {phone}
  Cursor = cursor
  NoOne = nobody
  None = none
  MaxFailures = 1
INVARIANT ScreenIsTheToplevels
PROPERTY WindowIsServed
CHECK_DEADLOCK FALSE
