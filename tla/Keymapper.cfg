SPECIFICATION FairSpec
CONSTANTS
  Callers = {user, launcher}
  MaxReports = 2
INVARIANT FocusAgrees
INVARIANT NoOrphan
PROPERTY CallersGetThrough
PROPERTY LossIsHeard
