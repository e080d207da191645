CONSTANTS
  l1 = l1
  l2 = l2
  l3 = l3
  None = None
  Launchers = {l1, l2}
  GuardFirst = FALSE
SPECIFICATION FairSpec
INVARIANT WriterIsNamed
PROPERTY StaleLockReclaimed
CHECK_DEADLOCK FALSE
