SPECIFICATION FairSpec
CONSTANTS
  NumTrials = 1
  MaxAttempts = 2
  Bound <- MCOne
  Cap = None
  MissingUsage = FALSE
  None = None
PROPERTY InvocationEnds
