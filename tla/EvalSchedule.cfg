SPECIFICATION Spec
CONSTANTS
  NumTrials = 2
  MaxAttempts = 2
  Bound <- MCBound
  Cap = 4
  MissingUsage = FALSE
  None = None
INVARIANTS NoRetryOfOutcome BilledWithinCap
PROPERTY KeepsExperiment
