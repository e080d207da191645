SPECIFICATION Spec
CONSTANTS
  NumTrials = 6
  MaxAttempts = 2
  Result <- MCResult
  Schedule <- MCSchedule
  Threshold = 75
  None = None
CONSTRAINT FewRetries
INVARIANTS ReportConsistent CostsComplete ReplayFaithful StatusAgrees
PROPERTY ReportStable
CHECK_DEADLOCK FALSE
