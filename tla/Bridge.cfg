CONSTANTS
  d1 = d1
  d2 = d2
  d3 = d3
  None = None
  Decisions = {d1, d2, d3}
SPECIFICATION FairSpec
INVARIANTS NoCrossTalk CancelledNeverDecides FailureHasCause
PROPERTIES ResolveEnds
CHECK_DEADLOCK FALSE
