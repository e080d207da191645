SPECIFICATION Spec
CONSTANTS
  Sessions = {s1, s2}
  MaxAttempts = 2
  MaxCalls = 1
  MaxEvents = 4
  Faults = TRUE
  None = None
SYMMETRY Symmetry
CONSTRAINT Undisturbed
INVARIANTS
  EvidenceIsOwn AccountingIsOwn SuccessIsWritten LogReadable ResultIsBacked
  FinalizationProceeds
CHECK_DEADLOCK FALSE
