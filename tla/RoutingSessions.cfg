CONSTANTS
  s1 = s1
  s2 = s2
  c1 = c1
  c2 = c2
  None = None
  Sessions = {s1, s2}
  Configs = {c1}
  Modes = {"routed"}
  MaxTurns = 1
  MaxDecisions = 2
  Steering = FALSE
SPECIFICATION Spec
SYMMETRY Symmetry
INVARIANTS CodingUnderLock NoReclassification ResumableExactly SwallowedInputReported
PROPERTIES DecisionImmutable
CHECK_DEADLOCK FALSE
