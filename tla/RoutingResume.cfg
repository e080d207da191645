CONSTANTS
  s1 = s1
  s2 = s2
  c1 = c1
  c2 = c2
  None = None
  Sessions = {s1}
  Configs = {c1}
  Modes = {"weak-only"}
  MaxTurns = 1
  MaxDecisions = 1
  Steering = FALSE
SPECIFICATION Spec
INVARIANTS CodedSessionLoads
CHECK_DEADLOCK FALSE
