CONSTANTS
  s1 = s1
  s2 = s2
  c1 = c1
  c2 = c2
  None = None
  Sessions = {s1}
  Configs = {c1}
  Modes = {"routed", "weak-only"}
  MaxTurns = 2
  MaxDecisions = 2
  Steering = TRUE
SPECIFICATION FairSpec
INVARIANTS RequestTimed PersistedBeforeCoding TurnBudget
PROPERTIES LedgerSpec RequestBounded ToolBounded
CHECK_DEADLOCK FALSE
