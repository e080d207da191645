CONSTANTS
  l1 = l1
  l2 = l2
  l3 = l3
  None = None
  Launchers = {l1, l2, l3}
  GuardFirst = TRUE
SPECIFICATION Spec
SYMMETRY Symmetry
INVARIANT OneWriter
CHECK_DEADLOCK FALSE
