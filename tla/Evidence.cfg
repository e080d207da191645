SPECIFICATION Spec
CONSTANTS
  good = good
  flawed = flawed
  Configs = {c1, c2}
  Flaws <- MCFlaws
  Size <- MCSize
  MaxTries = 3
  MaxBuilds = 2
  MaxEdits = 2
  Quiet = TRUE
  Freezers = {f1, f2}
  None = None
SYMMETRY Symmetry
CONSTRAINTS OneAtATime MayPass
INVARIANTS VerdictSound PolicyBindsHeldout
CHECK_DEADLOCK FALSE
