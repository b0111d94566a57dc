CONSTANTS
  Co = {a, b}
  NFd = 2
  MaxTurns = 2
  MaxEvent = 2
  Timeouts = FALSE
  BrokenRules = {"close"}
  NULL = NULL
SPECIFICATION Spec
CHECK_DEADLOCK FALSE
SYMMETRY Symmetry
INVARIANT ClosedIsCleared
