CONSTANTS
  NCid = 3
  MaxCoroNum = 1
  MaxCreate = 4
  Ctx = {c1, c2}
  NULL = NULL
SPECIFICATION Spec
SYMMETRY Symmetry
CHECK_DEADLOCK FALSE
INVARIANT CidInRange
