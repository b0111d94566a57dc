CONSTANTS
  Db = {d1, d2}
  St = {s1, s2, s3}
  Co = {a, b}
  MaxHeld = 2
  NULL = NULL
SPECIFICATION Spec
CHECK_DEADLOCK FALSE
SYMMETRY Symmetry
INVARIANTS
  OpenWhileUsed
  ClosedWithLast
