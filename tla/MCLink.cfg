CONSTANTS
  Node = {n1, n2, n3, n4}
  Data = {x, y}
  Null = Null
SPECIFICATION LinkSpec
CHECK_DEADLOCK FALSE
INVARIANTS
  WalkIsSafe
