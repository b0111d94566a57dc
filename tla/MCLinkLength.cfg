CONSTANTS
  Node = {n1, n2, n3}
  Data = {x, y}
  Null = Null
SPECIFICATION LinkSpec
CHECK_DEADLOCK FALSE
INVARIANT LengthIsReachable
