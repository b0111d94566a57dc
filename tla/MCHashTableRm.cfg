CONSTANTS
  Key <- Keys
  Value = {u, v, w}
  TableSize = 2
  UIntSize = 256
  NULL = NULL
SPECIFICATION Spec
CHECK_DEADLOCK FALSE
SYMMETRY Symmetry
PROPERTY
  KeepsPromise
