CONSTANTS
  Size = 8
  FrameSizes = {1, 2, 3}
  CreateSize = 2
  LoopSize = 1
  NULL = NULL
SPECIFICATION Spec
INVARIANTS
  FramesIntact
