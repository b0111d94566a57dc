CONSTANTS
  NCid = 3
  MaxCoroNum = 2
  MaxCreate = 5
  Ctx = {c1, c2, c3, c4}
  NULL = NULL
SPECIFICATION Spec
SYMMETRY Symmetry
CHECK_DEADLOCK FALSE
INVARIANTS
  TypeOK
  UniqueCid
  CallbackKept
  RunsItsOwnContext
  YieldLandsInOwnCall
  CheckPointAllocated
  OneWakeup
  CoroNumExact
  CallbackFreedAtEnd
  FreeCountDrift
  AllocAnswers
  ScanFindsNext
PROPERTY ImplementsCooperative
