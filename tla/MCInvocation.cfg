CONSTANTS
  Co = {a, b}
  NFd = 2
  MaxTurns = 2
  MaxEvent = 2
  Timeouts = TRUE
  BrokenRules = {}
  MaxLost = 1
  NULL = NULL
SPECIFICATION AllSpec
CHECK_DEADLOCK FALSE
INVARIANTS
  TypeOK
  WhollyUsedOrReleased
  WatchedInUse
  ClosedIsCleared
  NoLostWaiter
  BatchStaysTrue
  TimerOwned
  EventReadBack
  ContextsOwned
  ArgumentsOwned
PROPERTIES
  ReportedIsResumed
  ImplementsCooperative
