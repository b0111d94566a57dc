CONSTANTS
  Proc = {p1, p2, p3}
  First = p1
  MaxConn = 2
  MaxTurns = 2
  NonBlocking = TRUE
  NULL = NULL
SPECIFICATION Spec
CHECK_DEADLOCK FALSE
INVARIANTS
  AcceptorRegistered
  RefusedOnlyIfShared
  NeverUnwatched
PROPERTIES
  ConnectionsServed
  ReportIsNoTrap
