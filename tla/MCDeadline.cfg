CONSTANTS
  Co = {a, b}
  Sec = 2
  Sleeps = {1, 2}
  Limits = {1, 3}
  Steps <- ClockSteps
  MaxTurns = 3
  MaxBusy = 1
  NULL = NULL
SPECIFICATION Spec
CHECK_DEADLOCK FALSE
SYMMETRY Symmetry
INVARIANTS
  SleepsNotTooLong
  TimeoutEndsWait
PROPERTY
  SleepsLongEnough
