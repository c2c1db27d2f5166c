CONSTANTS
  Threads = {t1, t2}
  MaxLines = 2
  MaxLength = 2
  RollSize = 2
  MaxSecond = 1
SPECIFICATION Spec
CHECK_DEADLOCK FALSE
INVARIANTS TypeOK NoSleepOnLines FileHoldsLatest ExitDrains
PROPERTIES ImplementsQueue UninitReturns
