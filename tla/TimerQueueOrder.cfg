SPECIFICATION SafetySpec
CONSTANTS
  Timers = {1, 2}
  Intervals = {2}
  MaxTime = 2
  MaxQueued = 1
  Kinds = {"once", "every"}
  ByReference = FALSE
  HandOver = FALSE
INVARIANT DueRuns
