SPECIFICATION Spec
CONSTANTS
  Timers = {1, 2}
  Intervals = {1}
  MaxTime = 2
  MaxQueued = 1
  Kinds = {"once", "every"}
  ByReference = FALSE
  HandOver = FALSE
INVARIANTS TypeOK NeverEarly OnceRunsOnce OneShotsDueRun
PROPERTIES CanceledIsQuiet OnceRuns
