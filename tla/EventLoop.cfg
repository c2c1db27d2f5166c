CONSTANTS
  Owner = owner
  Others = {other}
  Functors = {f1, f2, f3}
SPECIFICATION Spec
INVARIANTS TypeOK FunctorAccounting NoSleepOnWork
PROPERTIES QuitStops ImplementsFunctorQueue
