CONSTANTS
  Owner = owner
  Others = {}
  Functors = {f1}
SPECIFICATION Spec
PROPERTY StopReturns
