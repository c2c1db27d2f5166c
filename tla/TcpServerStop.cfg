SPECIFICATION ServerSpec
CONSTANTS
  l1 = l1
  l2 = l2
  Loops <- MCLoops
  Pool <- MCPool
  Users = {}
  UserOps = {}
  Units = 1
  Conns = {c1}
  HereOps = {"send", "shutdown", "forceClose"}
  MaxCalls = 2
  MayStop = TRUE
INVARIANTS DestroyedOnce StopReleases
PROPERTIES ServerReaps StopCompletes
