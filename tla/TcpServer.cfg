SPECIFICATION ServerSafetySpec
CONSTANTS
  l1 = l1
  l2 = l2
  Loops <- MCLoops
  Pool <- MCPool
  Users = {}
  UserOps = {}
  Units = 1
  Conns = {c1, c2}
  HereOps = {}
  MaxCalls = 0
  MayStop = TRUE
SYMMETRY ConnSymmetry
INVARIANTS ServerTypeOK OpenIsOwned LoadBalanced ServerChannelGone ThreadConfined
