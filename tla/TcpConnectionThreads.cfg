CONSTANTS
  Conns = {c1}
  Loops = {l1}
  Users = {u}
  HereOps = {"send"}
  UserOps = {"send", "shutdown", "forceClose"}
  Units = 2
  MaxCalls = 3
  MayStop = TRUE
SPECIFICATION SafetySpec
INVARIANTS SenderOrder
