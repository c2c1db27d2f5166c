CONSTANTS
  Conns = {c1}
  Loops = {l1}
  Users = {}
  HereOps = {"shutdown"}
  UserOps = {}
  Units = 2
  MaxCalls = 2
  MayStop = TRUE
SPECIFICATION SafetySpec
INVARIANT ChannelGone
