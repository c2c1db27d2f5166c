CONSTANTS
  Conns = {c1}
  Loops = {l1}
  Users = {u}
  HereOps = {"send", "shutdown", "forceClose"}
  UserOps = {"send"}
  Units = 2
  MaxCalls = 3
  MayStop = FALSE
SPECIFICATION Spec
INVARIANTS StreamIntact OutputArmed FinAfterFlush CallbacksPaired ChannelGone LateOnlyAfterReset
PROPERTIES ClosedIsFreed ShutdownFinishes
