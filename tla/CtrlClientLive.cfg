SPECIFICATION FairSpec
CONSTANTS
  Callers = {g1}
  ChanCap = 1
  WsCap = 1
  HasWs = TRUE
  MaxCalls = 1
  MaxEmitted = 1
  MaxPings = 1
INVARIANTS TypeOK AppLossless WsFollowsApp
PROPERTIES Delivered ShutdownCompletes
