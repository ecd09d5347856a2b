SPECIFICATION SysSpec
CONSTANTS
  Callers = {hub, g1}
  Hub = hub
  ChanCap = 1
  WsCap = 1
  HasWs = TRUE
  MaxCalls = 1
  MaxEmitted = 0
  MaxPings = 1
  Clients = {c1}
  SendCap = 1
  MaxCommands = 1
  MaxPublished <- TwoResponses
INVARIANTS AfterTheApp
PROPERTIES ImplementsWsHub
