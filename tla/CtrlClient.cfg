SPECIFICATION FairSpec
CONSTANTS
  Callers = {g1}
  ChanCap = 1
  WsCap = 1
  HasWs = FALSE
  MaxCalls = 3
  MaxEmitted = 0
  MaxPings = 0
INVARIANTS AutoReplyFresh
PROPERTIES DialledIsHungUp
