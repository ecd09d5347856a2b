SPECIFICATION Spec
CONSTANTS
  Clients = {c1, c2}
  SendCap = 2
  WsCap = 1
  MaxPublished <- TwoEventsOneResponse
  MaxCommands = 1
SYMMETRY Symmetry
INVARIANTS TypeOK NoPanic OpenWhileRegistered DrainReady NoGap
PROPERTIES ImplementsFanout
