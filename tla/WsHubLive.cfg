SPECIFICATION FairSpec
CONSTANTS
  Clients = {c1}
  SendCap = 2
  WsCap = 1
  MaxPublished <- TwoEventsOneResponse
  MaxCommands = 1
PROPERTIES EventuallyReleased AcceptedIsWritten
