SPECIFICATION Spec
CONSTANTS
  Signals <- MCSignals
  MaxSamples = 14
  MaxTurns = 1
  MaxFlight = 3
  MaxLost = 2
INVARIANTS TypeOK Conserved Lag InStep BandsJoin NoWrap
PROPERTY ScalesApproach
CHECK_DEADLOCK FALSE
