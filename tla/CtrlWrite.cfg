SPECIFICATION FairSpec
CONSTANTS
  Writers = {w1, w2, w3}
  Size = 2
  Room = 2
INVARIANTS TypeOK OnlyCutsGarble
PROPERTIES NoStaleTimeout
PROPERTIES WritesReturn
