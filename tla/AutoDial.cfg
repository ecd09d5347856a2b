SPECIFICATION FairSpec
CONSTANTS
  Callers = {g1, g2}
  Numbers = {n1}
  Gaps = {0, 1, 2}
  LongestGap = 2
  MaxCalls = 3
  MaxEntries = 2
INVARIANTS TypeOK Coverage OneLateDial
PROPERTIES StopsAfterDelete KeepsDialling
