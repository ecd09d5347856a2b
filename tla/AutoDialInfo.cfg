SPECIFICATION Spec
CONSTANTS
  Callers = {g1}
  Numbers = {n1}
  Gaps = {1, 2}
  LongestGap = 2
  MaxCalls = 3
  MaxEntries = 1
INVARIANTS InfoMatchesSchedules
