SPECIFICATION MonitorsSpec
CONSTANTS
  i1 = i1
  w1 = w1
  reaper = reaper
  Islands = {i1}
  Workers = {w1}
  Free = free
  MaxOps = 1
  MaxFaults = 1
  MaxRestarts = 1
  MaxMisses = 0
INVARIANTS PartsTyped ReportsAreNews
PROPERTIES ExitsReported LoopsServe
CHECK_DEADLOCK FALSE
