SPECIFICATION Spec
CONSTANTS
  Islands = {i1}
  Workers = {w1, w2}
  Free = Free
  MaxOps = 3
  MaxFaults = 0
PROPERTY NoAutoStartUnderPanic
CHECK_DEADLOCK FALSE
