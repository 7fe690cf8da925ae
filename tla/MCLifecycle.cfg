\* Two goroutines, three handlers of any kind, one failure or crash.
SPECIFICATION Spec
CONSTANTS
  Islands = {i1}
  Workers = {w1, w2}
  Free = Free
  MaxOps = 3
  MaxFaults = 1
INVARIANTS TypeOK RepliesTellTruth Agreement
PROPERTIES PanicKeepsDown HandlersFinish
CHECK_DEADLOCK FALSE
