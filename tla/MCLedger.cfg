SPECIFICATION Spec
CONSTANTS
  r1 = r1
  r2 = r2
  Requests = {r1, r2}
  Commands = {}
  Keyed = TRUE
  Faults = {"open", "cut", "crash"}
  MaxEntries = 5
  MaxFaults = 3
SYMMETRY Interchangeable
INVARIANTS TypeOK ChainVerifies
PROPERTY AppendOnly
CHECK_DEADLOCK FALSE
