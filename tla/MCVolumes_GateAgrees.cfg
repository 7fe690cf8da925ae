SPECIFICATION VolumesSpec
CONSTANTS
  Keep = 3
  MaxOps = 5
  MaxWork = 2
  MaxFaults = 2
  Names = {n1, n2}
  Handlers = {r1, r2}
  Host = boss
  Mate = mate
  None = nothing
  Ops = {"create", "seed", "keep", "clone", "purge", "memory"}
  MaxBorn = 2
  MaxFailures = 2
  MaxCrashes = 1
INVARIANT GateAgrees
CHECK_DEADLOCK FALSE
