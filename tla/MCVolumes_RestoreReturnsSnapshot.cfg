SPECIFICATION VolumesSpec
CONSTANTS
  Keep = 3
  MaxOps = 4
  MaxWork = 2
  MaxFaults = 0
  Names = {n1, n2}
  Handlers = {r1}
  Host = boss
  Mate = mate
  None = nothing
  Ops = {"create", "seed", "keep", "clone", "purge", "memory"}
  MaxBorn = 0
  MaxFailures = 0
  MaxCrashes = 0
INVARIANT RestoreReturnsSnapshot
CHECK_DEADLOCK FALSE
