SPECIFICATION IslandSpec
CONSTANTS
  w1 = w1
  w2 = w2
  reaper = reaper
  free = free
  a1 = a1
  a2 = a2
  c1 = c1
  c2 = c2
  c3 = c3
  c4 = c4
  h1 = h1
  h2 = h2
  q1 = q1
  q2 = q2
  q3 = q3
  q4 = q4
  here = here
  there = there
  none = none
  Workers = {w1, w2}
  Reaper = reaper
  Free = free
  HeadlessPrimary = FALSE
  Ops = {"spawn", "remove", "revoke"}
  MaxBorn = 3
  MaxOps = 2
  MaxGens = 2
  MaxEnv = 0
  MaxFaults = 1
SYMMETRY Interchangeable
INVARIANTS PartsTyped WithinGrant IdentityKept ClientsHear ScreenIsTrue ActsAsAsked
CHECK_DEADLOCK FALSE
