SPECIFICATION DaemonSpec
CONSTANTS
  r1 = r1
  r2 = r2
  cmd = cmd
  hook = hook
  n1 = n1
  n2 = n2
  d1 = d1
  f1 = f1
  f2 = f2
  a1 = a1
  h1 = h1
  h2 = h2
  ticker = ticker
  nobody = nobody
  i1 = i1
  i2 = i2
  Dirs = {d1, d2}
  Files = {f1}
  Srcs = {src}
  Requests = {r1, r2}
  Ops = {"grant", "revoke", "write", "intake"}
  Nothing = nothing
  MaxEdits = 0
  MaxFaults = 1
  Names = {n1, n2}
  Callers = {r1, r2}
  Hooks = {hook}
  NoValue = noValue
  MaxValues = 2
  MaxOps = 4
  MaxToggles = 2
  MaxDeaths = 2
  Readers = {e1, e2}
  Pollers = {e1}
  Everyone = everyone
  MaxRing = 2
  Limit = 1
  MaxSent = 3
  MaxElsewhere = 1
  MaxLosses = 1
  Ids = {i1, i2}
  Subscribers = {r1, r2}
  Catalog = {"crashed"}
  Uncataloged = {"arrival"}
  MaxCopies = 3
  MaxEvents = 1
  MaxReloads = 2
  MaxWakes = 2
  Everys = {0, 1}
  Tasks = {TRUE, FALSE}
  MaxTime = 3
  MaxTurns = 1
  MaxMishaps = 1
SYMMETRY Interchangeable
INVARIANTS PartsTyped AccountsTell SecretsFollow TradesOnRecord MailAnnounced WebhooksDeliver WakesKept
PROPERTY LogSpec
CHECK_DEADLOCK FALSE
