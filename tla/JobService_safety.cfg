SPECIFICATION Spec
CONSTANTS
  bak = bak
  cmd = cmd
  col = col
  h1 = h1
  h2 = h2
  Jobs = {bak, cmd}
  Hosts = {h1, h2}
  Filed = {bak}
  Secret = {cmd}
  ActiveLimit = 2
  MaxFaults = 2
  MaxCrashes = 1
  MaxUnreadable = 1
SYMMETRY HostSymmetry
INVARIANTS NothingHeld WordIsKept StatusHonest
PROPERTY ImplementsLifecycle
CHECK_DEADLOCK FALSE
