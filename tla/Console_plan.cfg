SPECIFICATION Spec
CONSTANTS
  east = east
  h1 = h1
  None = None
  Servers = {east}
  Hosts = {h1}
  MaxFlight = 3
  MaxEpochs = 1
  MaxJobs = 2
  MaxEvents = 0
INVARIANT PlanIsShown
CHECK_DEADLOCK FALSE
