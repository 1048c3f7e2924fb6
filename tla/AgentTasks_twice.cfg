SPECIFICATION Spec
CONSTANTS
  cmd = cmd
  art = art
  j1 = j1
  j2 = j2
  None = None
  Tasks = {cmd, art}
  Jobs = {j1, j2}
  JobOf <- MCJobOf
  Batched = {cmd}
  Artifacts = {art}
  Downloads = {}
  ActiveLimit = 2
  QueueLimit = 2
  HistoryLimit = 1
  MaxRequests = 1
  MaxAgentCrashes = 0
  MaxServerCrashes = 0
INVARIANT NeverRunsTwice
CHECK_DEADLOCK FALSE
