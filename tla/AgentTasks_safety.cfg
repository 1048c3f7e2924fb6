SPECIFICATION MCSpec
CONSTANTS
  cmd = cmd
  art = art
  j1 = j1
  j2 = j2
  None = None
  Tasks = {cmd, art}
  Jobs = {j1, j2}
  JobOf <- MCJobOf
  Batched = {cmd}
  Artifacts = {art}
  Downloads = {cmd}
  ActiveLimit = 2
  QueueLimit = 1
  HistoryLimit = 1
  MaxRequests = 2
  MaxAgentCrashes = 1
  MaxServerCrashes = 1
INVARIANT RunsOnceUnlessForgotten
PROPERTIES RevokedDeviceIsCutOff ImplementsRemoteCall
CHECK_DEADLOCK FALSE
