SPECIFICATION LiveSpec
CONSTANTS
  cmd = cmd
  art = art
  j1 = j1
  bak = bak
  col = col
  h1 = h1
  daily = daily
  hourly = hourly
  j2 = j2
  t1 = t1
  t2 = t2
  t3 = t3
  None = None
  Tasks = {cmd, art}
  Jobs = {j1}
  JobOf <- MCJobOf
  Batched = {cmd}
  Artifacts = {art}
  Downloads = {}
  ActiveLimit = 2
  QueueLimit = 2
  HistoryLimit = 1
  MaxRequests = 1
  MaxAgentCrashes = 0
  MaxServerCrashes = 0
PROPERTIES PollingReports DeviceJobsEnd JobsConclude Served EveryTargetEnds
CHECK_DEADLOCK FALSE
