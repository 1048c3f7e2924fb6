SPECIFICATION MCSpec
CONSTANTS
  once = once
  daily = daily
  hourly = hourly
  None = None
  Schedules = {once, daily}
  Once = {once}
  Cron = {daily}
  ActiveLimit = 2
  Damage = {"jobs", "schedules"}
  MaxTime = 2
  MaxDelays = 1
  MaxManual = 1
  MaxMoves = 1
  MaxFaults = 2
  MaxCrashes = 1
  MaxTrouble = 2
  MaxCloses = 1
INVARIANTS FiresOnce OffStaysOff NoOverlap
CHECK_DEADLOCK FALSE
