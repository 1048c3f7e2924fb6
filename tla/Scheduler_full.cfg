SPECIFICATION Spec
CONSTANTS
  once = once
  daily = daily
  hourly = hourly
  None = None
  Schedules = {daily, hourly}
  Once = {once}
  Cron = {daily}
  ActiveLimit = 2
  Damage = {}
  MaxTime = 1
  MaxDelays = 0
  MaxManual = 2
  MaxMoves = 0
  MaxFaults = 0
  MaxCrashes = 0
  MaxTrouble = 0
  MaxCloses = 0
INVARIANT FullOnlyDelays
CHECK_DEADLOCK FALSE
