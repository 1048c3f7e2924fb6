SPECIFICATION Spec
CONSTANTS
  first = first
  second = second
  pc = pc
  None = None
  Devices = {first, second}
  Names = {pc}
  Limits = {2}
  MaxFaults = 0
  MaxCrashes = 0
  MaxConfigs = 0
  MaxSaves = 0

INVARIANT LastContactShown
CHECK_DEADLOCK FALSE
