SPECIFICATION Spec
CONSTANTS
  first = first
  second = second
  pc = pc
  None = None
  Devices = {first, second}
  Names = {pc}
  Limits = {1}
  MaxFaults = 1
  MaxCrashes = 1
  MaxConfigs = 1
  MaxSaves = 1
SYMMETRY Symmetry
INVARIANTS NamesUnique RegistrationsHold RemovedIsGone
PROPERTY CutOffForGood
CHECK_DEADLOCK FALSE
