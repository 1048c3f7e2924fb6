SPECIFICATION Spec
CONSTANTS
  Most = 1
  Limit = 2
INVARIANT StartsOnce
CHECK_DEADLOCK FALSE
