SPECIFICATION Spec
CONSTANTS
  Lots = {l1}
  MaxChanges = 2
  MaxFetches = 2
  MaxOutdated = 0
  Mishaps = {}
  None = None
INVARIANT ViewIsCurrent
CHECK_DEADLOCK FALSE
