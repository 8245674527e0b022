SPECIFICATION Spec
CONSTANTS
  Lots = {l1, l2}
  MaxChanges = 2
  MaxFetches = 3
  MaxOutdated = 1
  Mishaps = {"failure", "drop", "logout"}
  None = None
SYMMETRY Symmetry
INVARIANT SocketFollowsSelection CurrentWhenTold
CHECK_DEADLOCK FALSE
