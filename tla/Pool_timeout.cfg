SPECIFICATION Spec
CONSTANTS
  Requests = {r1, r2, r3}
  Kinds = {"bid", "close", "write", "read"}
  Capacity = 2
  MaxRetries = 3
  MayTimeOut = TRUE
INVARIANT AcceptedIsBroadcast
CHECK_DEADLOCK FALSE
