SPECIFICATION FairSpec
CONSTANTS
  Requests = {r1, r2, r3}
  Kinds = {"bid", "close", "write", "read"}
  Capacity = 2
  MaxRetries = 2
  MayTimeOut = TRUE
INVARIANT HoldersWork AnswersAreTrue
PROPERTY WaitersEnd
CHECK_DEADLOCK FALSE
