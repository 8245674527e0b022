SPECIFICATION FairWatchSpec
CONSTANTS
  alice = alice
  bob = bob
  b1 = b1
  b2 = b2
  None = None
  Users = {alice, bob}
  BidRequests = {b1, b2}
  CloseRequests = {}
  Amounts = {1, 2}
  StartPrice = 1
  MaxRetries = 2
  LastInstant = 1
  MaxBalance = 2
  Deposits = {1}
  Patches <- Blocks
  MayCrash = TRUE
  Schedules <- OneEndsOneStarts
  InitialUsers <- Pair
  Clients <- AliceAndAnybody
  Offers <- AnyOffer
INVARIANT BidsCovered AtMostOneLateBid
PROPERTY NeverSeenGoingBack EveryRequestEnds
CHECK_DEADLOCK FALSE
