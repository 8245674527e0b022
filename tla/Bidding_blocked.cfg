SPECIFICATION Spec
CONSTANTS
  alice = alice
  bob = bob
  carol = carol
  dave = dave
  root = root
  b1 = b1
  b2 = b2
  b3 = b3
  b4 = b4
  c1 = c1
  c2 = c2
  None = None
  Users = {alice, bob}
  BidRequests = {b1, b2}
  CloseRequests = {}
  Amounts = {1, 2}
  StartPrice = 1
  MaxRetries = 2
  LastInstant = 2
  MaxBalance = 2
  Deposits = {1}
  Patches <- BlockOrPromote
  MayCrash = FALSE
  Schedules <- StartsLater
  InitialUsers <- ModestPair
  Clients <- Anybody
  Offers <- AnyOffer
PROPERTY BlockedUserNeverBids
CHECK_DEADLOCK FALSE
