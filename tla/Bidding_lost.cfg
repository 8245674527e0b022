SPECIFICATION Spec
CONSTANTS
  alice = alice
  bob = bob
  carol = carol
  dave = dave
  root = root
  b1 = b1
  b2 = b2
  b3 = b3
  b4 = b4
  c1 = c1
  c2 = c2
  None = None
  Users = {alice, bob, carol, dave}
  BidRequests = {b1, b2, b3, b4}
  CloseRequests = {}
  Amounts = {1, 2, 3, 4}
  StartPrice = 1
  MaxRetries = 3
  LastInstant = 0
  MaxBalance = 4
  Deposits = {}
  Patches = {}
  MayCrash = FALSE
  Schedules <- AlwaysOpen
  InitialUsers <- RichFour
  Clients <- OneBidEach
  Offers <- DifferentOffers
INVARIANT HighestBidNeverLost
CHECK_DEADLOCK FALSE
