SPECIFICATION Spec
CONSTANTS
  alice = alice
  bob = bob
  carol = carol
  dave = dave
  root = root
  b1 = b1
  b2 = b2
  b3 = b3
  b4 = b4
  c1 = c1
  c2 = c2
  None = None
  Users = {alice, bob, root}
  BidRequests = {b1, b2}
  CloseRequests = {c1}
  Amounts = {1, 2, 3}
  StartPrice = 1
  MaxRetries = 2
  LastInstant = 1
  MaxBalance = 3
  Deposits = {1}
  Patches = {}
  MayCrash = TRUE
  Schedules <- AlwaysOpen
  InitialUsers <- RichPair
  Clients <- OwnRole
  Offers <- AnyOffer
SYMMETRY RequestSymmetry
INVARIANT RowMatchesLog LogRises VersionCountsCommits RecordedOnce WinnerIsFinal BusyMeansOvertaken BidsForgottenForCause
PROPERTY NeverRollsBack ImplementsEnglishAuction
CHECK_DEADLOCK FALSE
