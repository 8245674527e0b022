SPECIFICATION FairSpec
CONSTANTS
  Sockets = {s1, s2}
  Auctions = {a1, a2}
  Casts = {c1, c2}
INVARIANT TypeOK ListenersAreMembers MembersBelong FailedHandlersLeave
PROPERTY ImplementsDelivery CastEnds
CHECK_DEADLOCK FALSE
