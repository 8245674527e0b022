SPECIFICATION FairSpec
CONSTANTS
  p1 = p1
  p2 = p2
  None = None
  Processes = {p1, p2}
  Names = {"admin", "alice"}
  DemoNames = {"admin", "alice"}
  DemoAdmin = "admin"
  Database = "production"
  Environments <- ToProduction
INVARIANT SchemaIsWhole OldAccountsAreLockedOut FailuresHaveACause ServesAtHead
PROPERTY DemoStaysOutOfProduction CommandsEnd
