SPECIFICATION Spec
CONSTANTS
  Runs = {r1, r2, r3}
  Accepted = {r1, r2}
  Accounts <- DemoAccounts
  Balance <- DemoBalance
  Artifacts = 3
INVARIANT DepositedOnce FinishedMeansSeeded SeededOnce
CHECK_DEADLOCK FALSE
