SPECIFICATION Spec
CONSTANTS
  root = root
  bob = bob
  new = new
  nameRoot = nameRoot
  nameBob = nameBob
  nameNew = nameNew
  mailRoot = mailRoot
  mailBob = mailBob
  mailNew = mailNew
  secret1 = secret1
  secret2 = secret2
  None = None
  r1 = r1
  r2 = r2
  r3 = r3
  Users = {root, bob, new}
  Names = {nameRoot, nameBob, nameNew}
  Emails = {mailRoot, mailBob, mailNew}
  Secrets = {secret1, secret2}
  MaxBalance = 3
  Requests = {r1, r2, r3}
  Bodies <- SomeBodies
  InitialTable <- TwoAccounts
SYMMETRY RequestSymmetry
INVARIANT TypeOK UniqueAccounts BalanceIsDeposits AdminsComeFromAdmins
PROPERTY ChangesWereAsked ImplementsUserTable LastAdminGoesInARace
CHECK_DEADLOCK FALSE
