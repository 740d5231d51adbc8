CONSTANTS
  u1 = u1
  u2 = u2
  p1 = p1
  p2 = p2
  c1 = c1
  c2 = c2
  c3 = c3
  l1 = l1
  None = None
  User <- OneUser
  Password <- TwoPasswords
  Conn <- TwoConnections
  Slot <- OneLogin
  Key <- Keys
  Value <- Values
  MaxReading = 1
  Rand = {1, 2}
  DbMayFail = TRUE
  ClockMayStepBack = FALSE
SPECIFICATION FairSpec
INVARIANTS
  AccountsTypeOK
  TokensAreIssuedOnce
  AccountsLast
  StoredSessionsHaveAccounts
PROPERTIES
  ImplementsAtomicTable
  EverybodyIsAnswered
