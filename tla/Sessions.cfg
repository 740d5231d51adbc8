CONSTANTS
  t1 = t1
  t2 = t2
  l1 = l1
  l2 = l2
  Token <- OneToken
  Slot <- TwoLogouts
  Validity = 3
  MaxTime = 5
  EarlyRequests = FALSE
  DbLag = 2
  DbMayFail = FALSE
  MaxRestarts = 1
SPECIFICATION Spec
INVARIANTS
  TypeOK
  LeaseInv
  ServiceInv
  CachedIsStored
  ActiveSessionsLast
  LogoutHolds
PROPERTIES
  IdleSessionsExpire
