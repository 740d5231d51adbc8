CONSTANTS
  s1 = s1
  s2 = s2
  boot = boot
  o1 = o1
  Slot <- OneSlot
  Proc <- OneProc
  Boot = boot
  Orphan = {o1}
  PhysicalPin <- PinsAndInvalid
  ExecMayFail = TRUE
  Spelling <- Directions
  MaxId = 1
  Preloaded = 1
  Operation = {"toggle", "update", "add", "remove", "list"}
  Shared = TRUE
  Contested = TRUE
  EarlyRequests = FALSE
  DbLag = 1
  DbMayFail = TRUE
  MaxRestarts = 1
SPECIFICATION Spec
INVARIANTS
  TableFollowsCache
  CachedIsStored
PROPERTIES
  FollowsLifecycle
  EverythingEnds
