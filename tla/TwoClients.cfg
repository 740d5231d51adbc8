CONSTANTS
  s1 = s1
  s2 = s2
  boot = boot
  o1 = o1
  Slot <- TwoSlots
  Proc <- TwoProcs
  Boot = boot
  Orphan = {}
  PhysicalPin <- PinAndText
  ExecMayFail = FALSE
  Spelling <- Directions
  MaxId = 2
  Preloaded = 0
  Operation = {"update", "add", "remove"}
  Shared = TRUE
  Contested = TRUE
  EarlyRequests = FALSE
  DbLag = 0
  DbMayFail = FALSE
  MaxRestarts = 0
SPECIFICATION Spec
INVARIANTS
  FollowInv
  OrderInv
  StoredIsAccountedFor
PROPERTIES
  FollowsLifecycle
SYMMETRY Slots
