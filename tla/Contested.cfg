CONSTANTS
  s1 = s1
  s2 = s2
  boot = boot
  o1 = o1
  Slot <- OneSlot
  Proc <- OneProc
  Boot = boot
  Orphan = {}
  PhysicalPin <- PinsAndText
  ExecMayFail = FALSE
  Spelling <- AnyCase
  MaxId = 2
  Preloaded = 2
  Operation = {"update", "add", "remove"}
  Shared = TRUE
  Contested = TRUE
  EarlyRequests = FALSE
  DbLag = 0
  DbMayFail = FALSE
  MaxRestarts = 0
SPECIFICATION Spec
INVARIANTS
  ExportedIsOwned
  DrivingInv
PROPERTIES
  OkUpdateRewires
