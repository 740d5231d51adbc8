CONSTANTS
  s1 = s1
  s2 = s2
  boot = boot
  o1 = o1
  Slot <- OneSlot
  Proc <- OneProc
  Boot = boot
  Orphan = {}
  PhysicalPin <- Pins
  ExecMayFail = FALSE
  Spelling <- Directions
  MaxId = 2
  Preloaded = 2
  Operation = {"update", "add"}
  Shared = TRUE
  Contested = TRUE
  EarlyRequests = FALSE
  DbLag = 0
  DbMayFail = FALSE
  MaxRestarts = 0
SPECIFICATION Spec
INVARIANT TableMatchesCache
