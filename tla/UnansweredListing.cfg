CONSTANTS
  s1 = s1
  s2 = s2
  boot = boot
  o1 = o1
  Slot <- OneSlot
  Proc <- OneProc
  Boot = boot
  Orphan = {}
  PhysicalPin <- PinsAndInvalid
  ExecMayFail = FALSE
  Spelling <- Directions
  MaxId = 1
  Preloaded = 1
  Operation = {"update", "list"}
  Shared = TRUE
  Contested = TRUE
  EarlyRequests = FALSE
  DbLag = 0
  DbMayFail = FALSE
  MaxRestarts = 0
SPECIFICATION Spec
INVARIANT ListingsAreAnswered
