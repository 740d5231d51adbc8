CONSTANTS
  s1 = s1
  s2 = s2
  boot = boot
  o1 = o1
  Slot <- TwoSlots
  Proc <- TwoProcs
  Boot = boot
  Orphan = {}
  PhysicalPin <- AllPins
  ExecMayFail = FALSE
  Spelling <- Directions
  MaxId = 2
  Preloaded = 1
  Operation = {"toggle", "update", "add", "remove", "list"}
  Shared = FALSE
  Contested = FALSE
  EarlyRequests = FALSE
  DbLag = 0
  DbMayFail = FALSE
  MaxRestarts = 0
SPECIFICATION Spec
INVARIANTS
  TypeOK
  ReleasedIsLow
  LowInv
PROPERTIES
  TogglesItsOwnLine
SYMMETRY Slots
