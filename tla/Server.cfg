CONSTANTS
  s1 = s1
  boot = boot
  polls = polls
  stops = stops
  again = again
  Slot <- OneSlot
  Proc <- ServerProc
  Boot = boot
  Listener = polls
  Stopper <- OneStop
  Patient = TRUE
  Orphan = {}
  PhysicalPin <- PinsAndInvalid
  ExecMayFail = FALSE
  Spelling <- Directions
  MaxId = 1
  Preloaded = 1
  Operation = {"toggle", "update", "add", "remove", "list"}
  Shared = TRUE
  Contested = TRUE
  EarlyRequests = FALSE
  DbLag = 0
  DbMayFail = FALSE
  MaxRestarts = 1
SPECIFICATION ServerSpec
\* The process exits.
CHECK_DEADLOCK FALSE
INVARIANTS
  ServerTypeOK
  MembersAreTold
  ServerInv
  CalmStopReleasesLines
  StopInv
PROPERTIES
  ChangesAreNoticed
  StopEnds
