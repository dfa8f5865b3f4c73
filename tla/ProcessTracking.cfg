SPECIFICATION Spec
CONSTANTS
  init = init
  x = x
  y = y
  InitPid = init
  Pids = {init, x, y}
  Images = {"sh", "ls"}
  FirstImage = "sh"
  KillSlots = 1
  Granule = 4
  Null = Null
  Verdicts = {"ALLOW_EVENT", "BLOCK_KILL_PROCESS_KILL_PARENT"}
  Setups <- MCSetups
  MaxClock = 4
CHECK_DEADLOCK FALSE
SYMMETRY Symmetry
INVARIANTS
  TypeOK
  AliveEntryIsLive
  OriginalParentKept
  ParentIsFindable
  StaleImageIsPending
  ProtectedIsLineage
  RelatedIsLineage
  KthreadExecIsHelper
PROPERTIES
  MarksOriginalParent
