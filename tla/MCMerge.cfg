SPECIFICATION Spec
SYMMETRY Swapped
CHECK_DEADLOCK FALSE
CONSTANTS
  ChangeIds = {1, 2, 3, 4, 5}
  Ghosts = {}
  Items <- MCItems
  Restricted = {}
  Workspaces = {w}
  Views = {main, feature}
  Trees <- MCTrees
  Bodies = {3}
  BlobFile = "logo"
  None = None
  MaxChanges = 5
  MaxOwn = 3
  Start <- MCStart
  MaxKills = 1
  Edits <- MCEdits
  Cones <- MCCones
  FreshProcess = FALSE
  MaxTurns = 2
INVARIANTS ConflictIsTracked CleanMergesOverlay WorkIsKept
PROPERTIES ApprovalResolves
