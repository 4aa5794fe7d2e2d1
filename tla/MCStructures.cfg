SPECIFICATION Spec
CHECK_DEADLOCK FALSE
CONSTANTS
  NoRepo = NoRepo
  NoPatch = NoPatch
  p1 = p1
  p2 = p2
  change = change
  blob = blob
  \* Calendar
  StartDays <- MCStartDays
  LastDay = 146463
  \* Cache
  LruKey = {1, 2, 3, 4}
  LruValue = {1, 2}
  Slots = 3
  Capacity = 4
  \* Graph, Bisect, Revset
  ChangeIds = {1, 2, 3, 4}
  Ghosts = {2}
  Histories <- MCHistories
  MaxDeaths = 1
  RevsetRepos <- MCRepos
  Touching = {2, 3}
  \* Patch, Ast
  Items <- MCItems
  Restricted = {"b"}
  PatchItems <- MCPatchItems
  PatchBodies = {1, 2}
  PatchStates <- MCStates
  PatchChanges <- MCChanges
  Bodies = {1, 2}
  Names <- MCNames
  StartFiles <- MCStartFiles
  MaxEdited = 3
  \* ObjectStore
  Proc = {p1, p2}
  Key = {change, blob}
  Object = {change}
  Large = {blob}
  MaxCalls = 3
  MaxFaults = 2
  \* BlobIntake
  Puts = {1, 2, 3}
  Chunks = 2
  \* Daemon
  Watched = {"a", "b"}
  ChannelSize = 1
  MaxEdits = 3
  \* Policy
  PolicyFiles = {".arcignore", "b", "c", "user", "repo", "out"}
  OutsideFiles = {"user", "out"}
  MaxDepth = 2
  Ignores <- MCIgnores
  Configs <- MCConfigs
  ParentDir <- MCParentDir
  \* Keyring
  Holder = {p1, p2}
  Aliases = {"me"}
  MaxIdentities = 2
  \* Tui
  DiffLines <- MCDiffLines
  MaxRequests = 2
INVARIANTS WatchersForgetNothing PolicyPrevails IdentitiesAreKept IntentsAreSound StoredBytesAreWhole
PROPERTIES DatesAdvance CachesAreLru QueriesAreSound SessionIsSafe  PublishedWhole
