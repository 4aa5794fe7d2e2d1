SPECIFICATION Spec
CHECK_DEADLOCK FALSE
SYMMETRY Swapped
CONSTANTS
  A = A
  B = B
  Clients = {A, B}
  Hub = Hub
  None = None
  Authors = {"human", "transient"}
  Transports = {"path", "http"}
  MaxSnaps = 3
  MaxCommands = 3
  MaxKills = 1
  MaxChanges = 6
  MaxConnections = 2
  MaxFrames = 2
INVARIANTS StoresAreClosed NoTransientPublished PushesAreKept NativeSyncIsSound
