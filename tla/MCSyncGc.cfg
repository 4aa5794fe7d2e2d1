SPECIFICATION Spec
CHECK_DEADLOCK FALSE
SYMMETRY Swapped
CONSTANTS
  A = A
  B = B
  Clients = {A, B}
  Hub = Hub
  None = None
  Authors = {"human", "transient"}
  Transports = {"path", "http"}
  MaxSnaps = 3
  MaxCommands = 4
  MaxKills = 0
  MaxChanges = 6
  MaxConnections = 2
  MaxFrames = 2
INVARIANT PushKeepsTheBytes
