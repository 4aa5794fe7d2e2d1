SPECIFICATION Spec
INVARIANTS UndoIsFaithful CleanStaysClean BlobsKept
CONSTANTS
    p1 = p1
    p2 = p2
    main = main
    dev = dev
    None = None
    Proc = {p1}
    View = {main, dev}
    Main = main
    Version = {1, 2}
    Intent = {1}
    Commands = {"snap", "undo", "redo", "abandon", "view", "switch", "oprestore", "oprevert"}
    MaxCommands = 6
    MaxEdits = 2
    MaxCrashes = 0
CHECK_DEADLOCK FALSE
