SPECIFICATION Spec
INVARIANTS ViewsUsable RedirectBeforeDelete
CONSTANTS
    p1 = p1
    p2 = p2
    main = main
    dev = dev
    None = None
    Proc = {p1, p2}
    View = {main, dev}
    Main = main
    Version = {1}
    Intent = {1, 2}
    Commands = {"snap", "undo", "redo", "abandon", "view", "switch", "oprestore", "oprevert", "gc", "finalize", "fork", "amend", "compact"}
    MaxCommands = 3
    MaxEdits = 2
    MaxCrashes = 1
CHECK_DEADLOCK FALSE
SYMMETRY Symmetry
