SPECIFICATION AllSpec
CONSTANTS
    MaxHost = 4  MaxExe = 2  MaxBridge = 2  Attempts = 2
    p1 = p1  p2 = p2  p3 = p3
    Pids = {p1, p2, p3}  MaxProc = 5  MaxWrite = 1  Migrates = TRUE
SYMMETRY Ids
INVARIANTS
    UpgradeFenced
    RollbackRestorable
    ReloadToAttested
CHECK_DEADLOCK FALSE
