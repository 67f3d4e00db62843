SPECIFICATION Spec
CONSTANTS
    None = None
    Peers = {"p1", "p2"}
    Callers = {r1, r2, r3}
    MaxCabs = 3
    MaxConns = 2
    MaxCscs = 3
    MaxWakes = 2
    MaxCatalog = 2
    Sources = {r1, r2, r3}
    Payloads = {"p", "q"}
    Caos = {"c1", "c2"}
    Relations = {"independent", "interrupt", "replace", "cancel", "augment", "noop"}
    MaxWorks = 3
    Keys = {r1, r2, r3}
    Ops = {"new", "instruct", "finish", "resume", "delete", "purpose"}
    NoGeneration = NoGeneration
    MaxEpochs = 3
    MaxBound = 2
    MaxAtts = 2
    MaxMsgs = 2
    MaxPurpose = 2
    Topics = {"lost", "effect", "boundary", "replace"}
    MaxGen = 3
INVARIANTS
    SessionFenced
    ThreadSettled
    IntentsApplied
PROPERTIES
    AuthorityCurrent
    ThreadMovesOn
SYMMETRY Interchangeable
CHECK_DEADLOCK FALSE
