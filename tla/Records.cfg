SPECIFICATION AllSpec
CONSTANTS
    k1 = k1  g1 = g1  s1 = s1  None = None
    MaxOps = 2
    Keys = {k1}
    Grants = {g1, s1}
    Standing = {s1}
    Covers <- MCCovers
    NoGrant = NoGrant
    Targets = {"worktree", "temporary"}
    Workspace = "worktree"
    Calls = {"c1", "c2"}
    MaxFaults = 3
    Topics = {"legacy", "direct", "foreign", "reattach"}
    Works = {"w1", "w2"}
    RetryKeys = {"r1"}
    Workers = {"p1", "p2"}
    Managed = {"p1"}
    Reasons = {"retry"}
    LegacyKeys = {"r1"}
    NoWorker = "none"
    NoKey = ""
    MaxAttempts = 3
    MaxLane = 1
    WorkIds = {"w1", "w2"}
    Boundaries = {b1, b2}
    Outputs = {"o1"}
    Artifacts = {"a1"}
    ReadKeys = {b1, b2}
    Msgs = {"m1", "m2"}
    Nothing = "none"
    Bytes = 2
    MaxSeq = 9
    MaxGen = 3
INVARIANTS
    EffectsAccounted
    RemovalSafe
    PruneKeepsEvidence
    RetriedOnce
PROPERTY
    ImplementsGuard
SYMMETRY Interchangeable
CHECK_DEADLOCK FALSE
