SPECIFICATION Spec
CONSTANTS
    None = None
    Jobs = {j1, j2}
    MaxMessages = 4
    MaxInfos = 1
    MaxGen = 3
    MaxFaults = 1
    Topics = {"info", "end", "turn", "ack", "activate", "retract"}
    Readers = {j1, j2}
    MaxInputs = 1
    MaxNews = 1
    Pages = 3
    MaxDeaths = 1
    MaxReads = 4
INVARIANTS
    SentOnce
    WakesKept
    OneReadPerCause
    TurnReachesSupervisor
PROPERTY
    LateIsFenced
SYMMETRY Interchangeable
CHECK_DEADLOCK FALSE
