CONSTANTS
    d1 = d1
    d2 = d2
    Disp = {d1, d2}
    NoOwner = NoOwner
    MaxMsgs = 1
    MaxAttempts = 2
    MaxGen = 3
    MaxTickets = 2
    MaxJobs = 2
SPECIFICATION Spec
CHECK_DEADLOCK FALSE
INVARIANTS TypeOK AuthorityInv FenceUnique SubmittedOnce
PROPERTIES LaunchExclusive
SYMMETRY Symmetry
