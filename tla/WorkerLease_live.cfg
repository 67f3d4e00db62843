CONSTANTS
    d1 = d1
    d2 = d2
    Disp = {d1, d2}
    NoOwner = NoOwner
    MaxMsgs = 2
    MaxAttempts = 1
    MaxGen = 1
    MaxTickets = 2
    MaxJobs = 1
SPECIFICATION LeaseSpec
CHECK_DEADLOCK FALSE
PROPERTIES BusyEventuallySettles TerminalLaneDrains
