CONSTANTS
    d1 = d1
    d2 = d2
    Disp = {d1, d2}
    NoOwner = NoOwner
    MaxMsgs = 3
    MaxAttempts = 1
    MaxGen = 1
    MaxTickets = 1
    MaxJobs = 2
SPECIFICATION Spec
CHECK_DEADLOCK FALSE
PROPERTIES NoOvertaking NoRegress
SYMMETRY Symmetry
