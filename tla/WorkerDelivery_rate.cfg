CONSTANTS
    d1 = d1
    d2 = d2
    Disp = {d1, d2}
    NoOwner = NoOwner
    MaxMsgs = 1
    MaxAttempts = 2
    MaxGen = 2
    MaxTickets = 1
    MaxJobs = 1
SPECIFICATION Spec
CHECK_DEADLOCK FALSE
PROPERTIES RateLimitFences
