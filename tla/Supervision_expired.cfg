CONSTANTS
    MaxB = 2
    MaxGen = 2
    SplitReply = FALSE
SPECIFICATION FairSpec
CHECK_DEADLOCK FALSE
PROPERTIES ExpiredTurnSettles
