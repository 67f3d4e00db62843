SPECIFICATION Spec
CONSTANT None = None
PROPERTIES
    EndedWakeFollowedUp
    EveryPushSettles
    AcceptedWorkCloses
CHECK_DEADLOCK FALSE
