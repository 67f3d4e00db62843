CONSTANTS
    MaxB = 2
    MaxGen = 4
    SplitReply = TRUE
SPECIFICATION Spec
CHECK_DEADLOCK FALSE
INVARIANTS TypeOK DecisionAuthority WorkAgreesWithAttempt AttentionHasCause RequesterQuestionKept OneRepairWake
PROPERTY ReplyAnswersItsQuestion
