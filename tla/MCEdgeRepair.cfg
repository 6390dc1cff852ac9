CONSTANTS
    MaxLabels = 1
    MaxComments = 1
    MaxHead = 1
    FailureLimit = 1
    Happens = {"merge", "issue", "stranger"}
SPECIFICATION FairSpec
PROPERTIES DoneIsRepaired ReservedIsDispatched
CHECK_DEADLOCK FALSE
