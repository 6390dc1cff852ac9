SPECIFICATION Spec

CONSTANTS
    Pulls = {1, 2}
    SameBranch = TRUE
    Causes = {"question"}
    MaxAnswers = 1
    MaxFaults = 1
    Happens = {"prune", "reopen", "signal"}

PROPERTY DoneStaysDone
CHECK_DEADLOCK FALSE
