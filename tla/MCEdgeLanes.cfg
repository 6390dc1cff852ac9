SPECIFICATION LanesSpec

CONSTANTS
    Pulls = {1, 2}
    SameBranch = TRUE
    Causes = {"question"}
    MaxAnswers = 1
    MaxFaults = 1
    Happens = {"prune", "signal"}
    Heads = {1, 2}
    MaxRounds = 2
    Changes = {"link", "unlink"}
INVARIANTS OneResumePerAnswer DoneIsEarned
PROPERTIES MaintainerIsHeard HoldIsShown GraphIsRespected StaleGraphConverges
CHECK_DEADLOCK FALSE
