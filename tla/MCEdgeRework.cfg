CONSTANTS
    MaxLabels = 2
    MaxComments = 0
    MaxHead = 2
    FailureLimit = 2
    Happens = {"github", "spawn", "kill"}
SPECIFICATION Spec
INVARIANTS OneRoundPerCommand WorkerKeepsClaim
PROPERTIES CompletionIsEarned RoundStartsAtEdge
CHECK_DEADLOCK FALSE
