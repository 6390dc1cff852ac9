SPECIFICATION PlaneSpec
CONSTANTS
    k1 = k1
    k2 = k2
    k3 = k3
    c1 = c1
    c2 = c2
    e1 = e1
    e2 = e2
    Threads <- TwoThreads
    NoDeadline = NoDeadline
    MaxDelay = 2
    Events <- TwoEvents
    Safety = Safety
    MaxAttempts = 3
    Backoff <- ShortBackoff
    Chains <- OneHandler
    MaxWakes = 1
    MaxReboots = 1
    Outages = FALSE
    Ticking = FALSE
    WaitsLong = FALSE
    RunsFail = TRUE
PROPERTIES StrandedOnlyByCoalescing
INVARIANTS TimerIsSound
