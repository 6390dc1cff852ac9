SPECIFICATION PlaneSpec
CONSTANTS
    k1 = k1
    k2 = k2
    k3 = k3
    c1 = c1
    c2 = c2
    e1 = e1
    e2 = e2
    Threads <- TwoThreads
    NoDeadline = NoDeadline
    MaxDelay = 0
    Events <- OneEvent
    Safety = Safety
    MaxAttempts = 2
    Backoff <- NoBackoff
    Chains <- OneHandler
    MaxWakes = 1
    MaxReboots = 1
    Outages = TRUE
    Ticking = TRUE
    WaitsLong = TRUE
    RunsFail = TRUE
PROPERTIES NobodyWaitsForever SafetyNetUnlessParked
