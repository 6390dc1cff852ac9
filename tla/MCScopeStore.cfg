SPECIFICATION Spec
CONSTANTS
    s1 = s1
    s2 = s2
    s3 = s3
    hook = hook
    NoDelivery = NoDelivery
    ScopeIds <- TwoScopes
    Deliveries <- OneHook
    TTL = 2
    ClaimLease = 2
    MaxAttempts = 3
    MaxPending = 1
    Backoff <- ShippedBackoff
    MaxLockWait = 1
    MaxTime = 6
SYMMETRY ScopeSymmetry
INVARIANTS ScopesAreKept
PROPERTIES ClaimsAreFenced ImplementsLedger
