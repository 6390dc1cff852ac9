SPECIFICATION PartsSpec
CONSTANTS
    d1 = d1
    d2 = d2
    h1 = h1
    h2 = h2
    Deliveries <- TwoDeliveries
    Handlers <- TwoHandlers
    MaxEntries = 1
    MaxSends = 2
    Repos = {1, 2}
    Requests = {q1, q2}
    MaxHooks = 3
    MaxChanges = 2
    MaxFaults = 1
SYMMETRY IngressSymmetry
INVARIANTS NothingIsSwallowed EffectsAreCounted HooksAreAccounted
CHECK_DEADLOCK FALSE
