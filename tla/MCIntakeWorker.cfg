SPECIFICATION PartsSpec

CONSTANTS
    Repos = {a, b}
    New = a
    Procs = {p}
    MaxEvents = 2
    MaxFaults = 1
    Onboarders = {wake, manual}
    Nobody = Nobody
    MaxTip = 1
    MaxTouches = 2

INVARIANTS GoodHasTarget
PROPERTIES AckedWhenServed EligibleImported OperatorWorkKept SoundCheckoutCatchesUp
