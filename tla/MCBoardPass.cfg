SPECIFICATION PartsSpec

CONSTANTS
    Cards = {1, 2}
    BoardOf <- MCBoardOf
    Edges = {e1}
    Core = core
    Profiles = {dev, main}
    Pool = {dev, main}
    Default = dev
    Reserved = reserved
    Capacity = 1
    MaxRuns = 2
    MaxFaults = 1
    MaxFlips = 1
    Boards = {x}
    Senders = {wake, manual}
    Wake = wake
    NoBoard = NoBoard
    MaxChanges = 3
    MaxLosses = 1
    MaxOverlaps = 1
INVARIANTS GateHolds AlertsAreSound
PROPERTIES CardsGetSlots IncidentIsTold
CHECK_DEADLOCK FALSE
