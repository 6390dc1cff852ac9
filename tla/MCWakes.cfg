SPECIFICATION PartsSpec
CONSTANTS
    MaxTriggers = 3
    BusyRetries = 1
    MaxRestarts = 2
    Cards = {c1}
    MaxReplays = 2
    MaxEvents = 2
    MaxFaults = 1
INVARIANTS FileIsSound ReplaysAreBounded
PROPERTIES RecordedNeverReplayed AcceptedTriggerIsServed CompletionIsProjected
CHECK_DEADLOCK FALSE
