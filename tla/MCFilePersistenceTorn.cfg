\* A record appended to an unfinished line.
SPECIFICATION Spec
CONSTANTS
    Threads <- One
    BackupCount = 1
    MaxSize = 4
    Starts = {}
    Batches = {}
    MaxRecords = 2
    MaxFaults = 1
INVARIANTS WrittenIsReplayable
CHECK_DEADLOCK FALSE
