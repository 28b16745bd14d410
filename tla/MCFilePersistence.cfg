\* Two fair threads append, iterate, close and restart; two backups, two records to a
\* file, consumers that append and close, two faults at any step.
SPECIFICATION FairSpec
CONSTANTS
    Threads <- Two
    BackupCount = 2
    MaxSize = 3
    Starts = {0, 1}
    Batches = {1, 5}
    MaxRecords = 6
    MaxFaults = 2
INVARIANTS TypeOK OrderKept AckedRetained RetentionBound DamageBounded ReplayOrdered
PROPERTIES LogSpec ReplayComplete LockReleased
CHECK_DEADLOCK FALSE
