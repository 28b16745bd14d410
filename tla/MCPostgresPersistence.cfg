\* Two tasks and a pool of two, appends with and without key and expected position
\* among the first three calls.
SPECIFICATION FairSpec
CONSTANTS
    Tasks <- MCTasks
    Keys = {"k"}
    NoKey = "none"
    Events = {"x", "y"}
    PoolSize = 2
    MaxCalls = 4
    MaxAppends = 3
    MaxFaults = 1
INVARIANTS OnePositionPerKey ExpectedHonoured RealTimeOrder NoPoolAfterClose
PROPERTIES CallsEnd TableSpec
CHECK_DEADLOCK FALSE
