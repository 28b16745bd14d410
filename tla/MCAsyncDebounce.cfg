\* Two application tasks and the callbacks make four calls, one task is cancelled.
SPECIFICATION FairSpec
CONSTANTS
    Apps <- MCApps
    MaxCalls = 4
    MaxCancels = 1
INVARIANTS DeliveredOnce OneAtATime NothingStranded FailuresHeard
PROPERTIES CancelQuiets CallsEnd
CHECK_DEADLOCK FALSE
