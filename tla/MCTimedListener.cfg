\* Two application threads, two triggers, one other call, one token to a period of two.
SPECIFICATION FairSpec
CONSTANTS
    Apps <- MCApps
    Interval = 1
    Calls = 1
    Period = 2
    Queries = {"acquire", "remaining", "reset"}
    MaxTriggers = 2
    MaxOthers = 1
    Horizon = 3
INVARIANTS WindowBound NothingStranded LostOnlyInOverlap
PROPERTIES TwiceOnlyInOverlap Settles
CHECK_DEADLOCK FALSE
