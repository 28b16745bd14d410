SPECIFICATION Spec
CONSTANTS
    Segments <- MCSegments
    StarSegments <- MCStarSegments
    Star = "*"
    StarStar = "**"
    MaxLen = 3
INVARIANT MatchCorrect
PROPERTY MatchTerminates
CHECK_DEADLOCK FALSE
