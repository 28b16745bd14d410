\* Two threads register, unregister and emit, nested once, while callbacks fail and
\* error handlers are set and removed: the races on the two indexes, on once-claims and
\* on the handler.
SPECIFICATION Spec
CONSTANTS
    Segments <- MCSegments
    StarSegments <- MCStarSegments
    Star = "*"
    StarStar = "**"
    Threads = {t1, t2}
    Regs = {"exact", "onceWild", "onceExact"}
    Events = {"x"}
    Funcs <- MCFuncs
    Patterns <- MCPatterns
    TypeOf <- MCTypeOf
    Valid <- MCValid
    TopicOf <- MCTopicOf
    FuncOf <- MCFuncOf
    Priority <- MCPriority
    Once <- MCOnce
    Accepts <- AllAccept
    FilterRaises <- NoFilterRaises
    Kind <- AllSync
    AsyncMiddleware = FALSE
    EnablePriorities = TRUE
    PropagationEnabled = TRUE
    Handlers = {"unset", "error", "stop"}
    Emissions = {"emitSync"}
    MaxDepth = 2
    MaxEmits = 2
INVARIANTS OnceAtMostOnce IndexesAgree SnapshotHonoured
PROPERTY FailsOnlyByPolicy
SYMMETRY Swaps
CHECK_DEADLOCK FALSE
