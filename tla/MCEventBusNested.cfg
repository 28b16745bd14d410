\* One thread, nested dispatches, all three kinds of callables, emissions in every mode,
\* a schema that refuses an event and a filter that raises.
SPECIFICATION Spec
CONSTANTS
    Segments <- MCSegments
    StarSegments <- MCStarSegments
    Star = "*"
    StarStar = "**"
    Threads <- Threads1
    Regs = {"exact", "wild", "deep"}
    Events = {"x", "z", "bad"}
    Funcs <- MCFuncs
    Patterns <- MCPatterns
    TypeOf <- MCTypeOf
    Valid <- MCValid
    TopicOf <- MCTopicOf
    FuncOf <- MCFuncOf
    Priority <- MCPriority
    Once <- MCOnce
    Accepts <- PickyAccept
    FilterRaises <- PickyRaises
    Kind <- Mixed
    AsyncMiddleware = FALSE
    EnablePriorities = TRUE
    PropagationEnabled = TRUE
    Handlers = {"unset"}
    Emissions = {"emit", "emitSync", "emitAsync"}
    MaxDepth = 2
    MaxEmits = 3
INVARIANTS SnapshotIsDue DispatchOrder
PROPERTY StopRespected
CHECK_DEADLOCK FALSE
