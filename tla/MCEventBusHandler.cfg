\* The documented failure policy.
SPECIFICATION Spec
CONSTANTS
    Segments <- MCSegments
    StarSegments <- MCStarSegments
    Star = "*"
    StarStar = "**"
    Threads <- Threads2
    Regs = {"exact"}
    Events = {"x"}
    Funcs <- MCFuncs
    Patterns <- MCPatterns
    TypeOf <- MCTypeOf
    Valid <- MCValid
    TopicOf <- MCTopicOf
    FuncOf <- MCFuncOf
    Priority <- MCPriority
    Once <- MCOnce
    Accepts <- AllAccept
    FilterRaises <- NoFilterRaises
    Kind <- AllSync
    AsyncMiddleware = FALSE
    EnablePriorities = TRUE
    PropagationEnabled = TRUE
    Handlers = {"unset", "returns"}
    Emissions = {"emitSync"}
    MaxDepth = 1
    MaxEmits = 1
INVARIANT LogAndContinue
CHECK_DEADLOCK FALSE
