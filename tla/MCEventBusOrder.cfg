\* The documented order of dispatch.
SPECIFICATION Spec
CONSTANTS
    Segments <- MCSegments
    StarSegments <- MCStarSegments
    Star = "*"
    StarStar = "**"
    Threads <- Threads1
    Regs = {"exact", "wild"}
    Events = {"x"}
    Funcs <- MCFuncs
    Patterns <- MCPatterns
    TypeOf <- MCTypeOf
    Valid <- MCValid
    TopicOf <- MCTopicOf
    FuncOf <- MCFuncOf
    Priority <- MCPriority
    Once <- MCOnce
    Accepts <- AllAccept
    FilterRaises <- NoFilterRaises
    Kind <- AllSync
    AsyncMiddleware = FALSE
    EnablePriorities = TRUE
    PropagationEnabled = TRUE
    Handlers = {"unset"}
    Emissions = {"emitSync"}
    MaxDepth = 1
    MaxEmits = 1
INVARIANT RegistrationOrder
CHECK_DEADLOCK FALSE
