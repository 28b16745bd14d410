\* Two fair threads and callbacks that end; priorities and propagation control
\* switched off, an async middleware.
SPECIFICATION FairSpec
CONSTANTS
    Segments <- MCSegments
    StarSegments <- MCStarSegments
    Star = "*"
    StarStar = "**"
    Threads <- Threads2
    Regs = {"exact", "onceWild"}
    Events = {"x"}
    Funcs <- MCFuncs
    Patterns <- MCPatterns
    TypeOf <- MCTypeOf
    Valid <- MCValid
    TopicOf <- MCTopicOf
    FuncOf <- MCFuncOf
    Priority <- MCPriority
    Once <- MCOnce
    Accepts <- AllAccept
    FilterRaises <- NoFilterRaises
    Kind <- Mixed
    AsyncMiddleware = TRUE
    EnablePriorities = FALSE
    PropagationEnabled = FALSE
    Handlers = {"unset", "returns"}
    Emissions = {"emit", "emitSync"}
    MaxDepth = 1
    MaxEmits = 2
PROPERTY DispatchTerminates
CHECK_DEADLOCK FALSE
