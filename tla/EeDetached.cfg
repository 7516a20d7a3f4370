SPECIFICATION Spec
CONSTANTS
    UserThreads = {2, 3}
    IdleThreads <- OneIdle
    PriorityCount = 3
    Semas = {s1}
    Flags = {}
    Tokens = {}
    Bits = {}
    NoObject = NoObject
    Calls <- RotatingProgram
    HandlerCalls <- RotatingHandlers
    Sources = {"VBlank", "Interrupt"}
    DetachedCalls = TRUE
    MaxSuspend = 1
    MaxWakeup = 1
    MaxSema = 1
    MaxTicks = 1
    MaxPending = 1
    MaxDepth = 0
PROPERTIES
    BindFindsMainReady
