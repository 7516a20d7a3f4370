SPECIFICATION Spec
CONSTANTS
    UserThreads = {2}
    IdleThreads <- OneIdle
    PriorityCount = 2
    Semas = {s1}
    Flags = {f1}
    Tokens = {k1}
    Bits = {b1, b2}
    NoObject = NoObject
    Calls <- ObjectProgram
    HandlerCalls <- ObjectHandlers
    Sources = {"Interrupt", "ExternalWake"}
    DetachedCalls = FALSE
    MaxSuspend = 1
    MaxWakeup = 1
    MaxSema = 1
    MaxTicks = 1
    MaxPending = 1
    MaxDepth = 0
INVARIANTS
    WaitersExact
    NoIdleUnits
    NoSatisfiedWaiter
    HandlersBeforeThreads
    OneHandlerPerThread
