SPECIFICATION Spec
CONSTANTS
    UserThreads = {2, 3}
    IdleThreads <- OneIdle
    PriorityCount = 3
    Semas = {}
    Flags = {}
    Tokens = {}
    Bits = {}
    NoObject = NoObject
    Calls <- ThreadProgram
    HandlerCalls = {}
    Sources = {"VBlank", "Missing"}
    DetachedCalls = FALSE
    MaxSuspend = 1
    MaxWakeup = 1
    MaxSema = 1
    MaxTicks = 1
    MaxPending = 0
    MaxDepth = 0
INVARIANTS
    TypeOK
    RunningIsCurrent
    ReadyQueuesExact
    SleepersHaveNoWakeups
    MostUrgentRuns
    CompletionsRunFirst
PROPERTIES
    TurnLostOnlyToSlice
