SPECIFICATION FairSpec
CONSTANTS
    UserThreads = {2}
    IdleThreads <- OneIdle
    PriorityCount = 2
    Semas = {}
    Flags = {}
    Tokens = {}
    Bits = {}
    NoObject = NoObject
    Calls = {"SleepThread", "InvokeCurrent", "CreateThread", "StartThread", "ChangeThreadPriority", "ExitDeleteThread"}
    HandlerCalls = {"iWakeupThread"}
    Sources = {"VBlank", "Interrupt", "RpcCallback"}
    DetachedCalls = FALSE
    MaxSuspend = 1
    MaxWakeup = 1
    MaxSema = 1
    MaxTicks = 1
    MaxPending = 1
    MaxDepth = 1
PROPERTIES
    QueuedHandlersStart
    ReadyThreadsRun
