SPECIFICATION FairSpec
CONSTANTS
    Threads = {t1}
    None = None
    Dispatcher = Dispatcher
    Tokens = {k1}
    Periods = {3}
    BlankLength = 1
    AlarmIds = {1}
    AlarmTicks = {1}
    TimerTicks = {2}
    DispatchCycles = 1
    BlockCycles = 1
    WallPace = FALSE
    WallSlack = 1
    EarlyStop = FALSE
    MaxWait = 0
    MaxPosts = 1
    Lag = 0
PROPERTIES
    StopEnds
    VSyncWaitersResume
    AlarmsFire
    TimerInterrupts
    WakeupsArrive
