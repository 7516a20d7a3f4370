SPECIFICATION FairSpec
CONSTANTS
    Threads = {t1}
    None = None
    Dispatcher = Dispatcher
    Tokens = {k1}
    Periods = {2}
    BlankLength = 1
    AlarmIds = {1}
    AlarmTicks = {}
    TimerTicks = {}
    DispatchCycles = 1
    BlockCycles = 1
    WallPace = FALSE
    WallSlack = 1
    EarlyStop = TRUE
    MaxWait = 0
    MaxPosts = 1
    Lag = 1
PROPERTIES
    StopEnds
