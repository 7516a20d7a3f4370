SPECIFICATION SaveSpec
CONSTANTS
    Threads = {t1}
    None = None
    Dispatcher = Dispatcher
    Tokens = {k1}
    Periods = {3}
    BlankLength = 1
    AlarmIds = {1}
    AlarmTicks = {1}
    TimerTicks = {}
    DispatchCycles = 1
    BlockCycles = 1
    WallPace = FALSE
    WallSlack = 1
    EarlyStop = FALSE
    MaxWait = 0
    MaxPosts = 0
    Lag = 0
    Slots = {s1}
    NoSlot = NoSlot
    NoFile = NoFile
    BadFile = BadFile
    PoolSize = 2
    MaxBoots = 2
INVARIANTS
    AlarmsHaveDeadlines
