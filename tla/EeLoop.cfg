SPECIFICATION Spec
CONSTANTS
    Threads = {t1}
    None = None
    Dispatcher = Dispatcher
    Tokens = {k1, k2}
    Periods = {2, 3}
    BlankLength = 1
    AlarmIds = {1}
    AlarmTicks = {0}
    TimerTicks = {}
    DispatchCycles = 1
    BlockCycles = 1
    WallPace = TRUE
    WallSlack = 1
    EarlyStop = FALSE
    MaxWait = 1
    MaxPosts = 1
    Lag = 1
INVARIANTS
    OneVBlankScheduled
    AlarmsHaveDeadlines
    NoEventSleptThrough
    GuestRunsOnTime
PROPERTIES
    EventsInOrder
