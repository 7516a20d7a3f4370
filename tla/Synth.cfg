SPECIFICATION FairSpec
CONSTANTS
    Streams = {s1}
    ChannelCount = 4
    Described = {1, 2, 3, 4}
    Voices = {v1}
    RequestLen = 1
    TargetLen = 3
    MaxPerPoll = 2
    DeadStrikes = 3
    Rate = 3
    Freq = 2
    StartLen = 1
    LookAhead = 1
    BentSteps = {0, 2, 3}
    MaxSlip = 1
    Real = {1, 2, 3}
    Bendable = {2}
    MaxReplies = 20
    MaxLost = 1
    MaxSamples = 4
    MaxChunks = 2
    MaxCalls = 2
    MaxEvents = 4
INVARIANTS AnswersExact DoneComesBack ChannelsInStep DataAccounted
PROPERTIES WaitsEnd StreamsSound
