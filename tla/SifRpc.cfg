SPECIFICATION Spec
CONSTANTS
    Sids = {s1, s2}
    Core = {core}
    Profiles = {game, clashing, doubled, plugin}
    Builtin = {game, clashing, doubled}
    Makes <- MakesOf
    SidsOf <- ListedSids
    Identities = {disc, other, broken, faulty}
    Specificity <- Matches
    None = None
    MaxMade = 2
    Threads = {t1, t2}
    Clients = {c1, c2}
    Queues = {q1, q2}
    Records = {r1, r2}
    Runs = {r1}
    PoolSlots = 2
    Answers <- PossibleAnswers
    NULL = NULL
    MaxWalk = 4
    MaxNesting = 2
    core = core
    sound = sound
    stream = stream
    extra = extra
    echo = echo
    game = game
    clashing = clashing
    doubled = doubled
    plugin = plugin
    disc = disc
    other = other
    broken = broken
    faulty = faulty
    s1 = s1
    s2 = s2
    r1 = r1
    r2 = r2
\* The program stops when the profile for its ELF is refused.
CHECK_DEADLOCK FALSE
SYMMETRY Symmetry
INVARIANTS
    RoutesServed
    ClientsFollowServers
    QueuesExact
    OneCallPerClient
