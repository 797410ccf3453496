\* Three turns, two sessions, two workers with one slot each; every case says how many mishaps.
SPECIFICATION FairSpec
CONSTANTS
    t1 = t1
    t2 = t2
    t3 = t3
    s1 = s1
    s2 = s2
    b1 = b1
    b2 = b2
    w1 = w1
    w2 = w2
    Turns = {t1, t2, t3}
    Sessions = {s1, s2}
    Processes = {w1, w2}
    Buyers = {b1, b2}
    Queries = {"q", "r"}
    Statements = {"plastic", "small"}
    TopK = 1
    Slots = 1
    MaxRetries = 1
    HasFallback = TRUE
    CallCost = 1
    TurnRetries = 1
    BucketLimit = 1
    Window = 3
    RepeatThreshold = 2
    CheckInterval = 2
    Cases <- MCCases
    NoTurn = NoTurn
INVARIANTS
    TypeOK
    GatewayProtected
    CacheSound
    MemoryKept
    DislikesInjected
    HarnessSeesOwnTurn
PROPERTIES
    TurnsEnd
CHECK_DEADLOCK FALSE
