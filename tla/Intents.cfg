\* Two calls, one worker; every case says what they ask and how many mishaps.
SPECIFICATION FairSpec
CONSTANTS
    c1 = c1
    c2 = c2
    s1 = s1
    s2 = s2
    q1 = q1
    q2 = q2
    Queries = {q1, q2}
    Tasks = {c1, c2}
    Queues = {c1, c2}
    Sessions = {s1, s2}
    Api = api
    Workers = {w1}
    Cases <- MCCases
    Concurrency = 1
    MaxDeliveries = 3
    LargeTurns = 2
    NoTask = NoTask
INVARIANTS
    TypeOK
    DeliveredOnce
    SubscribersAccounted
    AnswerWithinSession
    RepeatsRunOnce
    FinishedIsRecorded
    ConcurrencyBound
PROPERTIES
    ImplementsLifecycle
    EverythingSettles
CHECK_DEADLOCK FALSE
