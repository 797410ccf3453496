\* One errand, two requests of two runners, two handlers, a fault.
SPECIFICATION Spec
CONSTANTS
    a = a
    b = b
    q1 = q1
    q2 = q2
    Users = {a, b}
    Publisher = b
    Requests = {q1, q2}
    Handlers = {h1, h2}
    RunnerOf <- MCRunnerOf
    NoOne = NoOne
    SystemOperator = SystemOperator
    SlotTotal = 1
    MaxTransferRounds = 1
    RoundBound = 1
    FaultBound = 1
    KeysExpire = FALSE
INVARIANTS
    TypeOK
    SlotConservation
    PlaceAccounted
    WinnerRecorded
    TransferredIsProtected
PROPERTIES
    WindowRespected
    ImplementsAggregate
CHECK_DEADLOCK FALSE
