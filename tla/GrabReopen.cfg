\* No faults, no expiry: PublishedIsGrabbable is refuted.
SPECIFICATION Spec
CONSTANTS
    a = a
    b = b
    q1 = q1
    q2 = q2
    Users = {a, b}
    Publisher = b
    Requests = {q1, q2}
    Handlers = {h1}
    RunnerOf <- MCRunnerOf
    NoOne = NoOne
    SystemOperator = SystemOperator
    SlotTotal = 1
    MaxTransferRounds = 1
    RoundBound = 1
    FaultBound = 0
    KeysExpire = FALSE
INVARIANT PublishedIsGrabbable
CHECK_DEADLOCK FALSE
