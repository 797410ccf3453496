\* One errand, three concurrent callers, two users, one timeout round.
SPECIFICATION Spec
CONSTANTS
    u1 = u1
    e1 = e1
    Users = {u1, u2}
    Errands = {e1}
    Callers = {c1, c2, c3}
    NoOne = NoOne
    SystemOperator = SystemOperator
    Settlers = {u1, u2, SystemOperator}
    EscrowAcc = EscrowAcc
    CommissionAcc = CommissionAcc
    SlotTotal = 1
    RatePercent = 50
    RoundBound = 1
    Reward <- MCReward
    Opening <- MCOpening
SYMMETRY CallerSymmetry
INVARIANTS
    TypeOK
    OutcomeMatchesMoney
    MoneyInv
PROPERTIES
    DisputeFreezesMoney
    ImplementsContract
    MovesByMethodsButSettler
CHECK_DEADLOCK FALSE
