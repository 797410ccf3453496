\* One errand that changes hands, one caller: PaidToTheRunner is refuted.
SPECIFICATION Spec
CONSTANTS
    u1 = u1
    e1 = e1
    Users = {u1, u2}
    Errands = {e1}
    Callers = {c1}
    NoOne = NoOne
    SystemOperator = SystemOperator
    Settlers = {u1, u2, SystemOperator}
    EscrowAcc = EscrowAcc
    CommissionAcc = CommissionAcc
    SlotTotal = 1
    RatePercent = 50
    RoundBound = 1
    Reward <- MCReward
    Opening <- MCOpening
INVARIANT PaidToTheRunner
CHECK_DEADLOCK FALSE
