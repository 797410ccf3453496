\* One errand, two callers: NoOrphanedHold is refuted.
SPECIFICATION Spec
CONSTANTS
    u1 = u1
    e1 = e1
    Users = {u1, u2}
    Errands = {e1}
    Callers = {c1, c2}
    NoOne = NoOne
    SystemOperator = SystemOperator
    Settlers = {u1, u2, SystemOperator}
    EscrowAcc = EscrowAcc
    CommissionAcc = CommissionAcc
    SlotTotal = 1
    RatePercent = 50
    RoundBound = 0
    Reward <- MCReward
    Opening <- MCOpening
INVARIANT NoOrphanedHold
CHECK_DEADLOCK FALSE
