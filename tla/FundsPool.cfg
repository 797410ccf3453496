\* Two errands that share the escrow account, two concurrent callers.
SPECIFICATION Spec
CONSTANTS
    u1 = u1
    e1 = e1
    Users = {u1, u2}
    Errands = {e1, e2}
    Callers = {c1, c2}
    NoOne = NoOne
    SystemOperator = SystemOperator
    Settlers = {SystemOperator}
    EscrowAcc = EscrowAcc
    CommissionAcc = CommissionAcc
    SlotTotal = 1
    RatePercent = 50
    RoundBound = 0
    Reward <- MCReward
    Opening <- MCOpening
SYMMETRY CallerSymmetry
INVARIANTS
    LedgerExplainsBalances
    EveryPostingBalanced
    EscrowPoolBacked
CHECK_DEADLOCK FALSE
