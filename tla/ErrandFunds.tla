---------------------------- MODULE ErrandFunds ----------------------------
(***************************************************************************)
(* The money of an errand: publishing freezes the reward in the escrow     *)
(* account, settling pays it out, cancelling and arbitration return it.    *)
(* PublishErrandUseCase, SettleErrandUseCase, RefundErrandUseCase,         *)
(* ArbitrateErrandUseCase and ArbitrateSettleStep, over the tables errand, *)
(* escrow_order, wallet_account and wallet_ledger.                         *)
(*                                                                         *)
(* A handler whose whole body is one database transaction is one action.   *)
(* Settling, refunding and arbitrating are not: they read, decide, send a  *)
(* half message and only then open the transaction, so each transaction is *)
(* an action of its own and what the handler remembers between them is     *)
(* call[c].  The grab side (Redis, candidates, timeouts) is ErrandGrab's;  *)
(* here only the committed row moves of it remain.                         *)
(*                                                                         *)
(* Definitions marked "wrong:" are not part of the model: each is a bug    *)
(* this code could have had, kept to test that the properties notice it.   *)
(***************************************************************************)
EXTENDS ErrandRow, FiniteSets

CONSTANTS Errands,
          Callers,          \* threads inside settle / cancelAndRefund / arbitrate
          EscrowAcc, CommissionAcc,   \* the two system accounts
          Reward,           \* [Errands -> Nat \ {0}], cents
          RatePercent,      \* dash.settle.commission-rate, in percent
          Opening,          \* [Users -> Nat], seeded balances
          Settlers,         \* operators in whose name settle is called
          RoundBound        \* bound of the model on grab rounds

ASSUME AccountsAssumption ==
    /\ EscrowAcc # CommissionAcc /\ {EscrowAcc, CommissionAcc} \cap (Users \cup {NoOne}) = {}
ASSUME RewardAssumption == Reward \in [Errands -> Nat \ {0}]
ASSUME RateAssumption == RatePercent \in 0..100
ASSUME OpeningAssumption == Opening \in [Users -> Nat]
ASSUME SettlersAssumption == Settlers \subseteq Operators
ASSUME RoundBoundAssumption == RoundBound \in Nat

VARIABLES errand,    \* [Errands -> Errand]
          escrow,    \* escrow_order.status, "NONE" while there is no row
          balance,   \* wallet_account.available
          ledger,    \* wallet_ledger, a set: (biz_no, account, direction) is unique
          call       \* what each caller remembers between two transactions

vars == <<errand, escrow, balance, ledger, call>>

Accounts == Users \cup {EscrowAcc, CommissionAcc}

Fee(e) == (Reward[e] * RatePercent) \div 100
ShareRoundedAlone(e) == (Reward[e] * (100 - RatePercent)) \div 100   \* wrong: rounds twice
Share(e) == Reward[e] - Fee(e)

-----------------------------------------------------------------------------
(* wallet_account and wallet_ledger *)

Posting(biz, e, a, dir, m) ==
    [biz |-> biz, errand |-> e, account |-> a, dir |-> dir, amount |-> m]

Postings == [biz     : {"escrow", "settle", "refund"},
             errand  : Errands,
             account : Accounts,
             dir     : {"DEBIT", "CREDIT"},
             amount  : Nat]

\* uk_biz_direction of wallet_ledger: the third gate
Fresh(ps) ==
    \A p \in ps, q \in ledger :
        <<p.biz, p.errand, p.account, p.dir>> # <<q.biz, q.errand, q.account, q.dir>>

CanDebitAlways(b, a, m) == TRUE           \* wrong: no condition in the WHERE clause
CanDebitStrictly(b, a, m) == b[a] > m     \* wrong: never down to zero

\* casDebit is conditional: 0 rows and no change when the account is short
CanDebit(b, a, m) == b[a] >= m
Debited(b, a, m) == IF CanDebit(b, a, m) THEN [b EXCEPT ![a] = @ - m] ELSE b
Credited(b, a, m) == [b EXCEPT ![a] = @ + m]

EscrowPostings(e, u) ==
    {Posting("escrow", e, u, "DEBIT", Reward[e]),
     Posting("escrow", e, EscrowAcc, "CREDIT", Reward[e])}

SettlePostingsGross(e, u) ==              \* wrong: the runner is booked the whole reward
    {Posting("settle", e, EscrowAcc, "DEBIT", Reward[e]),
     Posting("settle", e, u, "CREDIT", Reward[e])}

SettlePostings(e, u) ==
    {Posting("settle", e, EscrowAcc, "DEBIT", Reward[e]),
     Posting("settle", e, u, "CREDIT", Share(e))}
    \cup {p \in {Posting("settle", e, CommissionAcc, "CREDIT", Fee(e))} : p.amount > 0}

RefundPostings(e, u) ==
    {Posting("refund", e, EscrowAcc, "DEBIT", Reward[e]),
     Posting("refund", e, u, "CREDIT", Reward[e])}

Posted(biz, e) == \E p \in ledger : p.biz = biz /\ p.errand = e

-----------------------------------------------------------------------------
(* Callers *)

Ops == {"settle", "arbitrate", "favour", "cancel", "refundRead", "refund"}

Idle == [op |-> "idle"]

\* by is the operator the call was made for; who arbitrates is told nobody.
Asking(op, e, r, u) ==
    [op |-> op, errand |-> e, seen |-> r.grabber, version |-> r.version, by |-> u]

Calls == {m \in [op : Ops, errand : Errands, seen : Users \cup {NoOne}, version : Nat,
                  by : Operators \cup {NoOne}] : m.op = "settle" => m.by # NoOne} \cup {Idle}

Remember(c, m) == call' = [call EXCEPT ![c] = m]
Then(c, op) == call' = [call EXCEPT ![c].op = op]
Return(c) == Remember(c, Idle)

Become(e, r) == errand' = [errand EXCEPT ![e] = r]
MoveEscrow(e, s) == escrow' = [escrow EXCEPT ![e] = s]

-----------------------------------------------------------------------------
Init ==
    /\ errand = [e \in Errands |-> Draft]
    /\ escrow = [e \in Errands |-> "NONE"]
    /\ balance = [a \in Accounts |-> IF a \in Users THEN Opening[a] ELSE 0]
    /\ ledger = {}
    /\ call = [c \in Callers |-> Idle]

\* One transaction: freeze, double entry, escrow row, errand row, casPublish.
Publish(e, u) ==
    /\ ~Persisted(errand[e])
    /\ CanDebit(balance, u, Reward[e])
    /\ Fresh(EscrowPostings(e, u))
    /\ MayPublish(Draft) /\ PublishHits(Draft, Draft.version)
    /\ Become(e, [PublishSets(Draft) EXCEPT !.publisher = u])
    /\ MoveEscrow(e, "HELD")
    /\ balance' = Credited(Debited(balance, u, Reward[e]), EscrowAcc, Reward[e])
    /\ ledger' = ledger \cup EscrowPostings(e, u)
    /\ UNCHANGED call

\* A handler that reads the row, checks it and updates it in one transaction.
Move(e, r) == Become(e, r) /\ UNCHANGED <<escrow, balance, ledger, call>>

Lock(e, u) ==
    /\ errand[e].round <= RoundBound
    /\ LockHits(errand[e], errand[e].version)
    /\ Move(e, LockSets(errand[e], u))

Transfer(e, u) ==
    /\ errand[e].round < RoundBound
    /\ LeaveLockHits(errand[e], errand[e].version, errand[e].round)
    /\ Move(e, TransferSets(errand[e], u))

Revert(e) ==
    /\ errand[e].round < RoundBound
    /\ LeaveLockHits(errand[e], errand[e].version, errand[e].round)
    /\ Move(e, RevertSets(errand[e]))

Accept(e, u) ==
    /\ MayAccept(errand[e], u) /\ AcceptHits(errand[e], u, errand[e].version)
    /\ Move(e, AcceptSets(errand[e]))

PickUp(e, u) ==
    /\ MayPickUp(errand[e], u) /\ PickUpHits(errand[e], u, errand[e].version)
    /\ Move(e, PickUpSets(errand[e]))

Deliver(e, u) ==
    /\ MayDeliver(errand[e], u) /\ DeliverHits(errand[e], u, errand[e].version)
    /\ Move(e, DeliverSets(errand[e]))

Dispute(e, u) ==
    /\ MayDispute(errand[e], u) /\ DisputeHits(errand[e], errand[e].version)
    /\ Move(e, DisputeSets(errand[e]))

-----------------------------------------------------------------------------
(* Settling (the publisher, the auto-settle message or the auto-settle     *)
(* scan) and arbitration for the runner: the same payout, another gate 2.  *)

Begin(c, m) == call[c] = Idle /\ Remember(c, m) /\ UNCHANGED <<errand, escrow, balance, ledger>>

\* settle reads the row outside any transaction; only SETTLED stops it.  The controller
\* passes the user who calls, message and scan the system; Errand.settle, which would
\* compare him with the publisher, is not called.
SettleRead(c, e, u) ==
    /\ Persisted(errand[e]) /\ errand[e].status # "SETTLED" /\ escrow[e] # "NONE"
    /\ Begin(c, Asking("settle", e, errand[e], u))

ArbitrateRead(c, e) ==
    /\ errand[e].status = "DISPUTED" /\ escrow[e] = "HELD"
    /\ Begin(c, Asking("arbitrate", e, errand[e], NoOne))

Paying(c) == call[c].op \in {"settle", "arbitrate"}
Gate1(c) == escrow[call[c].errand] = "HELD"
Gate2(c) ==
    LET r == errand[call[c].errand]
    IN  IF call[c].op = "settle" THEN SettleHits(r) ELSE SettleFromDisputeHits(r)
\* findByOwner(null) throws, and so does a posting with a key already used
CanPost(c) ==
    call[c].seen \in Users /\ Fresh(SettlePostings(call[c].errand, call[c].seen))

PayoutRefused(c) ==
    /\ Paying(c) /\ ~Gate1(c)
    /\ Return(c) /\ UNCHANGED <<errand, escrow, balance, ledger>>

\* Gate 2 misses: "return false" leaves the transaction to commit what gate 1 wrote.
PayoutStranded(c) ==
    /\ Paying(c) /\ Gate1(c) /\ ~Gate2(c)
    /\ MoveEscrow(call[c].errand, "RELEASED")
    /\ Return(c) /\ UNCHANGED <<errand, balance, ledger>>

PayoutAborted(c) ==
    /\ Paying(c) /\ Gate1(c) /\ Gate2(c) /\ ~CanPost(c)
    /\ Return(c) /\ UNCHANGED <<errand, escrow, balance, ledger>>

\* What gate 2 leaves of row r, with the row of the status log.
Paid(c, r) ==
    IF call[c].op = "settle" THEN SettleSets(r, call[c].by) ELSE SettleFromDisputeSets(r)

\* The payee is the grabber read before the transaction.
PayoutCommitted(c) ==
    LET e == call[c].errand
        u == call[c].seen
    IN  /\ Paying(c) /\ Gate1(c) /\ Gate2(c) /\ CanPost(c)
        /\ MoveEscrow(e, "RELEASED")
        /\ Become(e, Paid(c, errand[e]))
        /\ balance' = Credited(Credited(Debited(balance, EscrowAcc, Reward[e]), u, Share(e)),
                               CommissionAcc, Fee(e))
        /\ ledger' = ledger \cup SettlePostings(e, u)
        /\ Return(c)

-----------------------------------------------------------------------------
(* Cancelling and arbitration for the publisher: the errand row moves in a *)
(* transaction of its own, the money follows in another one.               *)

CancelRead(c, e, u) ==
    /\ Persisted(errand[e]) /\ MayCancel(errand[e], u)
    /\ Begin(c, Asking("cancel", e, errand[e], u))

FavourPaysFirst(c, e) ==                  \* wrong: the refund before the row has moved
    /\ errand[e].status = "DISPUTED"
    /\ Begin(c, Asking("refundRead", e, errand[e], NoOne))

FavourRead(c, e) ==
    /\ errand[e].status = "DISPUTED"
    /\ Begin(c, Asking("favour", e, errand[e], NoOne))

CancelCas(c) ==
    LET e == call[c].errand
    IN  /\ call[c].op = "cancel" /\ CancelHits(errand[e], call[c].version)
        /\ Become(e, CancelSets(errand[e]))
        /\ Then(c, "refundRead") /\ UNCHANGED <<escrow, balance, ledger>>

\* arbitrateRefund reads the status again and updates on the status alone.
FavourCas(c) ==
    LET e == call[c].errand
    IN  /\ call[c].op = "favour" /\ RefundFromDisputeHits(errand[e])
        /\ Become(e, RefundFromDisputeSets(errand[e]))
        /\ Then(c, "refundRead") /\ UNCHANGED <<escrow, balance, ledger>>

CancelMissedRefunds(c) ==                 \* wrong: refunds although no row was cancelled
    /\ call[c].op = "cancel" /\ ~CancelHits(errand[call[c].errand], call[c].version)
    /\ Then(c, "refundRead") /\ UNCHANGED <<errand, escrow, balance, ledger>>

CancelMissed(c) ==
    /\ call[c].op = "cancel" /\ ~CancelHits(errand[call[c].errand], call[c].version)
    /\ Return(c) /\ UNCHANGED <<errand, escrow, balance, ledger>>

FavourMissed(c) ==
    /\ call[c].op = "favour" /\ ~RefundFromDisputeHits(errand[call[c].errand])
    /\ Return(c) /\ UNCHANGED <<errand, escrow, balance, ledger>>

RefundRead(c) ==
    /\ call[c].op = "refundRead"
    /\ IF escrow[call[c].errand] = "HELD" THEN Then(c, "refund") ELSE Return(c)
    /\ UNCHANGED <<errand, escrow, balance, ledger>>

RefundRefused(c) ==
    /\ call[c].op = "refund" /\ ~Gate1(c)
    /\ Return(c) /\ UNCHANGED <<errand, escrow, balance, ledger>>

RefundCommitted(c) ==
    LET e == call[c].errand
        u == errand[e].publisher
    IN  /\ call[c].op = "refund" /\ Gate1(c) /\ Fresh(RefundPostings(e, u))
        /\ MoveEscrow(e, "REFUNDED")
        /\ balance' = Credited(Debited(balance, EscrowAcc, Reward[e]), u, Reward[e])
        /\ ledger' = ledger \cup RefundPostings(e, u)
        /\ Return(c) /\ UNCHANGED errand

\* A crash between two transactions, a half message that cannot be sent, a
\* transaction that throws: the caller is gone and what was committed stays.
Abandon(c) ==
    /\ call[c] # Idle
    /\ Return(c) /\ UNCHANGED <<errand, escrow, balance, ledger>>

-----------------------------------------------------------------------------
Money(c) ==
    \/ PayoutRefused(c) \/ PayoutStranded(c) \/ PayoutAborted(c) \/ PayoutCommitted(c)
    \/ CancelCas(c) \/ CancelMissed(c) \/ FavourCas(c) \/ FavourMissed(c)
    \/ RefundRead(c) \/ RefundRefused(c) \/ RefundCommitted(c) \/ Abandon(c)
    \/ \E e \in Errands :
          \/ ArbitrateRead(c, e) \/ FavourRead(c, e)
          \/ \E u \in Settlers : SettleRead(c, e, u)
          \/ \E u \in Users : CancelRead(c, e, u)

RowMove(e) ==
    \/ Revert(e)
    \/ \E u \in Users :
          \/ Publish(e, u) \/ Lock(e, u) \/ Transfer(e, u) \/ Accept(e, u)
          \/ PickUp(e, u) \/ Deliver(e, u) \/ Dispute(e, u)

Next == (\E e \in Errands : RowMove(e)) \/ (\E c \in Callers : Money(c))

Spec == Init /\ [][Next]_vars
=============================================================================
