-------------------------- MODULE ErrandFundsProps --------------------------
(***************************************************************************)
(* What must be true of the money of ErrandFunds.                          *)
(***************************************************************************)
EXTENDS ErrandFunds, Functions

\* The ranges of the tables and of what a caller remembers; balance in Nat is the
\* CHECK (available >= 0) of wallet_account.
TypeOK ==
    /\ errand \in [Errands -> Errand]
    /\ escrow \in [Errands -> {"NONE", "HELD", "RELEASED", "REFUNDED"}]
    /\ balance \in [Accounts -> Nat]
    /\ ledger \subseteq Postings
    /\ call \in [Callers -> Calls]

Total(ps) == SumFunction([p \in ps |-> p.amount])

\* The balance snapshot of every account is its opening balance plus its credits
\* minus its debits (recon check L2, which the repository runs on system accounts):
\* no casDebit whose result nobody looks at was ever refused.
LedgerExplainsBalances ==
    \A a \in Accounts :
        LET of(dir) == {p \in ledger : p.account = a /\ p.dir = dir}
        IN  balance[a] + Total(of("DEBIT"))
              = (IF a \in Users THEN Opening[a] ELSE 0) + Total(of("CREDIT"))

\* Double entry: the postings of one business number add up (recon check L1), so
\* the commission and the runner's share lose no cent of the reward.
EveryPostingBalanced ==
    \A biz \in {"escrow", "settle", "refund"}, e \in Errands :
        LET of(dir) == {p \in ledger : p.biz = biz /\ p.errand = e /\ p.dir = dir}
        IN  Total(of("DEBIT")) = Total(of("CREDIT"))

\* The escrow account holds exactly the rewards that were frozen and have not come
\* out: one errand is never paid with the money of another.
EscrowPoolBacked ==
    balance[EscrowAcc] =
        SumFunctionOnSet(Reward, {e \in Errands : /\ Posted("escrow", e)
                                                  /\ ~Posted("settle", e) /\ ~Posted("refund", e)})

\* Where the money went and how the errand ended agree, whatever settle, cancel and
\* arbitration raced: paid exactly when SETTLED, returned only when CANCELLED or
\* REFUNDED, and the escrow row says which.
OutcomeMatchesMoney ==
    \A e \in Errands :
        /\ Posted("settle", e) <=> errand[e].status = "SETTLED"
        /\ Posted("settle", e) => escrow[e] = "RELEASED"
        /\ Posted("refund", e) <=> escrow[e] = "REFUNDED"
        /\ Posted("refund", e) => errand[e].status \in {"CANCELLED", "REFUNDED"}

\* The inductive strengthening.  A refund posts to the publisher of the errand and
\* must not meet a payout: whoever is past the compare-and-set of cancelAndRefund or
\* arbitrateRefund refunds an errand that has ended and stays ended, and an errand
\* has a publisher and an escrow row exactly once it is published.
RowsPersist ==
    \A e \in Errands :
        /\ errand[e].publisher = NoOne <=> errand[e].status = "DRAFT"
        /\ errand[e].status = "DRAFT" <=> escrow[e] = "NONE"

CallersPublished ==
    \A c \in Callers : call[c].op \in Ops => errand[call[c].errand].status # "DRAFT"

RefundersDone ==
    \A c \in Callers :
        call[c].op \in {"refundRead", "refund"}
            => errand[call[c].errand].status \in {"CANCELLED", "REFUNDED"}

MoneyInv ==
    TypeOK /\ RowsPersist /\ CallersPublished /\ RefundersDone /\ OutcomeMatchesMoney

\* "A DISPUTED errand's money is neither settled nor refunded until arbitration"
\* (EscrowOrder.java): while an errand is and stays DISPUTED nothing is posted for
\* it, late settle calls and auto-settle messages included.
PostingsOf(e) == {p \in ledger : p.errand = e}
DisputeFreezesMoney ==
    [][\A e \in Errands :
          errand[e].status = "DISPUTED" /\ errand'[e].status = "DISPUTED"
              => PostingsOf(e)' = PostingsOf(e)]_vars

\* Each step is a step of the abstract contract (money out of a purse once, back
\* once) or changes nothing of it.
Stage(e) ==
    IF Posted("settle", e) THEN "paid"
    ELSE IF Posted("refund", e) THEN "returned"
    ELSE IF Posted("escrow", e) THEN "held" ELSE "none"

Contract == INSTANCE EscrowContract WITH
    Platform <- CommissionAcc,
    Price    <- Reward,
    Cut      <- [e \in Errands |-> Fee(e)],
    stage    <- [e \in Errands |-> Stage(e)],
    payer    <- [e \in Errands |-> errand[e].publisher],
    purse    <- [a \in Users \cup {CommissionAcc} |-> balance[a]]

ImplementsContract == Contract!Spec

Aggregate == INSTANCE ErrandAggregate

\* What Errand.settle would refuse: somebody who did not publish the errand settles it.
SettledByStranger(e) ==
    \E u \in Users \ {errand[e].publisher} :
        /\ CanTransit(errand[e].status, "SETTLED")
        /\ Aggregate!Becomes(e, SettleBy(errand[e], u))

\* The SQL conditions repeat only part of the checks of the domain methods; with
\* the interleavings the code allows, a row still moves by whole methods of the
\* aggregate only, but for one check that settle never makes: a row may be settled in
\* the name of a user who is not its publisher (Errand.java:203).
MovesByMethodsButSettler ==
    Aggregate!Init /\ [][Aggregate!Next \/ \E e \in Errands : SettledByStranger(e)]_errand

-----------------------------------------------------------------------------
(* What the README says of a payout: "after delivery is confirmed the reward is  *)
(* settled to the runner and the platform".                                      *)

\* The share goes to the runner who holds the errand when it is settled, although
\* settle fixed the payee when it read the row and gate 2 compares no version.
PaidToTheRunner ==
    \A p \in ledger :
        p.biz = "settle" /\ p.dir = "CREDIT" /\ p.account # CommissionAcc
            => p.account = errand[p.errand].grabber

-----------------------------------------------------------------------------
(* What the reconciliation queries of JdbcReconRepository say "must not exist". *)

\* Case 1: RELEASED without a settle posting, "marked as settled but not paid out".
ReleasedMeansPaid ==
    \A e \in Errands : escrow[e] = "RELEASED" => Posted("settle", e)

\* Case 3: the errand has ended but the escrow is still HELD, and nobody is left
\* who would move it.
Refunding(e) ==
    \E c \in Callers : call[c].op \in {"refundRead", "refund"} /\ call[c].errand = e
NoOrphanedHold ==
    \A e \in Errands :
        errand[e].status \in {"SETTLED", "REFUNDED", "CANCELLED"} /\ escrow[e] = "HELD"
            => Refunding(e)
=============================================================================
