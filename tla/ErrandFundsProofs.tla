------------------------- MODULE ErrandFundsProofs -------------------------
(***************************************************************************)
(* What ErrandFundsProps says, proved for every set of errands, users and  *)
(* callers, every reward, rate and opening balance.                        *)
(***************************************************************************)
EXTENDS ErrandFundsProps, ErrandRowProofs, DataLemmas, TLAPS

(* The commission never exceeds the reward, so neither share is negative   *)
(* (SettleErrandUseCase: floor, the remainder goes to the runner).         *)
LEMMA FeeInReward ==
    ASSUME NEW e \in Errands
    PROVE  Fee(e) \in Nat /\ Share(e) \in Nat
<1> DEFINE r == Reward[e]
           x == r * RatePercent
<1>1. r \in Nat /\ RatePercent \in Nat /\ RatePercent <= 100
  BY RewardAssumption, RateAssumption
<1>2. x \in Nat /\ x <= r * 100
  <2>. HIDE DEF r
  <2>. QED BY <1>1, SMTT(30)
<1>. HIDE DEF x
<1>3. x \div 100 \in Nat /\ x \div 100 <= r
  <2>. HIDE DEF r
  <2>. QED BY <1>1, <1>2, SMTT(30)
<1>. QED BY <1>1, <1>3 DEF Fee, Share, x

-----------------------------------------------------------------------------
(* What the operators of the tables return *)

LEMMA BalanceTypes ==
    ASSUME NEW b \in [Accounts -> Nat], NEW a \in Accounts, NEW m \in Nat
    PROVE  Debited(b, a, m) \in [Accounts -> Nat] /\ Credited(b, a, m) \in [Accounts -> Nat]
BY DEF Debited, CanDebit, Credited

LEMMA PostingTypes ==
    ASSUME NEW e \in Errands, NEW u \in Users
    PROVE  /\ EscrowPostings(e, u) \subseteq Postings
           /\ SettlePostings(e, u) \subseteq Postings
           /\ RefundPostings(e, u) \subseteq Postings
<1>1. u \in Accounts /\ EscrowAcc \in Accounts /\ CommissionAcc \in Accounts
  BY DEF Accounts
<1>2. Reward[e] \in Nat /\ Fee(e) \in Nat /\ Share(e) \in Nat
  BY RewardAssumption, FeeInReward
<1>3. \A biz \in {"escrow", "settle", "refund"}, a \in Accounts,
         d \in {"DEBIT", "CREDIT"}, m \in Nat : Posting(biz, e, a, d, m) \in Postings
  BY DEF Posting, Postings
<1>4. EscrowPostings(e, u) \subseteq Postings
  BY <1>1, <1>2, <1>3 DEF EscrowPostings
<1>5. SettlePostings(e, u) \subseteq Postings
  BY <1>1, <1>2, <1>3 DEF SettlePostings
<1>6. RefundPostings(e, u) \subseteq Postings
  BY <1>1, <1>2, <1>3 DEF RefundPostings
<1>. QED BY <1>4, <1>5, <1>6

LEMMA CallTypes ==
    ASSUME NEW c \in Callers, call \in [Callers -> Calls]
    PROVE  /\ Return(c) => call' \in [Callers -> Calls]
           /\ \A op \in Ops, e \in Errands, r \in Errand, o \in Operators \cup {NoOne} :
                 (op = "settle" => o # NoOne) /\ Remember(c, Asking(op, e, r, o))
                    => call' \in [Callers -> Calls]
           /\ \A op \in Ops \ {"settle"} :
                 call[c].op \in Ops /\ Then(c, op) => call' \in [Callers -> Calls]
           /\ call[c].op \in Ops =>
                 /\ call[c].errand \in Errands /\ call[c].version \in Nat
                 /\ call[c].seen \in Users \cup {NoOne}
                 /\ call[c].by \in Operators \cup {NoOne}
           /\ call[c].op = "settle" => call[c].by \in Operators
<1>1. Idle \in Calls /\ Idle.op \notin Ops
  BY DEF Idle, Calls, Ops
<1>2. \A op \in Ops, e \in Errands, r \in Errand, o \in Operators \cup {NoOne} :
         (op = "settle" => o # NoOne) => Asking(op, e, r, o) \in Calls
  BY DEF Asking, Calls, Errand
<1>3. call[c].op \in Ops =>
         /\ call[c] \in [op : Ops, errand : Errands, seen : Users \cup {NoOne}, version : Nat,
                         by : Operators \cup {NoOne}]
         /\ call[c].op = "settle" => call[c].by # NoOne
  BY <1>1 DEF Calls
<1>4. \A op \in Ops \ {"settle"} : call[c].op \in Ops => [call[c] EXCEPT !.op = op] \in Calls
  BY <1>3 DEF Calls
<1>5. "settle" \in Ops
  BY DEF Ops
<1>. QED BY <1>1, <1>2, <1>3, <1>4, <1>5 DEF Return, Remember, Then

\* The four ways into the use cases: each reads a published errand.
ReadsRow(c, e) ==
    \/ ArbitrateRead(c, e) \/ FavourRead(c, e)
    \/ \E u \in Settlers : SettleRead(c, e, u)
    \/ \E u \in Users : CancelRead(c, e, u)

LEMMA ReaderBegins ==
    ASSUME NEW c, NEW e, ReadsRow(c, e)
    PROVE  /\ \E op \in {"settle", "arbitrate", "cancel", "favour"}, o \in Operators \cup {NoOne} :
                 (op = "settle" => o # NoOne) /\ Begin(c, Asking(op, e, errand[e], o))
           /\ Persisted(errand[e]) \/ errand[e].status = "DISPUTED"
<1>1. Settlers \subseteq Operators /\ Users \subseteq Operators /\ NoOne \notin Operators
  BY SettlersAssumption, OperatorAssumption, NoOneAssumption DEF Operators
<1>. QED BY <1>1 DEF ReadsRow, SettleRead, ArbitrateRead, CancelRead, FavourRead

\* What a payout leaves of the row, whoever settled.
LEMMA PaidAfter ==
    ASSUME NEW c \in Callers, call \in [Callers -> Calls], Paying(c), NEW r \in Errand
    PROVE  /\ Paid(c, r) \in Errand
           /\ Paid(c, r).status = "SETTLED" /\ Paid(c, r).publisher = r.publisher
<1>1. call[c].by \in Operators \cup {NoOne}
  BY CallTypes DEF Paying, Ops
<1>. QED BY <1>1, RowTypes, EndStatusAfter DEF Paid

-----------------------------------------------------------------------------
(* TypeOK *)

LEMMA TypeInit == Init => TypeOK
<1>. SUFFICES ASSUME Init PROVE TypeOK
  OBVIOUS
<1>1. errand \in [Errands -> Errand]
  BY DraftType DEF Init
<1>2. balance \in [Accounts -> Nat]
  BY OpeningAssumption DEF Init
<1>3. call \in [Callers -> Calls]
  BY DEF Init, Calls
<1>. QED BY <1>1, <1>2, <1>3 DEF Init, TypeOK

\* A step that writes one row writes a row.
LEMMA BecomeType ==
    ASSUME errand \in [Errands -> Errand], NEW e \in Errands, NEW r \in Errand, Become(e, r)
    PROVE  errand' \in [Errands -> Errand]
BY DEF Become

LEMMA RowMoveTypes ==
    ASSUME TypeOK, NEW e \in Errands, RowMove(e)
    PROVE  TypeOK'
<1>. errand[e] \in Errand
  BY DEF TypeOK
<1>1. ASSUME NEW r \in Errand, Move(e, r)
      PROVE  TypeOK'
  <2>1. errand' \in [Errands -> Errand]
    BY <1>1, BecomeType DEF TypeOK, Move
  <2>. QED BY <1>1, <2>1 DEF TypeOK, Move
<1>2. CASE Revert(e)
  BY <1>1, <1>2, RowTypes DEF Revert
<1>3. ASSUME NEW u \in Users, Publish(e, u)
      PROVE  TypeOK'
  <2>1. errand' \in [Errands -> Errand]
    BY <1>3, RunnerRowTypes, BecomeType DEF TypeOK, Publish
  <2>2. Reward[e] \in Nat /\ u \in Accounts /\ EscrowAcc \in Accounts
    BY RewardAssumption DEF Accounts
  <2>3. balance' \in [Accounts -> Nat]
    <3>1. Debited(balance, u, Reward[e]) \in [Accounts -> Nat]
      BY <2>2, BalanceTypes DEF TypeOK
    <3>. QED BY <1>3, <2>2, <3>1, BalanceTypes DEF Publish
  <2>4. ledger' \subseteq Postings
    BY <1>3, PostingTypes DEF TypeOK, Publish
  <2>5. escrow' \in [Errands -> {"NONE", "HELD", "RELEASED", "REFUNDED"}]
    BY <1>3 DEF TypeOK, Publish, MoveEscrow
  <2>. QED BY <1>3, <2>1, <2>3, <2>4, <2>5 DEF TypeOK, Publish
<1>4. ASSUME NEW u \in Users,
             \/ Lock(e, u) \/ Transfer(e, u) \/ Accept(e, u)
             \/ PickUp(e, u) \/ Deliver(e, u) \/ Dispute(e, u)
      PROVE  TypeOK'
  BY <1>1, <1>4, RowTypes, RunnerRowTypes DEF Lock, Transfer, Accept, PickUp, Deliver, Dispute
<1>. QED BY <1>2, <1>3, <1>4 DEF RowMove

LEMMA MoneyTypes ==
    ASSUME TypeOK, RowsPersist, RefundersDone, NEW c \in Callers, Money(c)
    PROVE  TypeOK'
<1>. /\ call \in [Callers -> Calls] /\ errand \in [Errands -> Errand]
     /\ balance \in [Accounts -> Nat] /\ ledger \subseteq Postings
     /\ escrow \in [Errands -> {"NONE", "HELD", "RELEASED", "REFUNDED"}]
  BY DEF TypeOK
<1>. DEFINE f == call[c].errand
<1>1. ASSUME Return(c), UNCHANGED <<errand, escrow, balance, ledger>>
      PROVE  TypeOK'
  BY <1>1, CallTypes DEF TypeOK
<1>2. ASSUME NEW e \in Errands, ReadsRow(c, e)
      PROVE  TypeOK'
  <2>1. errand[e] \in Errand
    OBVIOUS
  <2>2. PICK op \in {"settle", "arbitrate", "cancel", "favour"}, o \in Operators \cup {NoOne} :
           (op = "settle" => o # NoOne) /\ Begin(c, Asking(op, e, errand[e], o))
    BY <1>2, ReaderBegins
  <2>3. call' \in [Callers -> Calls]
    BY <2>1, <2>2, CallTypes DEF Begin, Ops
  <2>. QED
    BY <2>2, <2>3 DEF TypeOK, Begin
<1>3. CASE PayoutStranded(c)
  <2>1. f \in Errands
    BY <1>3, CallTypes DEF PayoutStranded, Paying, Ops
  <2>2. call' \in [Callers -> Calls]
    BY <1>3, CallTypes DEF PayoutStranded
  <2>. QED BY <1>3, <2>1, <2>2 DEF TypeOK, PayoutStranded, MoveEscrow
<1>4. CASE PayoutCommitted(c)
  <2> DEFINE u == call[c].seen
  <2>1. f \in Errands /\ u \in Users
    BY <1>4, CallTypes DEF PayoutCommitted, Paying, CanPost, Ops
  <2>2. call' \in [Callers -> Calls]
    BY <1>4, CallTypes DEF PayoutCommitted
  <2>3. errand' \in [Errands -> Errand]
    BY <1>4, <2>1, PaidAfter, BecomeType DEF PayoutCommitted
  <2>4. balance' \in [Accounts -> Nat]
    <3>1. /\ u \in Accounts /\ EscrowAcc \in Accounts /\ CommissionAcc \in Accounts
          /\ Reward[f] \in Nat /\ Fee(f) \in Nat /\ Share(f) \in Nat
      BY <2>1, RewardAssumption, FeeInReward DEF Accounts
    <3>2. Debited(balance, EscrowAcc, Reward[f]) \in [Accounts -> Nat]
      BY <3>1, BalanceTypes
    <3>3. Credited(Debited(balance, EscrowAcc, Reward[f]), u, Share(f)) \in [Accounts -> Nat]
      BY <3>1, <3>2, BalanceTypes
    <3>. QED BY <1>4, <3>1, <3>3, BalanceTypes DEF PayoutCommitted
  <2>5. ledger' \subseteq Postings
    BY <1>4, <2>1, PostingTypes DEF PayoutCommitted
  <2>6. escrow' \in [Errands -> {"NONE", "HELD", "RELEASED", "REFUNDED"}]
    BY <1>4, <2>1 DEF PayoutCommitted, MoveEscrow
  <2>. QED BY <2>2, <2>3, <2>4, <2>5, <2>6 DEF TypeOK
<1>5. CASE CancelCas(c) \/ FavourCas(c)
  <2>1. call[c].op \in Ops /\ f \in Errands
    BY <1>5, CallTypes DEF CancelCas, FavourCas, Ops
  <2>2. \E r \in Errand : Become(f, r)
    BY <1>5, <2>1, RowTypes DEF CancelCas, FavourCas
  <2>3. errand' \in [Errands -> Errand]
    BY <2>1, <2>2, BecomeType
  <2>4. call' \in [Callers -> Calls]
    BY <1>5, <2>1, CallTypes DEF CancelCas, FavourCas, Ops
  <2>. QED BY <1>5, <2>3, <2>4 DEF TypeOK, CancelCas, FavourCas
<1>6. CASE RefundRead(c)
  <2>1. call' \in [Callers -> Calls]
    BY <1>6, CallTypes DEF RefundRead, Ops
  <2>. QED BY <1>6, <2>1 DEF TypeOK, RefundRead
<1>7. CASE RefundCommitted(c)
  <2> DEFINE u == errand[f].publisher
  <2>1. f \in Errands
    BY <1>7, CallTypes DEF RefundCommitted, Ops
  <2>2. u \in Users
    <3>1. errand[f].status # "DRAFT"
      BY <1>7 DEF RefundersDone, RefundCommitted
    <3>. QED BY <2>1, <3>1, FieldValues DEF RowsPersist
  <2>3. call' \in [Callers -> Calls]
    BY <1>7, CallTypes DEF RefundCommitted
  <2>4. balance' \in [Accounts -> Nat]
    <3>1. u \in Accounts /\ EscrowAcc \in Accounts /\ Reward[f] \in Nat
      BY <2>1, <2>2, RewardAssumption DEF Accounts
    <3>2. Debited(balance, EscrowAcc, Reward[f]) \in [Accounts -> Nat]
      BY <3>1, BalanceTypes
    <3>. QED BY <1>7, <3>1, <3>2, BalanceTypes DEF RefundCommitted
  <2>5. ledger' \subseteq Postings
    BY <1>7, <2>1, <2>2, PostingTypes DEF RefundCommitted
  <2>6. escrow' \in [Errands -> {"NONE", "HELD", "RELEASED", "REFUNDED"}]
    BY <1>7, <2>1 DEF RefundCommitted, MoveEscrow
  <2>. QED BY <1>7, <2>3, <2>4, <2>5, <2>6 DEF TypeOK, RefundCommitted
<1>. QED
  BY <1>1, <1>2, <1>3, <1>4, <1>5, <1>6, <1>7
  DEF Money, ReadsRow, PayoutRefused, PayoutAborted, CancelMissed, FavourMissed, RefundRefused,
      Abandon

-----------------------------------------------------------------------------
(* The rest of MoneyInv, by the kind of step *)

Ended == {"SETTLED", "CANCELLED", "REFUNDED"}

\* What a transaction adds to the ledger is posted, and nothing else is.
LEMMA PostedAfter ==
    ASSUME NEW e, NEW f, NEW u, NEW biz
    PROVE  /\ ledger' = ledger \cup EscrowPostings(f, u) =>
                 (Posted(biz, e)' <=> Posted(biz, e) \/ (biz = "escrow" /\ e = f))
           /\ ledger' = ledger \cup SettlePostings(f, u) =>
                 (Posted(biz, e)' <=> Posted(biz, e) \/ (biz = "settle" /\ e = f))
           /\ ledger' = ledger \cup RefundPostings(f, u) =>
                 (Posted(biz, e)' <=> Posted(biz, e) \/ (biz = "refund" /\ e = f))
           /\ ledger' = ledger => (Posted(biz, e)' <=> Posted(biz, e))
<1>1. /\ \A p \in EscrowPostings(f, u) : p.biz = "escrow" /\ p.errand = f
      /\ \E p \in EscrowPostings(f, u) : p.biz = "escrow" /\ p.errand = f
  BY DEF EscrowPostings, Posting
<1>2. /\ \A p \in SettlePostings(f, u) : p.biz = "settle" /\ p.errand = f
      /\ \E p \in SettlePostings(f, u) : p.biz = "settle" /\ p.errand = f
  <2> DEFINE P1 == Posting("settle", f, EscrowAcc, "DEBIT", Reward[f])
             P2 == Posting("settle", f, u, "CREDIT", Share(f))
             P3 == Posting("settle", f, CommissionAcc, "CREDIT", Fee(f))
  <2>1. /\ P1.biz = "settle" /\ P1.errand = f /\ P2.biz = "settle" /\ P2.errand = f
        /\ P3.biz = "settle" /\ P3.errand = f
    BY DEF Posting
  <2>2. P1 \in SettlePostings(f, u) /\ SettlePostings(f, u) \subseteq {P1, P2, P3}
    <3>. HIDE DEF P1, P2, P3
    <3>. QED BY DEF SettlePostings, P1, P2, P3
  <2>. HIDE DEF P1, P2, P3
  <2>. QED BY <2>1, <2>2
<1>3. /\ \A p \in RefundPostings(f, u) : p.biz = "refund" /\ p.errand = f
      /\ \E p \in RefundPostings(f, u) : p.biz = "refund" /\ p.errand = f
  BY DEF RefundPostings, Posting
<1>. QED BY <1>1, <1>2, <1>3 DEF Posted

\* A row that has not ended moves, and nothing else does.
LEMMA LiveMove ==
    ASSUME MoneyInv, NEW e \in Errands, NEW r, Move(e, r),
           errand[e].status \notin Ended \cup {"DRAFT"},
           r.status \notin Ended \cup {"DRAFT"}, r.publisher = errand[e].publisher
    PROVE  RowsPersist' /\ CallersPublished' /\ RefundersDone' /\ OutcomeMatchesMoney'
<1>1. /\ errand' = [errand EXCEPT ![e] = r] /\ errand \in [Errands -> Errand]
      /\ UNCHANGED <<escrow, balance, ledger, call>>
  BY DEF MoneyInv, TypeOK, Move, Become
<1>2. RowsPersist'
  BY <1>1 DEF MoneyInv, RowsPersist, Ended
<1>3. RefundersDone'
  <2>. SUFFICES ASSUME NEW c \in Callers, call'[c].op \in {"refundRead", "refund"}
                PROVE  errand'[call'[c].errand].status \in {"CANCELLED", "REFUNDED"}
    BY DEF RefundersDone
  <2>1. /\ errand[call[c].errand].status \in {"CANCELLED", "REFUNDED"}
        /\ call[c].errand \in Errands
    BY <1>1, CallTypes DEF MoneyInv, TypeOK, RefundersDone, Ops
  <2>2. errand'[call[c].errand] = errand[call[c].errand]
    BY <1>1, <2>1 DEF Ended
  <2>. QED BY <1>1, <2>1, <2>2
<1>4. \A biz, f : Posted(biz, f)' <=> Posted(biz, f)
  BY <1>1 DEF Posted
<1>5. OutcomeMatchesMoney'
  BY <1>1, <1>4 DEF MoneyInv, OutcomeMatchesMoney, Ended
<1>6. CallersPublished'
  <2>1. \A g \in Errands : errand[g].status # "DRAFT" => errand'[g].status # "DRAFT"
    BY <1>1
  <2>. QED BY <1>1, <2>1, CallTypes DEF MoneyInv, TypeOK, CallersPublished
<1>. QED BY <1>2, <1>3, <1>5, <1>6

\* Nothing but what a caller remembers changes, and it does not start refunding.
LEMMA CallMove ==
    ASSUME MoneyInv, NEW c \in Callers, UNCHANGED <<errand, escrow, balance, ledger>>,
           NEW m, Remember(c, m),
           m.op \in Ops => errand[m.errand].status # "DRAFT",
           m.op \in {"refundRead", "refund"} =>
               errand[m.errand].status \in {"CANCELLED", "REFUNDED"}
    PROVE  RowsPersist' /\ CallersPublished' /\ RefundersDone' /\ OutcomeMatchesMoney'
<1>1. \A biz, f : Posted(biz, f)' <=> Posted(biz, f)
  BY DEF Posted
<1>2. RowsPersist' /\ OutcomeMatchesMoney'
  BY <1>1 DEF MoneyInv, RowsPersist, OutcomeMatchesMoney
<1>3. RefundersDone' /\ CallersPublished'
  BY DEF MoneyInv, TypeOK, RefundersDone, CallersPublished, Remember
<1>. QED BY <1>2, <1>3

LEMMA PublishKeeps ==
    ASSUME MoneyInv, NEW e \in Errands, NEW u \in Users, Publish(e, u)
    PROVE  RowsPersist' /\ CallersPublished' /\ RefundersDone' /\ OutcomeMatchesMoney'
<1> DEFINE r == [PublishSets(Draft) EXCEPT !.publisher = u]
<1>1. /\ errand' = [errand EXCEPT ![e] = r] /\ escrow' = [escrow EXCEPT ![e] = "HELD"]
      /\ errand \in [Errands -> Errand] /\ UNCHANGED call
      /\ escrow \in [Errands -> {"NONE", "HELD", "RELEASED", "REFUNDED"}]
  BY DEF MoneyInv, TypeOK, Publish, Become, MoveEscrow
<1>2. r.status = "PUBLISHED" /\ r.publisher = u /\ u # NoOne
  BY NoOneAssumption DEF PublishSets, Bump, Draft
<1>3. errand[e].status = "DRAFT" /\ escrow[e] = "NONE"
  BY DEF MoneyInv, RowsPersist, Publish, Persisted
<1>. HIDE DEF r
<1>4. RowsPersist'
  BY <1>1, <1>2 DEF MoneyInv, RowsPersist
<1>5. RefundersDone'
  <2>. SUFFICES ASSUME NEW c \in Callers, call[c].op \in {"refundRead", "refund"}
                PROVE  errand'[call[c].errand].status \in {"CANCELLED", "REFUNDED"}
    BY <1>1 DEF RefundersDone
  <2>1. /\ errand[call[c].errand].status \in {"CANCELLED", "REFUNDED"}
        /\ call[c].errand \in Errands
    BY CallTypes DEF MoneyInv, TypeOK, RefundersDone, Ops
  <2>. QED BY <1>1, <1>3, <2>1
<1>6. \A f : \A biz \in {"settle", "refund"} : Posted(biz, f)' <=> Posted(biz, f)
  BY PostedAfter DEF Publish
<1>7. OutcomeMatchesMoney'
  BY <1>1, <1>2, <1>3, <1>6 DEF MoneyInv, OutcomeMatchesMoney
<1>8. CallersPublished'
  <2>1. \A g \in Errands : errand[g].status # "DRAFT" => errand'[g].status # "DRAFT"
    BY <1>1, <1>3
  <2>. QED BY <1>1, <2>1, CallTypes DEF MoneyInv, TypeOK, CallersPublished
<1>. QED BY <1>4, <1>5, <1>7, <1>8

LEMMA PayoutKeeps ==
    ASSUME MoneyInv, NEW c \in Callers, PayoutStranded(c) \/ PayoutCommitted(c)
    PROVE  RowsPersist' /\ CallersPublished' /\ RefundersDone' /\ OutcomeMatchesMoney'
<1> DEFINE f == call[c].errand
<1>1. /\ f \in Errands /\ escrow[f] = "HELD" /\ escrow' = [escrow EXCEPT ![f] = "RELEASED"]
      /\ call' = [call EXCEPT ![c] = Idle] /\ call \in [Callers -> Calls]
      /\ errand \in [Errands -> Errand]
      /\ escrow \in [Errands -> {"NONE", "HELD", "RELEASED", "REFUNDED"}]
  BY CallTypes DEF MoneyInv, TypeOK, PayoutStranded, PayoutCommitted, Paying, Gate1,
                   MoveEscrow, Return, Remember, Ops
<1>2. ~Posted("refund", f) /\ errand[f].status # "DRAFT"
  BY <1>1 DEF MoneyInv, OutcomeMatchesMoney, RowsPersist
<1>3. \A d \in Callers :
         call'[d].op \in Ops
           => call'[d] = call[d] /\ call[d].errand \in Errands
  <2>. TAKE d \in Callers
  <2>. HAVE call'[d].op \in Ops
  <2>1. call'[d] = call[d]
    BY <1>1 DEF Idle, Ops
  <2>. QED BY <2>1, CallTypes, <1>1 DEF Ops
<1>4. CASE PayoutStranded(c)
  <2>1. UNCHANGED <<errand, ledger>>
    BY <1>4 DEF PayoutStranded
  <2>2. \A biz, g : Posted(biz, g)' <=> Posted(biz, g)
    BY <2>1 DEF Posted
  <2>3. RowsPersist' /\ OutcomeMatchesMoney'
    BY <1>1, <1>2, <2>1, <2>2 DEF MoneyInv, RowsPersist, OutcomeMatchesMoney
  <2>4. RefundersDone' /\ CallersPublished'
    BY <1>3, <2>1 DEF MoneyInv, RefundersDone, CallersPublished, Ops
  <2>. QED BY <2>3, <2>4
<1>5. CASE PayoutCommitted(c)
  <2>1. /\ errand' = [errand EXCEPT ![f] = Paid(c, errand[f])]
        /\ ledger' = ledger \cup SettlePostings(f, call[c].seen)
    BY <1>5 DEF PayoutCommitted, Become
  <2>2. errand[f].status \in {"DELIVERED", "DISPUTED"}
    BY <1>5 DEF PayoutCommitted, Gate2, SettleHits, SettleFromDisputeHits
  <2>3. /\ Paid(c, errand[f]).status = "SETTLED"
        /\ Paid(c, errand[f]).publisher = errand[f].publisher
    BY <1>1, <1>5, PaidAfter DEF MoneyInv, TypeOK, PayoutCommitted
  <2>4. \A g : /\ Posted("settle", g)' <=> (Posted("settle", g) \/ g = f)
               /\ Posted("refund", g)' <=> Posted("refund", g)
    BY <2>1, PostedAfter
  <2>5. RowsPersist'
    BY <1>1, <1>2, <2>1, <2>3 DEF MoneyInv, RowsPersist
  <2>6. OutcomeMatchesMoney'
    BY <1>1, <1>2, <2>1, <2>3, <2>4 DEF MoneyInv, OutcomeMatchesMoney
  <2>7. RefundersDone'
    <3>. SUFFICES ASSUME NEW d \in Callers, call'[d].op \in {"refundRead", "refund"}
                  PROVE  errand'[call'[d].errand].status \in {"CANCELLED", "REFUNDED"}
      BY DEF RefundersDone
    <3>1. call'[d] = call[d] /\ call[d].errand \in Errands
      BY <1>3 DEF Ops
    <3>2. errand[call[d].errand].status \in {"CANCELLED", "REFUNDED"}
      BY <3>1 DEF MoneyInv, RefundersDone
    <3>. QED BY <1>1, <2>1, <2>2, <3>1, <3>2
  <2>8. CallersPublished'
    <3>1. \A g \in Errands : errand[g].status # "DRAFT" => errand'[g].status # "DRAFT"
      BY <1>1, <2>1, <2>3
    <3>. QED BY <1>3, <3>1 DEF MoneyInv, CallersPublished
  <2>. QED BY <2>5, <2>6, <2>7, <2>8
<1>. QED BY <1>4, <1>5

LEMMA CasKeeps ==
    ASSUME MoneyInv, NEW c \in Callers, CancelCas(c) \/ FavourCas(c)
    PROVE  RowsPersist' /\ CallersPublished' /\ RefundersDone' /\ OutcomeMatchesMoney'
<1> DEFINE f == call[c].errand
<1>1. /\ f \in Errands /\ UNCHANGED <<escrow, ledger>>
      /\ call' = [call EXCEPT ![c].op = "refundRead"] /\ call \in [Callers -> Calls]
      /\ errand \in [Errands -> Errand] /\ call[c].op \in Ops
  BY CallTypes DEF MoneyInv, TypeOK, CancelCas, FavourCas, Then, Ops
<1>2. PICK r : /\ errand' = [errand EXCEPT ![f] = r]
               /\ r.status \in {"CANCELLED", "REFUNDED"}
               /\ r.publisher = errand[f].publisher
  BY <1>1, EndStatusAfter DEF CancelCas, FavourCas, Become
<1>3. errand[f].status \in {"PUBLISHED", "DISPUTED"}
  BY <1>1 DEF MoneyInv, CallersPublished, CancelCas, FavourCas, CancelHits,
              RefundFromDisputeHits
<1>4. \A biz, g : Posted(biz, g)' <=> Posted(biz, g)
  BY <1>1 DEF Posted
<1>5. RowsPersist' /\ OutcomeMatchesMoney'
  BY <1>1, <1>2, <1>3, <1>4 DEF MoneyInv, RowsPersist, OutcomeMatchesMoney
<1>6. \A d \in Callers :
         /\ call'[d].errand = call[d].errand /\ (d # c => call'[d] = call[d])
         /\ call'[d].op \in Ops => call[d].op \in Ops /\ call[d].errand \in Errands
  <2>. TAKE d \in Callers
  <2>1. CASE d = c
    BY <1>1, <2>1 DEF Calls, Idle, Ops
  <2>2. CASE d # c
    BY <1>1, <2>2, CallTypes
  <2>. QED BY <2>1, <2>2
<1>7. CallersPublished'
  <2>1. \A g \in Errands : errand[g].status # "DRAFT" => errand'[g].status # "DRAFT"
    BY <1>1, <1>2
  <2>. QED BY <1>6, <2>1 DEF MoneyInv, CallersPublished
<1>8. RefundersDone'
  <2>. SUFFICES ASSUME NEW d \in Callers, call'[d].op \in {"refundRead", "refund"}
                PROVE  errand'[call'[d].errand].status \in {"CANCELLED", "REFUNDED"}
    BY DEF RefundersDone
  <2>1. call'[d].errand = call[d].errand /\ call[d].errand \in Errands
    BY <1>6 DEF Ops
  <2>2. CASE call[d].errand = f
    BY <1>1, <1>2, <2>1, <2>2
  <2>3. CASE call[d].errand # f
    <3>1. errand[call[d].errand].status \in {"CANCELLED", "REFUNDED"}
      BY <1>6, <2>3 DEF MoneyInv, RefundersDone
    <3>. QED BY <1>1, <1>2, <2>1, <2>3, <3>1
  <2>. QED BY <2>2, <2>3
<1>. QED BY <1>5, <1>7, <1>8

LEMMA RefundKeeps ==
    ASSUME MoneyInv, NEW c \in Callers, RefundCommitted(c)
    PROVE  RowsPersist' /\ CallersPublished' /\ RefundersDone' /\ OutcomeMatchesMoney'
<1> DEFINE f == call[c].errand
<1>1. /\ f \in Errands /\ escrow[f] = "HELD" /\ escrow' = [escrow EXCEPT ![f] = "REFUNDED"]
      /\ call' = [call EXCEPT ![c] = Idle] /\ call \in [Callers -> Calls]
      /\ ledger' = ledger \cup RefundPostings(f, errand[f].publisher) /\ UNCHANGED errand
      /\ escrow \in [Errands -> {"NONE", "HELD", "RELEASED", "REFUNDED"}]
  BY CallTypes DEF MoneyInv, TypeOK, RefundCommitted, Gate1, MoveEscrow, Return,
                   Remember, Ops
<1>2. errand[f].status \in {"CANCELLED", "REFUNDED"}
  BY DEF MoneyInv, RefundersDone, RefundCommitted
<1>3. \A g : /\ Posted("refund", g)' <=> (Posted("refund", g) \/ g = f)
             /\ Posted("settle", g)' <=> Posted("settle", g)
  BY <1>1, PostedAfter
<1>4. RowsPersist'
  BY <1>1, <1>2 DEF MoneyInv, RowsPersist
<1>5. OutcomeMatchesMoney'
  BY <1>1, <1>2, <1>3 DEF MoneyInv, OutcomeMatchesMoney
<1>6. \A d \in Callers : call'[d].op \in Ops => call'[d] = call[d]
  BY <1>1 DEF Idle, Ops
<1>7. RefundersDone' /\ CallersPublished'
  BY <1>1, <1>6 DEF MoneyInv, RefundersDone, CallersPublished, Ops
<1>. QED BY <1>4, <1>5, <1>7

\* Steps that change a row and nothing of the money, by the row they start from.
LEMMA RowMoveKeeps ==
    ASSUME MoneyInv, NEW e \in Errands, RowMove(e)
    PROVE  RowsPersist' /\ CallersPublished' /\ RefundersDone' /\ OutcomeMatchesMoney'
<1>. errand[e] \in Errand
  BY DEF MoneyInv, TypeOK
<1>1. CASE Revert(e)
  <2>1. /\ Move(e, RevertSets(errand[e])) /\ errand[e].status = "LOCKED"
        /\ RevertSets(errand[e]).status = "PUBLISHED"
        /\ RevertSets(errand[e]).publisher = errand[e].publisher
    BY <1>1, RevertAfter DEF Revert, LeaveLockHits
  <2>. QED BY <2>1, LiveMove DEF Ended
<1>2. ASSUME NEW u \in Users, Publish(e, u)
      PROVE  RowsPersist' /\ CallersPublished' /\ RefundersDone' /\ OutcomeMatchesMoney'
  BY <1>2, PublishKeeps
<1>3. ASSUME NEW u \in Users,
             \/ Lock(e, u) \/ Transfer(e, u) \/ Accept(e, u)
             \/ PickUp(e, u) \/ Deliver(e, u) \/ Dispute(e, u)
      PROVE  RowsPersist' /\ CallersPublished' /\ RefundersDone' /\ OutcomeMatchesMoney'
  <2>1. errand[e].status \in {"PUBLISHED", "LOCKED", "ACCEPTED", "PICKED_UP", "DELIVERED"}
    BY <1>3 DEF Lock, Transfer, Accept, PickUp, Deliver, Dispute, LockHits, LeaveLockHits,
                AcceptHits, PickUpHits, DeliverHits, DisputeHits
  <2>2. PICK r : /\ Move(e, r) /\ r.publisher = errand[e].publisher
                 /\ r.status \in {"LOCKED", "ACCEPTED", "PICKED_UP", "DELIVERED", "DISPUTED"}
    BY <1>3, StatusAfter
    DEF Lock, Transfer, Accept, PickUp, Deliver, Dispute, LeaveLockHits
  <2>. QED BY <2>1, <2>2, LiveMove DEF Ended
<1>. QED BY <1>1, <1>2, <1>3 DEF RowMove

LEMMA MoneyKeeps ==
    ASSUME MoneyInv, NEW c \in Callers, Money(c)
    PROVE  RowsPersist' /\ CallersPublished' /\ RefundersDone' /\ OutcomeMatchesMoney'
<1>1. ASSUME Return(c), UNCHANGED <<errand, escrow, balance, ledger>>
      PROVE  RowsPersist' /\ CallersPublished' /\ RefundersDone' /\ OutcomeMatchesMoney'
  <2>1. Idle.op \notin Ops \cup {"refundRead", "refund"}
    BY DEF Idle, Ops
  <2>. QED BY <1>1, <2>1, CallMove DEF Return
<1>2. ASSUME NEW e \in Errands, ReadsRow(c, e)
      PROVE  RowsPersist' /\ CallersPublished' /\ RefundersDone' /\ OutcomeMatchesMoney'
  <2>1. errand[e].status # "DRAFT"
    BY <1>2, ReaderBegins DEF MoneyInv, RowsPersist, Persisted
  <2>2. PICK op \in {"settle", "arbitrate", "cancel", "favour"}, o \in Operators \cup {NoOne} :
           Begin(c, Asking(op, e, errand[e], o))
    BY <1>2, ReaderBegins
  <2>3. /\ Asking(op, e, errand[e], o).op = op /\ Asking(op, e, errand[e], o).errand = e
    BY DEF Asking
  <2>. QED BY <2>1, <2>2, <2>3, CallMove DEF Begin
<1>3. CASE RefundRead(c) /\ Then(c, "refund")
  <2> DEFINE m == [call[c] EXCEPT !.op = "refund"]
  <2>1. call[c].op = "refundRead" /\ UNCHANGED <<errand, escrow, balance, ledger>>
    BY <1>3 DEF RefundRead
  <2>2. Remember(c, m)
    BY <1>3 DEF Then, Remember
  <2>3. m.errand = call[c].errand
    BY <2>1 DEF MoneyInv, TypeOK, Calls, Idle
  <2>4. errand[m.errand].status \in {"CANCELLED", "REFUNDED"}
    BY <2>1, <2>3 DEF MoneyInv, RefundersDone
  <2>. HIDE DEF m
  <2>. QED BY <2>1, <2>2, <2>4, CallMove
<1>4. CASE RefundRead(c) /\ Return(c)
  BY <1>1, <1>4 DEF RefundRead
<1>. QED
  BY <1>1, <1>2, <1>3, <1>4, PayoutKeeps, CasKeeps, RefundKeeps
  DEF Money, ReadsRow, PayoutRefused, PayoutAborted, CancelMissed, FavourMissed, RefundRead,
      RefundRefused, Abandon

-----------------------------------------------------------------------------
(* Theorems *)

(* MoneyInv holds at the start and every step keeps it.                    *)
LEMMA MoneyInvInit == Init => MoneyInv
<1>. SUFFICES ASSUME Init PROVE MoneyInv
  OBVIOUS
<1>1. TypeOK
  BY TypeInit
<1>2. RowsPersist
  BY DEF Init, RowsPersist, Draft
<1>3. CallersPublished /\ RefundersDone
  BY DEF Init, CallersPublished, RefundersDone, Idle, Ops
<1>4. OutcomeMatchesMoney
  BY DEF Init, OutcomeMatchesMoney, Posted, Draft
<1>. QED BY <1>1, <1>2, <1>3, <1>4 DEF MoneyInv

LEMMA MoneyInvStep == MoneyInv /\ [Next]_vars => MoneyInv'
<1>. SUFFICES ASSUME MoneyInv, [Next]_vars PROVE MoneyInv'
  OBVIOUS
<1>1. ASSUME NEW e \in Errands, RowMove(e)
      PROVE  MoneyInv'
  BY <1>1, RowMoveTypes, RowMoveKeeps DEF MoneyInv
<1>2. ASSUME NEW c \in Callers, Money(c)
      PROVE  MoneyInv'
  BY <1>2, MoneyTypes, MoneyKeeps DEF MoneyInv
<1>3. CASE UNCHANGED vars
  <2>1. \A biz, f : Posted(biz, f)' <=> Posted(biz, f)
    BY <1>3 DEF vars, Posted
  <2>2. TypeOK'
    BY <1>3 DEF MoneyInv, vars, TypeOK
  <2>. QED BY <1>3, <2>1, <2>2 DEF MoneyInv, vars, RowsPersist, CallersPublished,
              RefundersDone, OutcomeMatchesMoney
<1>. QED BY <1>1, <1>2, <1>3 DEF Next

(* Whatever settle, cancel, refund and arbitration calls race, crash or    *)
(* come late, the tables keep their types and MoneyInv holds.              *)
THEOREM MoneySafe == Spec => []MoneyInv
BY MoneyInvInit, MoneyInvStep, PTL DEF Spec

(* The ranges of the tables: no balance goes below zero.                   *)
THEOREM TypesSafe == Spec => []TypeOK
<1>1. MoneyInv => TypeOK
  BY DEF MoneyInv
<1>. QED BY <1>1, MoneySafe, PTL

(* Money paid out, money returned and the end of the errand agree, for any *)
(* number of callers and errands.                                          *)
THEOREM OutcomeSafe == Spec => []OutcomeMatchesMoney
<1>1. MoneyInv => OutcomeMatchesMoney
  BY DEF MoneyInv
<1>. QED BY <1>1, MoneySafe, PTL

(* A step that leaves an errand in dispute posts nothing for it.           *)
LEMMA FreezeStep ==
    ASSUME MoneyInv, Next, NEW e \in Errands,
           errand[e].status = "DISPUTED", errand'[e].status = "DISPUTED"
    PROVE  PostingsOf(e)' = PostingsOf(e)
<1>1. ASSUME UNCHANGED ledger
      PROVE  PostingsOf(e)' = PostingsOf(e)
  BY <1>1 DEF PostingsOf
<1>2. ASSUME NEW f, f # e, NEW ps, \A p \in ps : p.errand = f, ledger' = ledger \cup ps
      PROVE  PostingsOf(e)' = PostingsOf(e)
  BY <1>2 DEF PostingsOf
<1>3. ASSUME NEW f \in Errands, RowMove(f)
      PROVE  PostingsOf(e)' = PostingsOf(e)
  <2>1. ASSUME NEW u \in Users, Publish(f, u)
        PROVE  PostingsOf(e)' = PostingsOf(e)
    <3>1. f # e
      BY <2>1 DEF MoneyInv, RowsPersist, Publish, Persisted
    <3>2. \A p \in EscrowPostings(f, u) : p.errand = f
      BY DEF EscrowPostings, Posting
    <3>. QED BY <1>2, <2>1, <3>1, <3>2 DEF Publish
  <2>. QED
    BY <1>1, <1>3, <2>1
    DEF RowMove, Revert, Lock, Transfer, Accept, PickUp, Deliver, Dispute, Move
<1>4. ASSUME NEW c \in Callers, Money(c)
      PROVE  PostingsOf(e)' = PostingsOf(e)
  <2> DEFINE f == call[c].errand
  <2>1. CASE PayoutCommitted(c)
    <3>1. f \in Errands /\ errand \in [Errands -> Errand]
      BY <2>1, CallTypes DEF MoneyInv, TypeOK, PayoutCommitted, Paying, Ops
    <3>2. errand'[f].status = "SETTLED"
      BY <2>1, <3>1, PaidAfter DEF PayoutCommitted, Become, MoneyInv, TypeOK
    <3>3. \A p \in SettlePostings(f, call[c].seen) : p.errand = f
      BY DEF SettlePostings, Posting
    <3>. QED BY <1>2, <2>1, <3>2, <3>3 DEF PayoutCommitted
  <2>2. CASE RefundCommitted(c)
    <3>1. errand[f].status \in {"CANCELLED", "REFUNDED"}
      BY <2>2 DEF MoneyInv, RefundersDone, RefundCommitted
    <3>2. \A p \in RefundPostings(f, errand[f].publisher) : p.errand = f
      BY DEF RefundPostings, Posting
    <3>. QED BY <1>2, <2>2, <3>1, <3>2 DEF RefundCommitted
  <2>. QED
    BY <1>1, <1>4, <2>1, <2>2
    DEF Money, PayoutRefused, PayoutStranded, PayoutAborted, CancelCas, CancelMissed,
        FavourCas, FavourMissed, RefundRead, RefundRefused, Abandon, SettleRead,
        ArbitrateRead, CancelRead, FavourRead, Begin
<1>. QED BY <1>3, <1>4 DEF Next

(* A late settle call or auto-settle message never moves the money of an   *)
(* errand that is in dispute, for any number of callers.                   *)
THEOREM DisputeSafe == Spec => DisputeFreezesMoney
<1> DEFINE Frozen ==
        \A e \in Errands :
            errand[e].status = "DISPUTED" /\ errand'[e].status = "DISPUTED"
                => PostingsOf(e)' = PostingsOf(e)
<1>1. MoneyInv /\ [Next]_vars => [Frozen]_vars
  BY FreezeStep
<1>2. Spec => [][Frozen]_vars
  <2>. HIDE DEF Frozen
  <2>. QED BY <1>1, MoneySafe, PTL DEF Spec
<1>. QED BY <1>2 DEF DisputeFreezesMoney

-----------------------------------------------------------------------------
(* The rows implement the aggregate *)

\* An errand nobody has published is the draft itself.
DraftsUntouched == \A e \in Errands : ~Persisted(errand[e]) => errand[e] = Draft

LEMMA PublishedAfter ==
    ASSUME NEW u \in Users
    PROVE  [PublishSets(Draft) EXCEPT !.publisher = u].status = "PUBLISHED"
BY DEF PublishSets, Bump, Draft

LEMMA OneRowMoves ==
    ASSUME MoneyInv, Next
    PROVE  \/ UNCHANGED errand
           \/ \E e \in Errands, r \in Errand : Become(e, r) /\ r.status # "DRAFT"
<1>. errand \in [Errands -> Errand] /\ call \in [Callers -> Calls]
  BY DEF MoneyInv, TypeOK
<1>1. ASSUME NEW e \in Errands, RowMove(e)
      PROVE  \E r \in Errand : Become(e, r) /\ r.status # "DRAFT"
  <2>1. CASE Revert(e)
    BY <2>1, RowTypes, RevertAfter DEF Revert, Move
  <2>2. ASSUME NEW u \in Users, Publish(e, u)
        PROVE  \E r \in Errand : Become(e, r) /\ r.status # "DRAFT"
    BY <2>2, RunnerRowTypes, PublishedAfter DEF Publish
  <2>3. ASSUME NEW u \in Users,
               \/ Lock(e, u) \/ Transfer(e, u) \/ Accept(e, u)
               \/ PickUp(e, u) \/ Deliver(e, u) \/ Dispute(e, u)
        PROVE  \E r \in Errand : Become(e, r) /\ r.status # "DRAFT"
    <3> DEFINE q == errand[e]
    <3>1. \/ Become(e, LockSets(q, u))
          \/ Become(e, TransferSets(q, u)) /\ q.status = "LOCKED"
          \/ Become(e, AcceptSets(q)) \/ Become(e, PickUpSets(q))
          \/ Become(e, DeliverSets(q)) \/ Become(e, DisputeSets(q))
      BY <2>3 DEF Lock, Transfer, Accept, PickUp, Deliver, Dispute, Move, LeaveLockHits
    <3>2. q \in Errand
      OBVIOUS
    <3>3. \A r \in {LockSets(q, u), AcceptSets(q), PickUpSets(q), DeliverSets(q),
                    DisputeSets(q)} :
             r \in Errand /\ r.status # "DRAFT"
      <4>1. /\ LockSets(q, u) \in Errand /\ AcceptSets(q) \in Errand /\ PickUpSets(q) \in Errand
            /\ DeliverSets(q) \in Errand /\ DisputeSets(q) \in Errand
        BY <3>2, RowTypes, RunnerRowTypes
      <4>2. /\ LockSets(q, u).status = "LOCKED" /\ AcceptSets(q).status = "ACCEPTED"
            /\ PickUpSets(q).status = "PICKED_UP" /\ DeliverSets(q).status = "DELIVERED"
            /\ DisputeSets(q).status = "DISPUTED"
        BY <3>2, StatusAfter
      <4>. HIDE DEF q
      <4>. QED BY <4>1, <4>2
    <3>4. q.status = "LOCKED"
            => TransferSets(q, u) \in Errand /\ TransferSets(q, u).status # "DRAFT"
      BY <3>2, RunnerRowTypes, StatusAfter
    <3>. HIDE DEF q
    <3>. QED BY <3>1, <3>3, <3>4
  <2>. QED BY <1>1, <2>1, <2>2, <2>3 DEF RowMove
<1>2. ASSUME NEW c \in Callers, Money(c), errand' # errand
      PROVE  \E e \in Errands, r \in Errand : Become(e, r) /\ r.status # "DRAFT"
  <2>1. CASE PayoutCommitted(c)
    <3>1. call[c].errand \in Errands
      BY <2>1, CallTypes DEF PayoutCommitted, Paying, Ops
    <3>. QED BY <2>1, <3>1, PaidAfter DEF PayoutCommitted
  <2>2. CASE CancelCas(c) \/ FavourCas(c)
    <3> DEFINE q == errand[call[c].errand]
    <3>1. call[c].errand \in Errands
      BY <2>2, CallTypes DEF CancelCas, FavourCas, Ops
    <3>2. q \in Errand
      BY <3>1
    <3>3. \A r \in {CancelSets(q), RefundFromDisputeSets(q)} :
             r \in Errand /\ r.status # "DRAFT"
      BY <3>2, RowTypes, EndStatusAfter
    <3>. QED BY <2>2, <3>1, <3>3 DEF CancelCas, FavourCas
  <2>. QED
    BY <1>2, <2>1, <2>2
    DEF Money, PayoutRefused, PayoutStranded, PayoutAborted, CancelMissed, FavourMissed,
        RefundRead, RefundRefused, RefundCommitted, Abandon, SettleRead, ArbitrateRead,
        CancelRead, FavourRead, Begin
<1>. QED BY <1>1, <1>2 DEF Next

LEMMA DraftsStep ==
    MoneyInv /\ MoneyInv' /\ DraftsUntouched /\ [Next]_vars => DraftsUntouched'
<1>1. ASSUME MoneyInv, MoneyInv', DraftsUntouched, Next, NEW f \in Errands,
             ~Persisted(errand'[f])
      PROVE  errand'[f] = Draft
  <2>1. errand'[f].status = "DRAFT"
    BY <1>1 DEF MoneyInv, RowsPersist, Persisted
  <2>2. errand'[f] = errand[f]
    BY <1>1, <2>1, OneRowMoves DEF Become, MoneyInv, TypeOK
  <2>. QED BY <1>1, <2>2 DEF DraftsUntouched
<1>. QED BY <1>1 DEF DraftsUntouched, vars

LEMMA DraftsSafe == Spec => []DraftsUntouched
<1>1. Init => DraftsUntouched
  BY DEF Init, DraftsUntouched
<1>. QED BY <1>1, DraftsStep, MoneySafe, PTL DEF Spec

LEMMA RowMoveIsMethod ==
    ASSUME MoneyInv, DraftsUntouched, NEW e \in Errands, RowMove(e)
    PROVE  Aggregate!Next
<1>1. errand[e] \in Errand
  BY DEF MoneyInv, TypeOK
<1>2. CASE Revert(e)
  <2>1. Aggregate!Revert(e)
    BY <1>1, <1>2
    DEF Revert, LeaveLockHits, Move, Become, RevertSets, Bump, Aggregate!Revert,
        Aggregate!MayLeaveLock, Aggregate!RevertToPublished, Aggregate!Becomes,
        Aggregate!TransitTo
  <2>. QED BY <2>1 DEF Aggregate!Next
<1>3. ASSUME NEW u \in Users, Publish(e, u)
      PROVE  Aggregate!Publish(e, u)
  <2>1. errand[e] = Draft
    BY <1>3 DEF Publish, DraftsUntouched
  <2>. QED
    BY <2>1, <1>3
    DEF Draft, Publish, Become, PublishSets, Bump, Aggregate!Publish, Aggregate!MayPublish,
      Aggregate!PublishBy, Aggregate!Becomes, Aggregate!TransitTo, MayPublish, Persisted,
      Aggregate!Persisted, CanTransit, Aggregate!CanTransit, Transitions,
      Aggregate!Transitions
<1>4. ASSUME NEW u \in Users, Lock(e, u)
      PROVE  Aggregate!Lock(e, u)
  BY <1>1, <1>4
  DEF Lock, LockHits, Move, Become, LockSets, Bump, Aggregate!Lock, Aggregate!MayLock,
      Aggregate!LockBy, Aggregate!Becomes, Aggregate!TransitTo
<1>5. ASSUME NEW u \in Users, Transfer(e, u)
      PROVE  Aggregate!Transfer(e, u)
  BY <1>1, <1>5, NextRunnerIsDomain
  DEF Transfer, LeaveLockHits, Move, Become, Aggregate!Transfer, Aggregate!MayLeaveLock,
      Aggregate!Becomes, Aggregate!TransferToNextRunner, Aggregate!TransitTo,
      TransferToNextRunner, TransitTo
<1>6. ASSUME NEW u \in Users, Accept(e, u)
      PROVE  Aggregate!Accept(e, u)
  BY <1>1, <1>6
  DEF Accept, Move, Become, AcceptSets, Bump, MayAccept, CanTransit, Transitions,
      Aggregate!Accept, Aggregate!MayAccept, Aggregate!CanTransit, Aggregate!Transitions,
      Aggregate!AcceptByRunner, Aggregate!Becomes, Aggregate!TransitTo
<1>7. ASSUME NEW u \in Users, PickUp(e, u)
      PROVE  Aggregate!PickUp(e, u)
  BY <1>1, <1>7
  DEF PickUp, Move, Become, PickUpSets, Bump, MayPickUp, CanTransit, Transitions,
      Aggregate!PickUp, Aggregate!MayPickUp, Aggregate!CanTransit, Aggregate!Transitions,
      Aggregate!PickUpBy, Aggregate!Becomes, Aggregate!TransitTo
<1>8. ASSUME NEW u \in Users, Deliver(e, u)
      PROVE  Aggregate!Deliver(e, u)
  BY <1>1, <1>8
  DEF Deliver, Move, Become, DeliverSets, Bump, MayDeliver, CanTransit, Transitions,
      Aggregate!Deliver, Aggregate!MayDeliver, Aggregate!CanTransit, Aggregate!Transitions,
      Aggregate!DeliverBy, Aggregate!Becomes, Aggregate!TransitTo
<1>9. ASSUME NEW u \in Users, Dispute(e, u)
      PROVE  Aggregate!Dispute(e, u)
  BY <1>1, <1>9
  DEF Dispute, Move, Become, DisputeSets, Bump, MayDispute, CanTransit, Transitions,
      Aggregate!Dispute, Aggregate!MayDispute, Aggregate!CanTransit, Aggregate!Transitions,
      Aggregate!RaiseDispute, Aggregate!Becomes, Aggregate!TransitTo
<1>. QED
  BY <1>2, <1>3, <1>4, <1>5, <1>6, <1>7, <1>8, <1>9 DEF RowMove, Aggregate!Next

LEMMA MoneyIsMethod ==
    ASSUME MoneyInv, NEW c \in Callers, Money(c), errand' # errand
    PROVE  Aggregate!Next \/ \E e \in Errands : SettledByStranger(e)
<1> DEFINE e == call[c].errand
<1>. errand \in [Errands -> Errand] /\ call \in [Callers -> Calls]
  BY DEF MoneyInv, TypeOK
<1>1. CASE PayoutCommitted(c)
  <2>1. e \in Errands
    BY <1>1, CallTypes DEF PayoutCommitted, Paying, Ops
  <2>2. CASE call[c].op = "settle"
    <3> DEFINE o == call[c].by
    <3>1. /\ o \in Operators /\ errand[e].status = "DELIVERED"
          /\ errand' = [errand EXCEPT ![e] = SettleSets(errand[e], o)]
      BY <1>1, <2>2, CallTypes DEF PayoutCommitted, Gate2, SettleHits, Become, Paid
    <3>2. CASE o \in {SystemOperator, errand[e].publisher}
      <4>1. Aggregate!Settle(e, o)
        BY <2>1, <3>1, <3>2
        DEF SettleSets, Bump, Aggregate!Settle, Aggregate!MaySettle, Aggregate!CanTransit,
            Aggregate!Transitions, Aggregate!SettleBy, Aggregate!TransitTo, Aggregate!Becomes
      <4>. QED BY <2>1, <3>1, <4>1 DEF Aggregate!Next, Operators, Aggregate!Operators
    <3>3. CASE o \notin {SystemOperator, errand[e].publisher}
      <4>1. o \in Users \ {errand[e].publisher}
        BY <3>1, <3>3 DEF Operators
      <4>2. SettledByStranger(e)
        BY <2>1, <3>1, <4>1
        DEF SettledByStranger, SettleSets, Bump, CanTransit, Transitions, SettleBy, TransitTo,
            Aggregate!Becomes
      <4>. QED BY <2>1, <4>2
    <3>. QED BY <3>2, <3>3
  <2>3. CASE call[c].op # "settle"
    <3>1. Aggregate!Award(e)
      BY <1>1, <2>1, <2>3
      DEF PayoutCommitted, Gate2, SettleFromDisputeHits, Become, Paid, SettleFromDisputeSets,
          Bump, Aggregate!Award, Aggregate!MayArbitrate, Aggregate!ArbitrateToRunner,
          Aggregate!TransitTo, Aggregate!Becomes
    <3>. QED BY <2>1, <3>1 DEF Aggregate!Next
  <2>. QED BY <2>2, <2>3
<1>2. CASE CancelCas(c)
  <2>1. e \in Errands
    BY <1>2, CallTypes DEF CancelCas, Ops
  <2>2. errand[e].publisher \in Users
    BY <1>2, <2>1, FieldValues DEF MoneyInv, RowsPersist, CallersPublished, CancelCas, Ops
  <2>3. Aggregate!Cancel(e, errand[e].publisher)
    BY <1>2, <2>1
    DEF CancelCas, CancelHits, Become, CancelSets, Bump, Aggregate!Cancel,
        Aggregate!MayCancel, Aggregate!CancelByPublisher, Aggregate!TransitTo,
        Aggregate!Becomes
  <2>. QED BY <2>1, <2>2, <2>3 DEF Aggregate!Next
<1>3. CASE FavourCas(c)
  <2>1. e \in Errands
    BY <1>3, CallTypes DEF FavourCas, Ops
  <2>2. Aggregate!Refund(e)
    BY <1>3, <2>1
    DEF FavourCas, RefundFromDisputeHits, Become, RefundFromDisputeSets, Bump,
        Aggregate!Refund, Aggregate!MayArbitrate, Aggregate!ArbitrateToPublisher,
        Aggregate!TransitTo, Aggregate!Becomes
  <2>. QED BY <2>1, <2>2 DEF Aggregate!Next
<1>. QED
  BY <1>1, <1>2, <1>3
  DEF Money, PayoutRefused, PayoutStranded, PayoutAborted, CancelMissed, FavourMissed,
      RefundRead, RefundRefused, RefundCommitted, Abandon, SettleRead, ArbitrateRead,
      CancelRead, FavourRead, Begin

\* The SQL conditions, with every interleaving the transactions allow, move a row by
\* whole methods of the domain aggregate only, but for the settler whom nobody compares
\* with the publisher, for any number of callers and errands.
THEOREM MethodsButSettler == Spec => MovesByMethodsButSettler
<1> DEFINE Step == Aggregate!Next \/ \E e \in Errands : SettledByStranger(e)
<1>1. Init => Aggregate!Init
  BY DEF Init, Aggregate!Init, Draft, Aggregate!Draft
<1>2. MoneyInv /\ DraftsUntouched /\ [Next]_vars => [Step]_errand
  <2>. SUFFICES ASSUME MoneyInv, DraftsUntouched, Next, errand' # errand
                PROVE  Step
    BY DEF vars
  <2>. QED BY RowMoveIsMethod, MoneyIsMethod DEF Next
<1>. QED
  BY <1>1, <1>2, MoneySafe, DraftsSafe, PTL DEF Spec, MovesByMethodsButSettler

-----------------------------------------------------------------------------
(* The money implements the contract *)

\* The freeze is posted with the row: exactly the errands that were published have it.
FreezesPosted == \A e \in Errands : Posted("escrow", e) <=> errand[e].status # "DRAFT"

LEMMA FreezesStep ==
    MoneyInv /\ MoneyInv' /\ FreezesPosted /\ [Next]_vars => FreezesPosted'
<1>. SUFFICES ASSUME MoneyInv, MoneyInv', FreezesPosted, [Next]_vars,
                     NEW f \in Errands
              PROVE  Posted("escrow", f)' <=> errand'[f].status # "DRAFT"
  BY DEF FreezesPosted
<1>. errand \in [Errands -> Errand]
  BY DEF MoneyInv, TypeOK
<1>1. CASE UNCHANGED vars
  BY <1>1 DEF vars, Posted, FreezesPosted
<1>2. ASSUME NEW e \in Errands, NEW u \in Users, Publish(e, u)
      PROVE  Posted("escrow", f)' <=> errand'[f].status # "DRAFT"
  <2>1. Posted("escrow", f)' <=> Posted("escrow", f) \/ e = f
    BY <1>2, PostedAfter DEF Publish
  <2>2. errand'[f].status # "DRAFT" <=> errand[f].status # "DRAFT" \/ e = f
    BY <1>2, PublishedAfter DEF Publish, Become
  <2>. QED BY <2>1, <2>2 DEF FreezesPosted
<1>3. ASSUME Next, \A e \in Errands, u \in Users : ~Publish(e, u)
      PROVE  Posted("escrow", f)' <=> errand'[f].status # "DRAFT"
  <2>1. Posted("escrow", f)' <=> Posted("escrow", f)
    <3>1. ASSUME NEW c \in Callers, Money(c)
          PROVE  Posted("escrow", f)' <=> Posted("escrow", f)
      BY <3>1, PostedAfter
      DEF Money, PayoutRefused, PayoutStranded, PayoutAborted, PayoutCommitted, CancelCas,
          CancelMissed, FavourCas, FavourMissed, RefundRead, RefundRefused, RefundCommitted,
          Abandon, SettleRead, ArbitrateRead, CancelRead, FavourRead, Begin
    <3>2. ASSUME NEW e \in Errands, RowMove(e)
          PROVE  Posted("escrow", f)' <=> Posted("escrow", f)
      <4>1. ledger' = ledger
        BY <1>3, <3>2
        DEF RowMove, Revert, Lock, Transfer, Accept, PickUp, Deliver, Dispute, Move
      <4>. QED BY <4>1 DEF Posted
    <3>. QED BY <1>3, <3>1, <3>2 DEF Next
  <2>2. errand[f].status # "DRAFT" => errand'[f].status # "DRAFT"
    BY <1>3, OneRowMoves DEF Become
  <2>3. errand[f].status = "DRAFT" => errand'[f].status = "DRAFT"
    <3>1. \A e \in Errands : RowMove(e) /\ errand[f].status = "DRAFT" => errand'[f] = errand[f]
      BY <1>3
      DEF RowMove, Revert, Lock, Transfer, Accept, PickUp, Deliver, Dispute, Move, Become,
          LockHits, LeaveLockHits, AcceptHits, PickUpHits, DeliverHits, DisputeHits
    <3>2. \A c \in Callers : Money(c) /\ errand[f].status = "DRAFT" => errand'[f] = errand[f]
      <4>. SUFFICES ASSUME NEW c \in Callers, Money(c), errand[f].status = "DRAFT"
                    PROVE  errand'[f] = errand[f]
        OBVIOUS
      <4>1. CASE PayoutCommitted(c)
        BY <4>1 DEF PayoutCommitted, Become, Gate2, SettleHits, SettleFromDisputeHits
      <4>2. CASE CancelCas(c)
        <5>1. call[c].errand # f
          BY <4>2 DEF MoneyInv, CallersPublished, CancelCas, Ops
        <5>. QED BY <4>2, <5>1 DEF CancelCas, Become
      <4>3. CASE FavourCas(c)
        BY <4>3 DEF FavourCas, Become, RefundFromDisputeHits
      <4>. QED
        BY <4>1, <4>2, <4>3
        DEF Money, PayoutRefused, PayoutStranded, PayoutAborted, CancelMissed, FavourMissed,
            RefundRead, RefundRefused, RefundCommitted, Abandon, SettleRead, ArbitrateRead,
            CancelRead, FavourRead, Begin
    <3>. QED BY <1>3, <3>1, <3>2 DEF Next
  <2>. QED BY <2>1, <2>2, <2>3 DEF FreezesPosted
<1>. QED BY <1>1, <1>2, <1>3

LEMMA FreezesSafe == Spec => []FreezesPosted
<1>1. Init => FreezesPosted
  BY DEF Init, FreezesPosted, Posted, Draft
<1>. QED BY <1>1, FreezesStep, MoneySafe, PTL DEF Spec

\* What the contract sees of the state.
StageSeen == [e \in Errands |-> Stage(e)]
PayerSeen == [e \in Errands |-> errand[e].publisher]
PurseSeen == [a \in Users \cup {CommissionAcc} |-> balance[a]]

\* While the escrow row is HELD the reward is in: frozen, and neither paid nor returned.
LEMMA HeldStage ==
    ASSUME MoneyInv, FreezesPosted, NEW e \in Errands, escrow[e] = "HELD"
    PROVE  Stage(e) = "held"
BY DEF MoneyInv, OutcomeMatchesMoney, RowsPersist, FreezesPosted, Stage

\* What one debit or one credit does to every account.
LEMMA CreditAfter ==
    \A b \in [Accounts -> Nat], x \in Accounts, y \in Accounts, m \in Nat :
        Credited(b, x, m)[y] = (IF y = x THEN b[x] + m ELSE b[y])
BY DEF Credited

LEMMA DebitAfter ==
    \A b \in [Accounts -> Nat], x \in Accounts, y \in Accounts, m \in Nat :
        /\ y # x => Debited(b, x, m)[y] = b[y]
        /\ y = x /\ CanDebit(b, x, m) => Debited(b, x, m)[y] = b[x] - m
BY DEF Debited, CanDebit

\* What the three transactions that move money do to the accounts the contract sees.
LEMMA HoldPurse ==
    \A b \in [Accounts -> Nat], u \in Users, m \in Nat, a \in Users \cup {CommissionAcc} :
        CanDebit(b, u, m) =>
            Credited(Debited(b, u, m), EscrowAcc, m)[a] = (IF a = u THEN b[u] - m ELSE b[a])
<1>. SUFFICES ASSUME NEW b \in [Accounts -> Nat], NEW u \in Users, NEW m \in Nat,
                     NEW a \in Users \cup {CommissionAcc}, CanDebit(b, u, m)
              PROVE  Credited(Debited(b, u, m), EscrowAcc, m)[a]
                       = (IF a = u THEN b[u] - m ELSE b[a])
  OBVIOUS
<1>1. /\ a # EscrowAcc /\ a \in Accounts /\ u \in Accounts /\ EscrowAcc \in Accounts
      /\ Debited(b, u, m) \in [Accounts -> Nat]
  BY AccountsAssumption, BalanceTypes DEF Accounts
<1>2. Debited(b, u, m)[a] = (IF a = u THEN b[u] - m ELSE b[a])
  BY <1>1, DebitAfter
<1>. QED BY <1>1, <1>2, CreditAfter

LEMMA ReturnPurse ==
    ASSUME NEW b \in [Accounts -> Nat], NEW e \in Errands, NEW u \in Users, NEW n \in Nat,
           NEW a \in Users \cup {CommissionAcc}
    PROVE  Credited(Debited(b, EscrowAcc, Reward[e]), u, n)[a]
             = (IF a = u THEN b[u] + n ELSE b[a])
<1> DEFINE m == Reward[e]
<1>. m \in Nat
  BY RewardAssumption
<1>. HIDE DEF m
<1>1. /\ a # EscrowAcc /\ u # EscrowAcc /\ a \in Accounts /\ u \in Accounts
      /\ EscrowAcc \in Accounts /\ Debited(b, EscrowAcc, m) \in [Accounts -> Nat]
  BY AccountsAssumption, BalanceTypes DEF Accounts
<1>2. Debited(b, EscrowAcc, m)[a] = b[a] /\ Debited(b, EscrowAcc, m)[u] = b[u]
  BY <1>1, DebitAfter
<1>. QED BY <1>1, <1>2, CreditAfter DEF m

LEMMA PayPurse ==
    ASSUME balance \in [Accounts -> Nat], NEW e \in Errands, NEW u \in Users,
           NEW a \in Users \cup {CommissionAcc}
    PROVE  Credited(Credited(Debited(balance, EscrowAcc, Reward[e]), u, Share(e)),
                    CommissionAcc, Fee(e))[a]
             = (IF a = u THEN balance[u] + Share(e)
                ELSE IF a = CommissionAcc THEN balance[a] + Fee(e) ELSE balance[a])
<1> DEFINE d == Credited(Debited(balance, EscrowAcc, Reward[e]), u, Share(e))
<1>1. /\ u # CommissionAcc /\ a \in Accounts /\ CommissionAcc \in Accounts
      /\ EscrowAcc \in Accounts /\ u \in Accounts
      /\ Reward[e] \in Nat /\ Share(e) \in Nat /\ Fee(e) \in Nat
  BY AccountsAssumption, RewardAssumption, FeeInReward DEF Accounts
<1>2. d \in [Accounts -> Nat]
  BY <1>1, BalanceTypes
<1>3. /\ d[a] = (IF a = u THEN balance[u] + Share(e) ELSE balance[a])
      /\ d[CommissionAcc] = balance[CommissionAcc]
  <2>1. \A y \in Users \cup {CommissionAcc} :
           d[y] = (IF y = u THEN balance[u] + Share(e) ELSE balance[y])
    BY <1>1, ReturnPurse
  <2>. HIDE DEF d
  <2>. QED BY <1>1, <2>1
<1>4. Credited(d, CommissionAcc, Fee(e))[a]
        = (IF a = CommissionAcc THEN d[CommissionAcc] + Fee(e) ELSE d[a])
  <2>. HIDE DEF d
  <2>1. \A x \in Accounts, y \in Accounts, m \in Nat :
           Credited(d, x, m)[y] = (IF y = x THEN d[x] + m ELSE d[y])
    BY <1>2, CreditAfter
  <2>. QED BY <1>1, <2>1
<1>. HIDE DEF d
<1>. QED BY <1>1, <1>3, <1>4 DEF d

LEMMA PublishHolds ==
    ASSUME MoneyInv, FreezesPosted, NEW e \in Errands, NEW u \in Users, Publish(e, u)
    PROVE  Contract!Hold(e, u)
<1>. balance \in [Accounts -> Nat] /\ errand \in [Errands -> Errand] /\ Reward[e] \in Nat
  BY RewardAssumption DEF MoneyInv, TypeOK
<1>. u \in Accounts
  BY DEF Accounts
<1>1. Stage(e) = "none"
  BY DEF MoneyInv, OutcomeMatchesMoney, RowsPersist, FreezesPosted, Stage, Publish, Persisted
<1>2. StageSeen' = [StageSeen EXCEPT ![e] = "held"]
  <2>1. \A f \in Errands : Stage(f)' = (IF f = e THEN "held" ELSE Stage(f))
    <3>1. \A f \in Errands : \A biz \in {"settle", "refund", "escrow"} :
             Posted(biz, f)' <=> Posted(biz, f) \/ (biz = "escrow" /\ f = e)
      BY PostedAfter DEF Publish
    <3>. QED BY <3>1, <1>1 DEF Stage
  <2>. QED BY <2>1 DEF StageSeen
<1>3. PayerSeen' = [PayerSeen EXCEPT ![e] = u]
  <2>1. errand' = [errand EXCEPT ![e] = [PublishSets(Draft) EXCEPT !.publisher = u]]
    BY DEF Publish, Become
  <2>2. [PublishSets(Draft) EXCEPT !.publisher = u].publisher = u
    BY FirstRow
  <2>. QED BY <2>1, <2>2 DEF PayerSeen
<1>4. CanDebit(balance, u, Reward[e]) /\ balance[u] >= Reward[e]
  BY DEF Publish, CanDebit
<1>5. PurseSeen' = [PurseSeen EXCEPT ![u] = @ - Reward[e]]
  <2>1. \A a \in Users \cup {CommissionAcc} :
           balance'[a] = (IF a = u THEN balance[u] - Reward[e] ELSE balance[a])
    BY <1>4, HoldPurse DEF Publish
  <2>. QED BY <2>1 DEF PurseSeen
<1>. QED
  BY <1>1, <1>2, <1>3, <1>4, <1>5 DEF Contract!Hold, StageSeen, PayerSeen, PurseSeen

LEMMA PayoutPays ==
    ASSUME MoneyInv, FreezesPosted, NEW c \in Callers, PayoutCommitted(c)
    PROVE  \E e \in Errands, u \in Users : Contract!Pay(e, u)
<1>1. call[c].errand \in Errands /\ call[c].seen \in Users
  BY CallTypes DEF MoneyInv, TypeOK, PayoutCommitted, Paying, CanPost, Ops
<1>. PICK e \in Errands, u \in Users : e = call[c].errand /\ u = call[c].seen
  BY <1>1
<1>. u \in Accounts
  BY DEF Accounts
<1>2. /\ balance \in [Accounts -> Nat] /\ errand \in [Errands -> Errand]
      /\ Reward[e] \in Nat /\ Fee(e) \in Nat /\ Share(e) \in Nat
  BY <1>1, RewardAssumption, FeeInReward DEF MoneyInv, TypeOK
<1>3. Stage(e) = "held"
  BY <1>1, HeldStage DEF PayoutCommitted, Gate1
<1>4. /\ errand' = [errand EXCEPT ![e] = Paid(c, errand[e])]
      /\ ledger' = ledger \cup SettlePostings(e, u)
      /\ balance' = Credited(Credited(Debited(balance, EscrowAcc, Reward[e]), u, Share(e)),
                             CommissionAcc, Fee(e))
  BY DEF PayoutCommitted, Become
<1>5. StageSeen' = [StageSeen EXCEPT ![e] = "paid"]
  <2>1. \A f \in Errands : Stage(f)' = (IF f = e THEN "paid" ELSE Stage(f))
    <3>1. \A f \in Errands : \A biz \in {"settle", "refund", "escrow"} :
             Posted(biz, f)' <=> Posted(biz, f) \/ (biz = "settle" /\ f = e)
      BY <1>4, PostedAfter
    <3>. QED BY <3>1 DEF Stage
  <2>. QED BY <2>1, <1>1 DEF StageSeen
<1>6. PayerSeen' = PayerSeen
  BY <1>1, <1>2, <1>4, PaidAfter DEF PayerSeen, MoneyInv, TypeOK, PayoutCommitted
<1>7. PurseSeen' = [PurseSeen EXCEPT ![u] = @ + Share(e), ![CommissionAcc] = @ + Fee(e)]
  <2>1. \A a \in Users \cup {CommissionAcc} :
           balance'[a] = (IF a = u THEN balance[u] + Share(e)
                          ELSE IF a = CommissionAcc THEN balance[a] + Fee(e) ELSE balance[a])
    BY <1>2, <1>4, PayPurse
  <2>2. u # CommissionAcc
    BY <1>1, AccountsAssumption
  <2>. QED BY <2>1, <2>2, <1>1 DEF PurseSeen
<1>8. Contract!Pay(e, u)
  <2>1. Share(e) = Reward[e] - [f \in Errands |-> Fee(f)][e] /\ StageSeen[e] = "held"
        /\ Fee(e) = [f \in Errands |-> Fee(f)][e]
    BY <1>1, <1>3 DEF Share, StageSeen
  <2>. QED
    BY <2>1, <1>5, <1>6, <1>7 DEF Contract!Pay, StageSeen, PayerSeen, PurseSeen
<1>. QED BY <1>1, <1>8

LEMMA RefundReturns ==
    ASSUME MoneyInv, FreezesPosted, NEW c \in Callers, RefundCommitted(c)
    PROVE  \E e \in Errands : Contract!Return(e)
<1>1. call[c].errand \in Errands
  BY CallTypes DEF MoneyInv, TypeOK, RefundCommitted, Ops
<1>. PICK e \in Errands : e = call[c].errand
  BY <1>1
<1>2. /\ balance \in [Accounts -> Nat] /\ errand \in [Errands -> Errand] /\ Reward[e] \in Nat
  BY <1>1, RewardAssumption DEF MoneyInv, TypeOK
<1>3. Stage(e) = "held"
  BY <1>1, HeldStage DEF RefundCommitted, Gate1
<1>4. errand[e].publisher \in Users
  <2>1. errand[e].status # "DRAFT"
    BY DEF MoneyInv, RefundersDone, RefundCommitted
  <2>. QED BY <1>2, <2>1, FieldValues DEF MoneyInv, RowsPersist
<1>. PICK u \in Users : u = errand[e].publisher
  BY <1>4
<1>. u \in Accounts
  BY DEF Accounts
<1>5. /\ errand' = errand
      /\ ledger' = ledger \cup RefundPostings(e, u)
      /\ balance' = Credited(Debited(balance, EscrowAcc, Reward[e]), u, Reward[e])
  BY DEF RefundCommitted
<1>6. PayerSeen[e] = u
  BY DEF PayerSeen
<1>7. StageSeen' = [StageSeen EXCEPT ![e] = "returned"]
  <2>1. \A f \in Errands : \A biz \in {"settle", "refund", "escrow"} :
           Posted(biz, f)' <=> Posted(biz, f) \/ (biz = "refund" /\ f = e)
    BY <1>5, PostedAfter
  <2>2. \A f \in Errands : Stage(f)' = (IF f = e THEN "returned" ELSE Stage(f))
    <3>1. ~Posted("settle", e)
      BY <1>3 DEF Stage
    <3>. QED BY <2>1, <3>1 DEF Stage
  <2>. QED BY <2>2, <1>1 DEF StageSeen
<1>8. PayerSeen' = PayerSeen
  BY <1>5 DEF PayerSeen
<1>9. PurseSeen' = [PurseSeen EXCEPT ![PayerSeen[e]] = @ + Reward[e]]
  <2>1. \A a \in Users \cup {CommissionAcc} :
           balance'[a] = (IF a = u THEN balance[u] + Reward[e] ELSE balance[a])
    BY <1>2, <1>5, ReturnPurse
  <2>. QED BY <2>1, <1>4, <1>6 DEF PurseSeen
<1>10. Contract!Return(e)
  <2>1. StageSeen[e] = "held"
    BY <1>1, <1>3 DEF StageSeen
  <2>. QED
    BY <2>1, <1>7, <1>8, <1>9
    DEF Contract!Return, StageSeen, PayerSeen, PurseSeen
<1>. QED BY <1>1, <1>10

\* No other step touches a posting or a balance, and none changes who published.
LEMMA OthersStutter ==
    ASSUME MoneyInv, Next, \A e \in Errands, u \in Users : ~Publish(e, u),
           \A c \in Callers : ~PayoutCommitted(c) /\ ~RefundCommitted(c)
    PROVE  /\ StageSeen' = StageSeen /\ PayerSeen' = PayerSeen /\ PurseSeen' = PurseSeen
           /\ ledger' = ledger /\ balance' = balance
<1>. errand \in [Errands -> Errand] /\ call \in [Callers -> Calls]
  BY DEF MoneyInv, TypeOK
<1> DEFINE Keeps == ledger' = ledger /\ balance' = balance
                    /\ \A f \in Errands : errand'[f].publisher = errand[f].publisher
<1>1. ASSUME NEW e \in Errands, RowMove(e)
      PROVE  Keeps
  <2>1. CASE Revert(e)
    BY <2>1, RevertAfter DEF Revert, Move, Become
  <2>2. ASSUME NEW u \in Users,
               \/ Lock(e, u) \/ Transfer(e, u) \/ Accept(e, u)
               \/ PickUp(e, u) \/ Deliver(e, u) \/ Dispute(e, u)
        PROVE  Keeps
    <3> DEFINE q == errand[e]
    <3>1. \E r \in {LockSets(q, u), TransferSets(q, u), AcceptSets(q), PickUpSets(q),
                    DeliverSets(q), DisputeSets(q)} : Move(e, r)
      BY <2>2 DEF Lock, Transfer, Accept, PickUp, Deliver, Dispute
    <3>2. q \in Errand
      OBVIOUS
    <3>3. \A r \in {LockSets(q, u), TransferSets(q, u), AcceptSets(q), PickUpSets(q),
                    DeliverSets(q), DisputeSets(q)} : r.publisher = q.publisher
      BY <3>2, StatusAfter
    <3>4. \A r : Move(e, r) => /\ errand' = [errand EXCEPT ![e] = r]
                               /\ ledger' = ledger /\ balance' = balance
      BY DEF Move, Become
    <3>5. PICK r : Move(e, r) /\ r.publisher = q.publisher
      BY <3>1, <3>3
    <3>. QED BY <3>4, <3>5
  <2>. QED BY <1>1, <2>1, <2>2 DEF RowMove
<1>2. ASSUME NEW c \in Callers, Money(c)
      PROVE  Keeps
  <2>1. CASE CancelCas(c) \/ FavourCas(c)
    <3>1. call[c].errand \in Errands
      BY <2>1, CallTypes DEF CancelCas, FavourCas, Ops
    <3>. QED BY <2>1, <3>1, EndStatusAfter DEF CancelCas, FavourCas, Become
  <2>. QED
    BY <1>2, <2>1
    DEF Money, PayoutRefused, PayoutStranded, PayoutAborted, CancelMissed, FavourMissed,
        RefundRead, RefundRefused, Abandon, SettleRead, ArbitrateRead, CancelRead,
        FavourRead, Begin
<1>3. Keeps
  BY <1>1, <1>2 DEF Next
<1>4. StageSeen' = StageSeen
  BY <1>3 DEF StageSeen, Stage, Posted
<1>. QED BY <1>3, <1>4 DEF PayerSeen, PurseSeen

(* Whatever settles, cancels and arbitrations race, the reward of an       *)
(* errand leaves its publisher's purse once and comes out once, whole to   *)
(* the publisher or split between one runner and the platform: ErrandFunds *)
(* implements EscrowContract, for every number of errands and callers.     *)
THEOREM ContractImplemented == Spec => ImplementsContract
<1>1. Init => Contract!Init
  <2>. SUFFICES ASSUME Init PROVE Contract!Init
    OBVIOUS
  <2>1. \A e \in Errands : Stage(e) = "none" /\ errand[e].publisher = NoOne
    BY DEF Init, Stage, Posted, Draft
  <2>2. \A a \in Users \cup {CommissionAcc} :
           balance[a] = (IF a \in Users THEN Opening[a] ELSE 0)
    BY DEF Init, Accounts
  <2>. QED BY <2>1, <2>2 DEF Contract!Init
<1>2. MoneyInv /\ FreezesPosted /\ [Next]_vars
        => [Contract!Next]_<<[e \in Errands |-> Stage(e)],
                             [e \in Errands |-> errand[e].publisher],
                             [a \in Users \cup {CommissionAcc} |-> balance[a]]>>
  <2>. SUFFICES ASSUME MoneyInv, FreezesPosted, [Next]_vars,
                       ~(/\ StageSeen' = StageSeen /\ PayerSeen' = PayerSeen
                         /\ PurseSeen' = PurseSeen)
                PROVE  Contract!Next
    BY DEF StageSeen, PayerSeen, PurseSeen
  <2>1. CASE UNCHANGED vars
    BY <2>1 DEF vars, StageSeen, PayerSeen, PurseSeen, Stage, Posted
  <2>2. CASE Next
    BY <2>2, PublishHolds, PayoutPays, RefundReturns, OthersStutter DEF Contract!Next
  <2>. QED BY <2>1, <2>2
<1>. QED
  BY <1>1, <1>2, MoneySafe, FreezesSafe, PTL
  DEF Spec, ImplementsContract, Contract!Spec

-----------------------------------------------------------------------------
(* The books.  Each transaction that moves money adds two or three postings; *)
(* what they add to the sums of an account and of a business number is what  *)
(* it does to the balances.                                                  *)

Of(ps, a, dir) == {p \in ps : p.account = a /\ p.dir = dir}
Under(ps, biz, e, dir) == {p \in ps : p.biz = biz /\ p.errand = e /\ p.dir = dir}

OnAccount(p, a, dir) == IF p.account = a /\ p.dir = dir THEN p.amount ELSE 0
OnBusiness(p, biz, e, dir) == IF p.biz = biz /\ p.errand = e /\ p.dir = dir THEN p.amount ELSE 0

Sound(ps) == IsFiniteSet(ps) /\ ps \subseteq Postings

LEMMA TotalNatural ==
    ASSUME NEW ps, Sound(ps)
    PROVE  Total(ps) \in Nat
<1>. DEFINE v == [q \in ps |-> q.amount]
<1>1. \A q \in ps : v[q] \in Nat
  BY DEF Sound, Postings
<1>2. Total(ps) = SumFunctionOnSet(v, ps)
  BY DEF Total, SumFunction
<1>. HIDE DEF v
<1>. QED BY <1>1, <1>2, SumNatural DEF Sound

\* A posting more, its amount more.
LEMMA TotalWith ==
    ASSUME NEW ps, Sound(ps), NEW p \in Postings
    PROVE  /\ Total(ps) \in Nat
           /\ p \notin ps => Total(ps \cup {p}) = Total(ps) + p.amount
<1>. DEFINE qs == ps \cup {p}
            w == [q \in qs |-> q.amount]
            v == [q \in ps |-> q.amount]
<1>1. /\ IsFiniteSet(ps) /\ ps \subseteq qs
      /\ \A q \in qs : w[q] \in Nat
      /\ \A q \in ps : v[q] \in Nat /\ v[q] = w[q]
      /\ w[p] = p.amount /\ DOMAIN w = qs /\ DOMAIN v = ps
  BY DEF Sound, Postings
<1>2. Total(ps) = SumFunctionOnSet(v, ps) /\ Total(qs) = SumFunctionOnSet(w, qs)
  BY DEF Total, SumFunction
<1>. HIDE DEF w, v
<1>3. Weights(w, qs) /\ Weights(v, ps)
  BY <1>1 DEF Weights
<1>4. SumFunctionOnSet(v, ps) = SumFunctionOnSet(w, ps)
  BY <1>1, <1>3, SumSame
<1>5. p \notin ps => SumFunctionOnSet(w, qs) = SumFunctionOnSet(w, ps) + w[p]
  BY <1>1, <1>3, SumWith
<1>6. SumFunctionOnSet(v, ps) \in Nat
  BY <1>1, SumNatural
<1>. QED BY <1>1, <1>2, <1>4, <1>5, <1>6

\* What a new posting does to the sums of accounts and business numbers.
Entered(ps, qs, p) ==
    /\ Sound(qs)
    /\ \A a, dir : /\ Total(Of(ps, a, dir)) \in Nat
                   /\ Total(Of(qs, a, dir)) = Total(Of(ps, a, dir)) + OnAccount(p, a, dir)
    /\ \A biz, e, dir :
          /\ Total(Under(ps, biz, e, dir)) \in Nat
          /\ Total(Under(qs, biz, e, dir)) = Total(Under(ps, biz, e, dir)) + OnBusiness(p, biz, e, dir)

LEMMA BookedOn ==
    ASSUME NEW ps, Sound(ps), NEW p \in Postings, p \notin ps
    PROVE  Entered(ps, ps \cup {p}, p)
<1>1. Sound(ps \cup {p})
  BY FS_AddElement DEF Sound
<1>2. ASSUME NEW qs, qs \subseteq ps
      PROVE  /\ Total(qs) \in Nat
             /\ p \notin qs => Total(qs \cup {p}) = Total(qs) + p.amount
  <2>1. Sound(qs)
    BY <1>2, FS_Subset DEF Sound
  <2>. QED BY <2>1, TotalWith
<1>3. p.amount \in Nat
  BY DEF Postings
<1>4. ASSUME NEW a, NEW dir
      PROVE  /\ Total(Of(ps, a, dir)) \in Nat
             /\ Total(Of(ps \cup {p}, a, dir)) = Total(Of(ps, a, dir)) + OnAccount(p, a, dir)
  <2>1. Of(ps, a, dir) \subseteq ps
    BY DEF Of
  <2>2. Of(ps \cup {p}, a, dir)
          = IF p.account = a /\ p.dir = dir THEN Of(ps, a, dir) \cup {p} ELSE Of(ps, a, dir)
    BY DEF Of
  <2>. QED BY <1>2, <1>3, <2>1, <2>2 DEF OnAccount
<1>5. ASSUME NEW biz, NEW e, NEW dir
      PROVE  /\ Total(Under(ps, biz, e, dir)) \in Nat
             /\ Total(Under(ps \cup {p}, biz, e, dir))
                  = Total(Under(ps, biz, e, dir)) + OnBusiness(p, biz, e, dir)
  <2>1. Under(ps, biz, e, dir) \subseteq ps
    BY DEF Under
  <2>2. Under(ps \cup {p}, biz, e, dir)
          = IF p.biz = biz /\ p.errand = e /\ p.dir = dir
            THEN Under(ps, biz, e, dir) \cup {p} ELSE Under(ps, biz, e, dir)
    BY DEF Under
  <2>. QED BY <1>2, <1>3, <2>1, <2>2 DEF OnBusiness
<1>. QED BY <1>1, <1>4, <1>5 DEF Entered

\* What a debit of m at a and a credit of n at b do to all sums.
Booked(ps, qs, biz, e, a, b, m, n) ==
    /\ Sound(qs)
    /\ \A x : /\ Total(Of(qs, x, "DEBIT")) = Total(Of(ps, x, "DEBIT")) + (IF x = a THEN m ELSE 0)
              /\ Total(Of(qs, x, "CREDIT")) = Total(Of(ps, x, "CREDIT")) + (IF x = b THEN n ELSE 0)
    /\ \A y, f :
          LET this == y = biz /\ f = e IN
          /\ Total(Under(qs, y, f, "DEBIT")) = Total(Under(ps, y, f, "DEBIT")) + (IF this THEN m ELSE 0)
          /\ Total(Under(qs, y, f, "CREDIT")) = Total(Under(ps, y, f, "CREDIT")) + (IF this THEN n ELSE 0)

LEMMA PairBooked ==
    ASSUME NEW ps, Sound(ps), NEW biz \in {"escrow", "settle", "refund"}, NEW e \in Errands,
           NEW a \in Accounts, NEW b \in Accounts, NEW m \in Nat, NEW n \in Nat,
           Posting(biz, e, a, "DEBIT", m) \notin ps, Posting(biz, e, b, "CREDIT", n) \notin ps
    PROVE  Booked(ps, ps \cup {Posting(biz, e, a, "DEBIT", m), Posting(biz, e, b, "CREDIT", n)},
                  biz, e, a, b, m, n)
<1>. DEFINE d == Posting(biz, e, a, "DEBIT", m)
            c == Posting(biz, e, b, "CREDIT", n)
            rs == ps \cup {d}
<1>1. d \in Postings /\ c \in Postings /\ c # d
  BY DEF Posting, Postings
<1>2. /\ \A x : /\ OnAccount(d, x, "DEBIT") = (IF x = a THEN m ELSE 0) /\ OnAccount(d, x, "CREDIT") = 0
                /\ OnAccount(c, x, "CREDIT") = (IF x = b THEN n ELSE 0) /\ OnAccount(c, x, "DEBIT") = 0
      /\ \A y, f : LET this == y = biz /\ f = e IN
                   /\ OnBusiness(d, y, f, "DEBIT") = (IF this THEN m ELSE 0) /\ OnBusiness(d, y, f, "CREDIT") = 0
                   /\ OnBusiness(c, y, f, "CREDIT") = (IF this THEN n ELSE 0) /\ OnBusiness(c, y, f, "DEBIT") = 0
  BY DEF OnAccount, OnBusiness, Posting
<1>. HIDE DEF d, c
<1>3. Entered(ps, rs, d)
  BY <1>1, BookedOn DEF d
<1>4. c \notin rs
  BY <1>1 DEF c
<1>. HIDE DEF rs
<1>5. Entered(rs, rs \cup {c}, c)
  BY <1>1, <1>3, <1>4, BookedOn DEF Entered
<1>6. ps \cup {d, c} = rs \cup {c}
  BY DEF rs
<1>7. \A x : /\ Total(Of(ps \cup {d, c}, x, "DEBIT")) = Total(Of(ps, x, "DEBIT")) + (IF x = a THEN m ELSE 0)
             /\ Total(Of(ps \cup {d, c}, x, "CREDIT")) = Total(Of(ps, x, "CREDIT")) + (IF x = b THEN n ELSE 0)
  <2>. SUFFICES ASSUME NEW x
                PROVE  /\ Total(Of(rs \cup {c}, x, "DEBIT")) = Total(Of(ps, x, "DEBIT")) + (IF x = a THEN m ELSE 0)
                       /\ Total(Of(rs \cup {c}, x, "CREDIT")) = Total(Of(ps, x, "CREDIT")) + (IF x = b THEN n ELSE 0)
    BY <1>6
  <2>1. /\ Total(Of(ps, x, "DEBIT")) \in Nat /\ Total(Of(ps, x, "CREDIT")) \in Nat
        /\ Total(Of(rs, x, "DEBIT")) = Total(Of(ps, x, "DEBIT")) + (IF x = a THEN m ELSE 0)
        /\ Total(Of(rs, x, "CREDIT")) = Total(Of(ps, x, "CREDIT")) + 0
    BY <1>2, <1>3 DEF Entered
  <2>2. /\ Total(Of(rs \cup {c}, x, "DEBIT")) = Total(Of(rs, x, "DEBIT")) + 0
        /\ Total(Of(rs \cup {c}, x, "CREDIT")) = Total(Of(rs, x, "CREDIT")) + (IF x = b THEN n ELSE 0)
    <3>1. /\ OnAccount(c, x, "DEBIT") = 0
          /\ OnAccount(c, x, "CREDIT") = (IF x = b THEN n ELSE 0)
      BY <1>2
    <3>. QED BY <1>5, <3>1 DEF Entered
  <2>. QED BY <2>1, <2>2
<1>8. \A y, f :
         LET this == y = biz /\ f = e IN
         /\ Total(Under(ps \cup {d, c}, y, f, "DEBIT")) = Total(Under(ps, y, f, "DEBIT")) + (IF this THEN m ELSE 0)
         /\ Total(Under(ps \cup {d, c}, y, f, "CREDIT")) = Total(Under(ps, y, f, "CREDIT")) + (IF this THEN n ELSE 0)
  BY <1>2, <1>3, <1>5, <1>6 DEF Entered
<1>. QED BY <1>5, <1>6, <1>7, <1>8 DEF d, c, Booked, Entered

\* The errands whose reward is in the escrow account.
Held == {e \in Errands : Stage(e) = "held"}

Start(a) == IF a \in Users THEN Opening[a] ELSE 0

BooksInv ==
    /\ Sound(ledger) /\ IsFiniteSet(Held)
    /\ LedgerExplainsBalances /\ EveryPostingBalanced /\ EscrowPoolBacked

\* The three properties in terms of the sums above.
LEMMA BooksRead ==
    /\ LedgerExplainsBalances <=>
         \A a \in Accounts : balance[a] + Total(Of(ledger, a, "DEBIT")) = Start(a) + Total(Of(ledger, a, "CREDIT"))
    /\ EveryPostingBalanced <=>
         \A biz \in {"escrow", "settle", "refund"}, e \in Errands :
            Total(Under(ledger, biz, e, "DEBIT")) = Total(Under(ledger, biz, e, "CREDIT"))
    /\ EscrowPoolBacked <=> balance[EscrowAcc] = SumFunctionOnSet(Reward, Held)
<1>1. Held = {e \in Errands : Posted("escrow", e) /\ ~Posted("settle", e) /\ ~Posted("refund", e)}
  BY DEF Held, Stage
<1>2. EscrowPoolBacked <=> balance[EscrowAcc] = SumFunctionOnSet(Reward, Held)
  BY <1>1 DEF EscrowPoolBacked
<1>3. LedgerExplainsBalances <=>
         \A a \in Accounts : balance[a] + Total(Of(ledger, a, "DEBIT")) = Start(a) + Total(Of(ledger, a, "CREDIT"))
  BY DEF LedgerExplainsBalances, Of, Start
<1>4. EveryPostingBalanced <=>
         \A biz \in {"escrow", "settle", "refund"}, e \in Errands :
            Total(Under(ledger, biz, e, "DEBIT")) = Total(Under(ledger, biz, e, "CREDIT"))
  BY DEF EveryPostingBalanced, Under
<1>. QED BY <1>2, <1>3, <1>4

LEMMA PoolRead == balance'[EscrowAcc] = SumFunctionOnSet(Reward, Held') => EscrowPoolBacked'
<1>1. Held' = {e \in Errands : Posted("escrow", e)' /\ ~Posted("settle", e)' /\ ~Posted("refund", e)'}
  BY DEF Held, Stage
<1>. QED BY <1>1 DEF EscrowPoolBacked

LEMMA SumsAreNatural ==
    ASSUME NEW ps, Sound(ps)
    PROVE  /\ \A x, dir : Total(Of(ps, x, dir)) \in Nat
           /\ \A biz, e, dir : Total(Under(ps, biz, e, dir)) \in Nat
<1>1. ASSUME NEW qs, qs \subseteq ps PROVE Total(qs) \in Nat
  <2>1. Sound(qs)
    BY <1>1, FS_Subset DEF Sound
  <2>. QED BY <2>1, TotalNatural
<1>. QED BY <1>1 DEF Of, Under

\* A reward more or less in the pool.
LEMMA PoolMove ==
    ASSUME NEW S, IsFiniteSet(S), S \subseteq Errands, NEW e \in Errands
    PROVE  /\ SumFunctionOnSet(Reward, S) \in Nat
           /\ e \notin S => /\ IsFiniteSet(S \cup {e})
                            /\ SumFunctionOnSet(Reward, S \cup {e}) = SumFunctionOnSet(Reward, S) + Reward[e]
           /\ e \in S => /\ IsFiniteSet(S \ {e}) /\ Reward[e] <= SumFunctionOnSet(Reward, S)
                         /\ SumFunctionOnSet(Reward, S \ {e}) = SumFunctionOnSet(Reward, S) - Reward[e]
<1>1. /\ \A x \in S \cup {e} : Reward[x] \in Nat
      /\ Weights(Reward, S \cup {e}) /\ Weights(Reward, S) /\ Weights(Reward, S \ {e})
  BY RewardAssumption DEF Weights
<1>2. SumFunctionOnSet(Reward, S) \in Nat
  BY <1>1, SumNatural
<1>3. ASSUME e \notin S
      PROVE  /\ IsFiniteSet(S \cup {e})
             /\ SumFunctionOnSet(Reward, S \cup {e}) = SumFunctionOnSet(Reward, S) + Reward[e]
  BY <1>1, <1>3, SumWith, FS_AddElement
<1>4. ASSUME e \in S
      PROVE  /\ IsFiniteSet(S \ {e}) /\ Reward[e] <= SumFunctionOnSet(Reward, S)
             /\ SumFunctionOnSet(Reward, S \ {e}) = SumFunctionOnSet(Reward, S) - Reward[e]
  <2>1. SumFunctionOnSet(Reward, S) = Reward[e] + SumFunctionOnSet(Reward, S \ {e})
    BY <1>1, <1>4, SumWithout
  <2>2. IsFiniteSet(S \ {e})
    BY FS_Subset
  <2>3. SumFunctionOnSet(Reward, S \ {e}) \in Nat
    BY <1>1, <2>2, SumNatural
  <2>. QED BY <1>1, <2>1, <2>2, <2>3
<1>. QED BY <1>2, <1>3, <1>4

\* The balances after a debit at a and a credit at b.
Shifted(a, b, m) ==
    \A x \in Accounts :
        balance'[x] = IF x = a THEN balance[x] - m ELSE IF x = b THEN balance[x] + m ELSE balance[x]

LEMMA ShiftedBy ==
    ASSUME balance \in [Accounts -> Nat], NEW a \in Accounts, NEW b \in Accounts, a # b, NEW m \in Nat,
           balance[a] >= m, balance' = Credited(Debited(balance, a, m), b, m)
    PROVE  Shifted(a, b, m)
<1>1. Debited(balance, a, m) \in [Accounts -> Nat] /\ CanDebit(balance, a, m)
  BY BalanceTypes DEF CanDebit
<1>2. \A x \in Accounts : Debited(balance, a, m)[x] = IF x = a THEN balance[x] - m ELSE balance[x]
  BY <1>1, DebitAfter
<1>. QED BY <1>1, <1>2, CreditAfter DEF Shifted

\* A transfer between two accounts keeps the books.
LEMMA TransferBooks ==
    ASSUME MoneyInv, BooksInv, NEW biz, NEW e, NEW a \in Accounts, NEW b \in Accounts, a # b, NEW m \in Nat,
           Booked(ledger, ledger', biz, e, a, b, m, m), Shifted(a, b, m)
    PROVE  Sound(ledger') /\ LedgerExplainsBalances' /\ EveryPostingBalanced'
<1>. balance \in [Accounts -> Nat]
  BY DEF MoneyInv, TypeOK
<1>1. LedgerExplainsBalances'
  <2>. SUFFICES ASSUME NEW x \in Accounts
                PROVE  balance'[x] + Total(Of(ledger', x, "DEBIT")) = Start(x) + Total(Of(ledger', x, "CREDIT"))
    BY DEF LedgerExplainsBalances, Of, Start
  <2>1. balance[x] + Total(Of(ledger, x, "DEBIT")) = Start(x) + Total(Of(ledger, x, "CREDIT"))
    BY BooksRead DEF BooksInv
  <2>2. Start(x) \in Nat /\ balance[x] \in Nat
    BY OpeningAssumption DEF Start
  <2>3. Total(Of(ledger, x, "DEBIT")) \in Nat /\ Total(Of(ledger, x, "CREDIT")) \in Nat
    BY SumsAreNatural DEF BooksInv
  <2>. QED BY <2>1, <2>2, <2>3 DEF Booked, Shifted
<1>2. EveryPostingBalanced'
  <2>. SUFFICES ASSUME NEW y \in {"escrow", "settle", "refund"}, NEW f \in Errands
                PROVE  Total(Under(ledger', y, f, "DEBIT")) = Total(Under(ledger', y, f, "CREDIT"))
    BY DEF EveryPostingBalanced, Under
  <2>. QED BY BooksRead DEF BooksInv, Booked
<1>. QED BY <1>1, <1>2 DEF Booked

\* Freezing: out of the publisher's account, into the escrow account.
LEMMA PublishBooks ==
    ASSUME MoneyInv, FreezesPosted, BooksInv, NEW e \in Errands, NEW u \in Users, Publish(e, u)
    PROVE  BooksInv'
<1>. DEFINE m == Reward[e]
<1>1. /\ m \in Nat /\ u \in Accounts /\ EscrowAcc \in Accounts /\ u # EscrowAcc
      /\ balance \in [Accounts -> Nat] /\ balance[u] >= m
      /\ balance' = Credited(Debited(balance, u, m), EscrowAcc, m)
  BY RewardAssumption, AccountsAssumption DEF MoneyInv, TypeOK, Accounts, Publish, CanDebit
<1>2. Posting("escrow", e, u, "DEBIT", m) \notin ledger /\ Posting("escrow", e, EscrowAcc, "CREDIT", m) \notin ledger
  BY DEF Publish, Fresh, EscrowPostings
<1>3. ledger' = ledger \cup {Posting("escrow", e, u, "DEBIT", m), Posting("escrow", e, EscrowAcc, "CREDIT", m)}
  BY DEF EscrowPostings, Publish
<1>. HIDE DEF m
<1>4. Booked(ledger, ledger', "escrow", e, u, EscrowAcc, m, m)
  BY <1>1, <1>2, <1>3, PairBooked DEF BooksInv
<1>5. Shifted(u, EscrowAcc, m)
  BY <1>1, ShiftedBy
<1>6. Sound(ledger') /\ LedgerExplainsBalances' /\ EveryPostingBalanced'
  BY <1>1, <1>4, <1>5, TransferBooks
<1>7. e \notin Held /\ Held' = Held \cup {e}
  <2>1. StageSeen[e] = "none" /\ StageSeen' = [StageSeen EXCEPT ![e] = "held"]
    BY PublishHolds DEF Contract!Hold, StageSeen
  <2>. QED BY <2>1 DEF StageSeen, Held
<1>8. /\ IsFiniteSet(Held \cup {e})
      /\ SumFunctionOnSet(Reward, Held \cup {e}) = SumFunctionOnSet(Reward, Held) + m
  BY <1>7, PoolMove DEF BooksInv, Held, m
<1>9. balance'[EscrowAcc] = SumFunctionOnSet(Reward, Held')
  BY <1>1, <1>5, <1>7, <1>8, BooksRead DEF BooksInv, Shifted
<1>. QED BY <1>6, <1>7, <1>8, <1>9, PoolRead DEF BooksInv

\* While a reward is held the escrow account can pay it.
LEMMA PoolCovers ==
    ASSUME MoneyInv, BooksInv, NEW e \in Errands, Stage(e) = "held"
    PROVE  /\ balance[EscrowAcc] >= Reward[e] /\ IsFiniteSet(Held \ {e})
           /\ SumFunctionOnSet(Reward, Held \ {e}) = balance[EscrowAcc] - Reward[e]
<1>1. e \in Held /\ Held \subseteq Errands
  BY DEF Held
<1>2. balance[EscrowAcc] = SumFunctionOnSet(Reward, Held)
  BY BooksRead DEF BooksInv
<1>3. Reward[e] \in Nat
  BY RewardAssumption
<1>. QED BY <1>1, <1>2, <1>3, PoolMove DEF BooksInv

\* Refunding: out of the escrow account, to the publisher.
LEMMA RefundBooks ==
    ASSUME MoneyInv, FreezesPosted, BooksInv, NEW c \in Callers, RefundCommitted(c)
    PROVE  BooksInv'
<1>1. call[c].errand \in Errands
  BY CallTypes DEF MoneyInv, TypeOK, RefundCommitted, Ops
<1>. PICK e \in Errands : e = call[c].errand
  BY <1>1
<1>2. Stage(e) = "held"
  BY <1>1, HeldStage DEF RefundCommitted, Gate1
<1>3. errand[e].publisher \in Users
  <2>1. errand[e].status # "DRAFT"
    BY DEF MoneyInv, RefundersDone, RefundCommitted
  <2>. QED BY <2>1, FieldValues DEF MoneyInv, TypeOK, RowsPersist
<1>. PICK u \in Users : u = errand[e].publisher
  BY <1>3
<1>. DEFINE m == Reward[e]
<1>4. /\ m \in Nat /\ u \in Accounts /\ EscrowAcc \in Accounts /\ u # EscrowAcc
      /\ balance \in [Accounts -> Nat] /\ balance[EscrowAcc] >= m
      /\ balance' = Credited(Debited(balance, EscrowAcc, m), u, m)
  BY <1>2, PoolCovers, RewardAssumption, AccountsAssumption DEF MoneyInv, TypeOK, Accounts, RefundCommitted
<1>5. Posting("refund", e, EscrowAcc, "DEBIT", m) \notin ledger /\ Posting("refund", e, u, "CREDIT", m) \notin ledger
  BY DEF RefundCommitted, Fresh, RefundPostings
<1>6. ledger' = ledger \cup {Posting("refund", e, EscrowAcc, "DEBIT", m), Posting("refund", e, u, "CREDIT", m)}
  BY DEF RefundPostings, RefundCommitted
<1>. HIDE DEF m
<1>7. Booked(ledger, ledger', "refund", e, EscrowAcc, u, m, m)
  BY <1>4, <1>5, <1>6, PairBooked DEF BooksInv
<1>8. Shifted(EscrowAcc, u, m)
  BY <1>4, ShiftedBy
<1>9. Sound(ledger') /\ LedgerExplainsBalances' /\ EveryPostingBalanced'
  BY <1>4, <1>7, <1>8, TransferBooks
<1>10. Held' = Held \ {e}
  <2>1. \A f \in Errands : \A biz \in {"settle", "refund", "escrow"} :
           Posted(biz, f)' <=> Posted(biz, f) \/ (biz = "refund" /\ f = e)
    BY PostedAfter DEF RefundCommitted
  <2>. QED BY <2>1 DEF Held, Stage
<1>11. IsFiniteSet(Held') /\ balance'[EscrowAcc] = SumFunctionOnSet(Reward, Held')
  BY <1>2, <1>4, <1>8, <1>10, PoolCovers DEF Shifted, m
<1>. QED BY <1>9, <1>11, PoolRead DEF BooksInv

\* Paying: out of the escrow account, split between the runner and the platform, whose
\* share is booked only if it is above zero.
LEMMA ShareBooked ==
    ASSUME Sound(ledger), NEW e \in Errands, NEW u \in Users, Fresh(SettlePostings(e, u))
    PROVE  LET l == ledger \cup SettlePostings(e, u)
               m == Reward[e] IN
           /\ Sound(l)
           /\ \A x : /\ Total(Of(l, x, "DEBIT")) = Total(Of(ledger, x, "DEBIT")) + (IF x = EscrowAcc THEN m ELSE 0)
                     /\ Total(Of(l, x, "CREDIT")) = Total(Of(ledger, x, "CREDIT"))
                          + (IF x = u THEN Share(e) ELSE IF x = CommissionAcc THEN Fee(e) ELSE 0)
           /\ \A y, f :
                 LET n == IF y = "settle" /\ f = e THEN m ELSE 0 IN
                 /\ Total(Under(l, y, f, "DEBIT")) = Total(Under(ledger, y, f, "DEBIT")) + n
                 /\ Total(Under(l, y, f, "CREDIT")) = Total(Under(ledger, y, f, "CREDIT")) + n
<1>. DEFINE m == Reward[e]
            d == Posting("settle", e, EscrowAcc, "DEBIT", m)
            c == Posting("settle", e, u, "CREDIT", Share(e))
            k == Posting("settle", e, CommissionAcc, "CREDIT", Fee(e))
            q == ledger \cup {d, c}
            l == ledger \cup SettlePostings(e, u)
<1>1. /\ m \in Nat /\ Share(e) \in Nat /\ Fee(e) \in Nat /\ Share(e) + Fee(e) = m
      /\ u \in Accounts /\ EscrowAcc \in Accounts /\ CommissionAcc \in Accounts /\ u # CommissionAcc
  BY RewardAssumption, AccountsAssumption, FeeInReward DEF Accounts, Share
<1>2. k.amount = Fee(e) /\ l = q \cup {p \in {k} : p.amount > 0}
  BY DEF SettlePostings, Posting
<1>3. d \notin ledger /\ c \notin ledger /\ (Fee(e) > 0 => k \notin q)
  <2>1. d \notin ledger /\ c \notin ledger
    BY DEF Fresh, SettlePostings
  <2>2. Fee(e) > 0 => k \in SettlePostings(e, u)
    BY <1>2 DEF SettlePostings
  <2>3. Fee(e) > 0 => k \notin ledger
    BY <2>2 DEF Fresh
  <2>4. k # d /\ k # c
    BY <1>1 DEF Posting
  <2>. QED BY <2>1, <2>3, <2>4
<1>4. Booked(ledger, q, "settle", e, EscrowAcc, u, m, Share(e))
  <2>. HIDE DEF m
  <2>. QED BY <1>1, <1>3, PairBooked
<1>5. k \in Postings
  BY <1>1 DEF Posting, Postings
<1>6. /\ \A x : OnAccount(k, x, "DEBIT") = 0 /\ OnAccount(k, x, "CREDIT") = IF x = CommissionAcc THEN Fee(e) ELSE 0
      /\ \A y, f : /\ OnBusiness(k, y, f, "DEBIT") = 0
                   /\ OnBusiness(k, y, f, "CREDIT") = IF y = "settle" /\ f = e THEN Fee(e) ELSE 0
  BY DEF OnAccount, OnBusiness, Posting
<1>. HIDE DEF k, q, l, m
<1>7. Sound(q)
  BY <1>4 DEF Booked
<1>8. /\ Sound(l)
      /\ \A x, dir : Total(Of(l, x, dir)) = Total(Of(q, x, dir)) + OnAccount(k, x, dir)
      /\ \A y, f, dir : Total(Under(l, y, f, dir)) = Total(Under(q, y, f, dir)) + OnBusiness(k, y, f, dir)
  <2>1. CASE Fee(e) > 0
    <3>1. l = q \cup {k}
      BY <1>2, <2>1
    <3>2. k \notin q
      BY <1>3, <2>1
    <3>3. Entered(q, q \cup {k}, k)
      <4>. HIDE DEF k, q
      <4>. QED BY <1>5, <1>7, <3>2, BookedOn
    <3>. QED BY <3>1, <3>3 DEF Entered
  <2>2. CASE Fee(e) = 0
    <3>1. l = q
      BY <1>2, <2>2
    <3>2. /\ \A x, dir : OnAccount(k, x, dir) = 0 /\ Total(Of(q, x, dir)) \in Nat
          /\ \A y, f, dir : OnBusiness(k, y, f, dir) = 0 /\ Total(Under(q, y, f, dir)) \in Nat
      BY <1>2, <1>7, <2>2, SumsAreNatural DEF OnAccount, OnBusiness
    <3>. QED BY <1>7, <3>1, <3>2
  <2>. QED BY <1>1, <2>1, <2>2
<1>9. \A x : /\ Total(Of(ledger, x, "DEBIT")) \in Nat /\ Total(Of(ledger, x, "CREDIT")) \in Nat
             /\ \A y : Total(Under(ledger, x, y, "DEBIT")) \in Nat /\ Total(Under(ledger, x, y, "CREDIT")) \in Nat
  BY SumsAreNatural
<1>10. ASSUME NEW x
       PROVE  /\ Total(Of(l, x, "DEBIT")) = Total(Of(ledger, x, "DEBIT")) + (IF x = EscrowAcc THEN m ELSE 0)
              /\ Total(Of(l, x, "CREDIT")) = Total(Of(ledger, x, "CREDIT"))
                   + (IF x = u THEN Share(e) ELSE IF x = CommissionAcc THEN Fee(e) ELSE 0)
  BY <1>1, <1>4, <1>6, <1>8, <1>9 DEF Booked
<1>11. ASSUME NEW y, NEW f
       PROVE  LET n == IF y = "settle" /\ f = e THEN m ELSE 0 IN
              /\ Total(Under(l, y, f, "DEBIT")) = Total(Under(ledger, y, f, "DEBIT")) + n
              /\ Total(Under(l, y, f, "CREDIT")) = Total(Under(ledger, y, f, "CREDIT")) + n
  <2>1. Total(Under(ledger, y, f, "DEBIT")) \in Nat /\ Total(Under(ledger, y, f, "CREDIT")) \in Nat
    BY <1>9
  <2>2. CASE y = "settle" /\ f = e
    BY <1>1, <1>4, <1>6, <1>8, <2>1, <2>2 DEF Booked
  <2>3. CASE ~(y = "settle" /\ f = e)
    <3>1. /\ Total(Under(q, y, f, "DEBIT")) = Total(Under(ledger, y, f, "DEBIT"))
          /\ Total(Under(q, y, f, "CREDIT")) = Total(Under(ledger, y, f, "CREDIT"))
      BY <1>4, <2>1, <2>3 DEF Booked
    <3>2. OnBusiness(k, y, f, "DEBIT") = 0 /\ OnBusiness(k, y, f, "CREDIT") = 0
      BY <1>6, <2>3
    <3>. QED BY <1>8, <2>1, <2>3, <3>1, <3>2
  <2>. QED BY <2>2, <2>3
<1>. QED BY <1>8, <1>10, <1>11 DEF l, m

LEMMA PayoutBooks ==
    ASSUME MoneyInv, FreezesPosted, BooksInv, NEW c \in Callers, PayoutCommitted(c)
    PROVE  BooksInv'
<1>1. call[c].errand \in Errands /\ call[c].seen \in Users
  BY CallTypes DEF MoneyInv, TypeOK, PayoutCommitted, Paying, CanPost, Ops
<1>. PICK e \in Errands, u \in Users : e = call[c].errand /\ u = call[c].seen
  BY <1>1
<1>2. Stage(e) = "held"
  BY <1>1, HeldStage DEF PayoutCommitted, Gate1
<1>. DEFINE m == Reward[e]
            l == ledger \cup SettlePostings(e, u)
            b == Debited(balance, EscrowAcc, m)
            g == Credited(b, u, Share(e))
<1>3. /\ m \in Nat /\ Share(e) \in Nat /\ Fee(e) \in Nat /\ Share(e) + Fee(e) = m
      /\ u \in Accounts /\ EscrowAcc \in Accounts /\ CommissionAcc \in Accounts
      /\ u # CommissionAcc /\ u # EscrowAcc /\ EscrowAcc # CommissionAcc
      /\ balance \in [Accounts -> Nat] /\ balance[EscrowAcc] >= m
  <2>1. balance \in [Accounts -> Nat] /\ balance[EscrowAcc] >= m
    BY <1>2, PoolCovers DEF MoneyInv, TypeOK
  <2>2. m \in Nat /\ Share(e) \in Nat /\ Fee(e) \in Nat /\ Share(e) + Fee(e) = m
    BY RewardAssumption, FeeInReward DEF Share
  <2>. QED BY <2>1, <2>2, AccountsAssumption DEF Accounts
<1>4. ledger' = l /\ Fresh(SettlePostings(e, u)) /\ balance' = Credited(g, CommissionAcc, Fee(e))
  BY DEF PayoutCommitted, CanPost
<1>. HIDE DEF m
<1>5. /\ b \in [Accounts -> Nat] /\ g \in [Accounts -> Nat] /\ CanDebit(balance, EscrowAcc, m)
  BY <1>3, BalanceTypes DEF CanDebit
<1>6. \A x \in Accounts : b[x] = IF x = EscrowAcc THEN balance[x] - m ELSE balance[x]
  BY <1>3, <1>5, DebitAfter
<1>. HIDE DEF b
<1>7. \A x \in Accounts : g[x] = IF x = u THEN b[u] + Share(e) ELSE b[x]
  <2>1. \A x \in Accounts, y \in Accounts, n \in Nat :
           Credited(b, x, n)[y] = (IF y = x THEN b[x] + n ELSE b[y])
    BY <1>5, CreditAfter
  <2>. QED BY <1>3, <2>1
<1>. HIDE DEF g
<1>8. \A x \in Accounts : balance'[x] = IF x = CommissionAcc THEN g[x] + Fee(e) ELSE g[x]
  <2>1. \A x \in Accounts, y \in Accounts, n \in Nat :
           Credited(g, x, n)[y] = (IF y = x THEN g[x] + n ELSE g[y])
    BY <1>5, CreditAfter
  <2>. QED BY <1>3, <1>4, <2>1
<1>9. \A x \in Accounts :
         balance'[x] = IF x = EscrowAcc THEN balance[x] - m
                       ELSE IF x = u THEN balance[x] + Share(e)
                       ELSE IF x = CommissionAcc THEN balance[x] + Fee(e) ELSE balance[x]
  BY <1>3, <1>6, <1>7, <1>8
<1>10. /\ Sound(l)
       /\ \A x : /\ Total(Of(l, x, "DEBIT")) = Total(Of(ledger, x, "DEBIT")) + (IF x = EscrowAcc THEN m ELSE 0)
                 /\ Total(Of(l, x, "CREDIT")) = Total(Of(ledger, x, "CREDIT"))
                      + (IF x = u THEN Share(e) ELSE IF x = CommissionAcc THEN Fee(e) ELSE 0)
       /\ \A y, f :
             LET n == IF y = "settle" /\ f = e THEN m ELSE 0 IN
             /\ Total(Under(l, y, f, "DEBIT")) = Total(Under(ledger, y, f, "DEBIT")) + n
             /\ Total(Under(l, y, f, "CREDIT")) = Total(Under(ledger, y, f, "CREDIT")) + n
  BY <1>4, ShareBooked DEF BooksInv, m
<1>. HIDE DEF l
<1>11. LedgerExplainsBalances'
  <2>. SUFFICES ASSUME NEW x \in Accounts
                PROVE  balance'[x] + Total(Of(l, x, "DEBIT")) = Start(x) + Total(Of(l, x, "CREDIT"))
    BY <1>4 DEF LedgerExplainsBalances, Of, Start
  <2>1. balance[x] + Total(Of(ledger, x, "DEBIT")) = Start(x) + Total(Of(ledger, x, "CREDIT"))
    BY BooksRead DEF BooksInv
  <2>2. Start(x) \in Nat /\ balance[x] \in Nat
    BY <1>3, OpeningAssumption DEF Start
  <2>3. Total(Of(ledger, x, "DEBIT")) \in Nat /\ Total(Of(ledger, x, "CREDIT")) \in Nat
    BY SumsAreNatural DEF BooksInv
  <2>. QED BY <1>3, <1>9, <1>10, <2>1, <2>2, <2>3
<1>12. EveryPostingBalanced'
  <2>. SUFFICES ASSUME NEW y \in {"escrow", "settle", "refund"}, NEW f \in Errands
                PROVE  Total(Under(l, y, f, "DEBIT")) = Total(Under(l, y, f, "CREDIT"))
    BY <1>4 DEF EveryPostingBalanced, Under
  <2>. QED BY <1>10, BooksRead DEF BooksInv
<1>13. Held' = Held \ {e}
  <2>1. \A f \in Errands : \A biz \in {"settle", "refund", "escrow"} :
           Posted(biz, f)' <=> Posted(biz, f) \/ (biz = "settle" /\ f = e)
    BY <1>4, PostedAfter DEF l
  <2>. QED BY <2>1 DEF Held, Stage
<1>14. IsFiniteSet(Held') /\ balance'[EscrowAcc] = SumFunctionOnSet(Reward, Held')
  BY <1>2, <1>3, <1>9, <1>13, PoolCovers DEF m
<1>. QED BY <1>4, <1>10, <1>11, <1>12, <1>14, PoolRead DEF BooksInv

LEMMA BooksInit == Init => BooksInv
<1>. SUFFICES ASSUME Init PROVE BooksInv
  OBVIOUS
<1>1. Sound(ledger) /\ IsFiniteSet(Held) /\ Held = {}
  BY FS_EmptySet DEF Init, Sound, Held, Stage, Posted
<1>2. \A x, dir : Of(ledger, x, dir) = {}
  BY DEF Init, Of
<1>3. \A biz, e, dir : Under(ledger, biz, e, dir) = {}
  BY DEF Init, Under
<1>4. \A a \in Accounts : balance[a] = Start(a)
  BY DEF Init, Start
<1>5. Total({}) \in Nat /\ \A a \in Accounts : Start(a) \in Nat
  BY <1>1, <1>2, TotalNatural, OpeningAssumption DEF Sound, Start
<1>6. balance[EscrowAcc] = 0
  BY AccountsAssumption DEF Init, Accounts
<1>7. SumFunctionOnSet(Reward, Held) = 0
  BY <1>1, SumEmpty
<1>. QED BY <1>1, <1>2, <1>3, <1>4, <1>5, <1>6, <1>7, BooksRead DEF BooksInv

LEMMA BooksStep == MoneyInv /\ FreezesPosted /\ BooksInv /\ [Next]_vars => BooksInv'
<1>. SUFFICES ASSUME MoneyInv, FreezesPosted, BooksInv, [Next]_vars PROVE BooksInv'
  OBVIOUS
<1>1. ASSUME StageSeen' = StageSeen, ledger' = ledger, balance' = balance
      PROVE  BooksInv'
  <2>1. Held' = Held
    BY <1>1 DEF Held, StageSeen
  <2>2. LedgerExplainsBalances' /\ EveryPostingBalanced' /\ Sound(ledger')
    BY <1>1 DEF BooksInv, LedgerExplainsBalances, EveryPostingBalanced
  <2>3. balance'[EscrowAcc] = SumFunctionOnSet(Reward, Held')
    BY <1>1, <2>1, BooksRead DEF BooksInv
  <2>. QED BY <2>1, <2>2, <2>3, PoolRead DEF BooksInv
<1>2. CASE UNCHANGED vars
  BY <1>1, <1>2 DEF vars, StageSeen, Stage, Posted
<1>3. CASE Next
  BY <1>1, <1>3, PublishBooks, PayoutBooks, RefundBooks, OthersStutter
<1>. QED BY <1>2, <1>3

LEMMA BooksSafe == Spec => []BooksInv
BY BooksInit, BooksStep, MoneySafe, FreezesSafe, PTL DEF Spec

(* The balance of every account is its opening balance plus its credits     *)
(* minus its debits, however many transactions raced: no conditional debit  *)
(* whose row count the code ignores was ever refused.                       *)
THEOREM LedgerSafe == Spec => []LedgerExplainsBalances
BY BooksSafe, PTL DEF BooksInv

(* The postings of one business number add up: what the runner and the      *)
(* platform are booked is the reward to the cent, at every rate.            *)
THEOREM DoubleEntrySafe == Spec => []EveryPostingBalanced
BY BooksSafe, PTL DEF BooksInv

(* The escrow account holds the rewards that are frozen and have not come   *)
(* out, no more and no less, so one errand is never paid with another's.    *)
THEOREM PoolSafe == Spec => []EscrowPoolBacked
BY BooksSafe, PTL DEF BooksInv
=============================================================================
