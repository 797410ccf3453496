---------------------------- MODULE ErrandDomain ----------------------------
(***************************************************************************)
(* The aggregate Errand.java as pure operators on its record: for every    *)
(* method, the check it makes before it changes anything (May...) and the  *)
(* state it leaves.  transitTo's version argument is always the version    *)
(* just read, so only the check against the status graph remains of it.    *)
(* The use cases call these on the copy they read; what reaches the        *)
(* database is decided by the SQL of ErrandRow.                            *)
(***************************************************************************)
EXTENDS ErrandStatus, Naturals

CONSTANTS Users,           \* publishers and runners
          NoOne,           \* SQL NULL in a user column
          SystemOperator,  \* Errand.SYSTEM_OPERATOR, who settles when nobody confirms
          SlotTotal        \* places of an errand (slot_total)

ASSUME NoOneAssumption == NoOne \notin Users
ASSUME OperatorAssumption == SystemOperator \notin Users \cup {NoOne}
ASSUME SlotTotalAssumption == SlotTotal \in Nat \ {0}

Operators == Users \cup {SystemOperator}

\* settledBy is the operator in the row DELIVERED -> SETTLED of errand_status_log, which
\* the transaction that settles appends; NoOne while there is none.
Errand == [status    : Status,
           publisher : Users \cup {NoOne},
           grabber   : Users \cup {NoOne},
           settledBy : Operators \cup {NoOne},
           taken     : Nat,
           round     : Nat,
           version   : Nat]

\* Errand.draft: exists only inside the publishing transaction.  publisher = NoOne
\* says that no row of this errand has been committed yet.
Draft == [status |-> "DRAFT", publisher |-> NoOne, grabber |-> NoOne,
          settledBy |-> NoOne, taken |-> 0, round |-> 0, version |-> 0]

Persisted(r) == r.publisher # NoOne

TransitTo(r, to) == [r EXCEPT !.status = to, !.version = @ + 1]

MayPublish(r) == CanTransit(r.status, "PUBLISHED") /\ ~Persisted(r)
PublishBy(r, u) == [TransitTo(r, "PUBLISHED") EXCEPT !.publisher = u]

MayLock(r) == r.status = "PUBLISHED" /\ r.taken < SlotTotal
LockBy(r, u) == [TransitTo(r, "LOCKED") EXCEPT !.grabber = u, !.taken = @ + 1]

MayAccept(r, u) == r.grabber = u /\ CanTransit(r.status, "ACCEPTED")
AcceptByRunner(r) == TransitTo(r, "ACCEPTED")

MayLeaveLock(r) == r.status = "LOCKED"
TransferToNextRunner(r, u) ==
    [TransitTo(r, "LOCKED") EXCEPT !.grabber = u, !.round = @ + 1]
RevertToPublished(r) ==
    [TransitTo(r, "PUBLISHED") EXCEPT !.grabber = NoOne, !.round = @ + 1,
                                      !.taken = IF @ > 0 THEN @ - 1 ELSE 0]

MayPickUp(r, u) == r.grabber = u /\ CanTransit(r.status, "PICKED_UP")
PickUpBy(r) == TransitTo(r, "PICKED_UP")

MayDeliver(r, u) == r.grabber = u /\ CanTransit(r.status, "DELIVERED")
DeliverBy(r) == TransitTo(r, "DELIVERED")

MaySettle(r, u) == u \in {SystemOperator, r.publisher} /\ CanTransit(r.status, "SETTLED")
SettleBy(r, u) == [TransitTo(r, "SETTLED") EXCEPT !.settledBy = u]

MayCancel(r, u) == u = r.publisher /\ r.status \in {"DRAFT", "PUBLISHED"}
CancelByPublisher(r) == [TransitTo(r, "CANCELLED") EXCEPT !.taken = 0]

MayDispute(r, u) == u \in {r.publisher, r.grabber} /\ CanTransit(r.status, "DISPUTED")
RaiseDispute(r) == TransitTo(r, "DISPUTED")

MayArbitrate(r) == r.status = "DISPUTED"
ArbitrateToRunner(r) == TransitTo(r, "SETTLED")
ArbitrateToPublisher(r) == TransitTo(r, "REFUNDED")
=============================================================================
