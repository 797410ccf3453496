----------------------------- MODULE ErrandRow -----------------------------
(***************************************************************************)
(* The errand table as JdbcErrandRepository.java updates it: every method  *)
(* is one conditional UPDATE.  ...Hits(r, ...) is its WHERE clause on row  *)
(* r (0 affected rows otherwise), ...Sets(r, ...) the row it leaves.       *)
(* MySQL's row lock makes each of them atomic, and a transaction that hit  *)
(* a row keeps the lock until it commits.  Definitions marked "wrong:" are *)
(* bugs the SQL could have had; no module uses them, they test the         *)
(* properties.                                                             *)
(***************************************************************************)
EXTENDS ErrandDomain

Bump(r, s) == [r EXCEPT !.status = s, !.version = @ + 1]

PublishHits(r, v) == r.status = "DRAFT" /\ r.version = v
PublishSets(r) == Bump(r, "PUBLISHED")

LockHits(r, v) == r.status = "PUBLISHED" /\ r.version = v /\ r.taken < SlotTotal
LockSets(r, u) == [Bump(r, "LOCKED") EXCEPT !.grabber = u, !.taken = @ + 1]

AcceptHits(r, u, v) == r.status = "LOCKED" /\ r.grabber = u /\ r.version = v
AcceptSets(r) == Bump(r, "ACCEPTED")

\* casTransferToNext and casRevertToPublished share one WHERE clause
LeaveLockHitsRound(r, v, n) == r.round = n     \* wrong: neither status nor version
LeaveLockHits(r, v, n) == r.status = "LOCKED" /\ r.version = v /\ r.round = n
TransferSetsSameRound(r, u) ==                 \* wrong: the round stays
    [r EXCEPT !.grabber = u, !.version = @ + 1]
TransferSets(r, u) == [r EXCEPT !.grabber = u, !.round = @ + 1, !.version = @ + 1]
RevertSetsKeepsPlace(r) ==                     \* wrong: slot_taken is not given back
    [Bump(r, "PUBLISHED") EXCEPT !.grabber = NoOne, !.round = @ + 1]
RevertSets(r) ==
    [Bump(r, "PUBLISHED") EXCEPT !.grabber = NoOne, !.round = @ + 1,
                                 !.taken = IF @ > 0 THEN @ - 1 ELSE 0]

PickUpHits(r, u, v) == r.status = "ACCEPTED" /\ r.grabber = u /\ r.version = v
PickUpSets(r) == Bump(r, "PICKED_UP")

DeliverHits(r, u, v) == r.status = "PICKED_UP" /\ r.grabber = u /\ r.version = v
DeliverSets(r) == Bump(r, "DELIVERED")

\* These three look at the status alone; the version argument is not used.
SettleHits(r) == r.status = "DELIVERED"
SettleFromDisputeHits(r) == r.status = "DISPUTED"
SettleSets(r, u) == [Bump(r, "SETTLED") EXCEPT !.settledBy = u]
SettleFromDisputeSets(r) == Bump(r, "SETTLED")
RefundHitsAnything(r) == TRUE                         \* wrong: no status in the WHERE clause
RefundFromDisputeHits(r) == r.status = "DISPUTED"
RefundFromDisputeSets(r) == Bump(r, "REFUNDED")

CancelHitsLocked(r, v) == r.status \in {"PUBLISHED", "LOCKED"}   \* wrong: LOCKED, no version
CancelHits(r, v) == r.status \in {"DRAFT", "PUBLISHED"} /\ r.version = v
CancelSets(r) == [Bump(r, "CANCELLED") EXCEPT !.taken = 0]

DisputeHits(r, v) ==
    r.status \in {"ACCEPTED", "PICKED_UP", "DELIVERED"} /\ r.version = v
DisputeSets(r) == Bump(r, "DISPUTED")
=============================================================================
