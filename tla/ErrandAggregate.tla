-------------------------- MODULE ErrandAggregate --------------------------
(***************************************************************************)
(* What the domain model promises of an errand: a row only ever moves by   *)
(* one whole method of the aggregate Errand.java, checks included.  The    *)
(* use cases read the aggregate, check it and then write with SQL that     *)
(* repeats only part of the checks, with other transactions in between.    *)
(* ErrandGrab is shown to implement this specification; ErrandFunds all    *)
(* of it but the one check its settlement never makes, who settles.        *)
(***************************************************************************)
EXTENDS ErrandDomain

CONSTANT Errands

VARIABLE errand      \* [Errands -> Errand]

Becomes(e, r) == errand' = [errand EXCEPT ![e] = r]

Init == errand = [e \in Errands |-> Draft]

Publish(e, u) == MayPublish(errand[e]) /\ Becomes(e, PublishBy(errand[e], u))
Lock(e, u) == MayLock(errand[e]) /\ Becomes(e, LockBy(errand[e], u))
Accept(e, u) == MayAccept(errand[e], u) /\ Becomes(e, AcceptByRunner(errand[e]))
Transfer(e, u) == MayLeaveLock(errand[e]) /\ Becomes(e, TransferToNextRunner(errand[e], u))
Revert(e) == MayLeaveLock(errand[e]) /\ Becomes(e, RevertToPublished(errand[e]))
PickUp(e, u) == MayPickUp(errand[e], u) /\ Becomes(e, PickUpBy(errand[e]))
Deliver(e, u) == MayDeliver(errand[e], u) /\ Becomes(e, DeliverBy(errand[e]))
Settle(e, u) == MaySettle(errand[e], u) /\ Becomes(e, SettleBy(errand[e], u))
Cancel(e, u) == MayCancel(errand[e], u) /\ Becomes(e, CancelByPublisher(errand[e]))
Dispute(e, u) == MayDispute(errand[e], u) /\ Becomes(e, RaiseDispute(errand[e]))
Award(e) == MayArbitrate(errand[e]) /\ Becomes(e, ArbitrateToRunner(errand[e]))
Refund(e) == MayArbitrate(errand[e]) /\ Becomes(e, ArbitrateToPublisher(errand[e]))

Next ==
    \E e \in Errands :
        \/ Revert(e) \/ Award(e) \/ Refund(e)
        \/ \E u \in Operators : Settle(e, u)
        \/ \E u \in Users :
              \/ Publish(e, u) \/ Lock(e, u) \/ Accept(e, u) \/ Transfer(e, u)
              \/ PickUp(e, u) \/ Deliver(e, u) \/ Cancel(e, u) \/ Dispute(e, u)

Spec == Init /\ [][Next]_errand
=============================================================================
