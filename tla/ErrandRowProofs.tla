-------------------------- MODULE ErrandRowProofs --------------------------
(***************************************************************************)
(* What the UPDATEs of ErrandRow leave behind: a row, in which status, with *)
(* which places and in which round.  The proofs about money and about      *)
(* grabbing both rest on these lemmas.                                     *)
(***************************************************************************)
EXTENDS ErrandRow, TLAPS

(* Types *)

LEMMA DraftType == Draft \in Errand
BY DEF Draft, Errand, Status

LEMMA FieldValues ==
    ASSUME NEW r \in Errand
    PROVE  /\ r.status \in Status /\ r.publisher \in Users \cup {NoOne}
           /\ r.grabber \in Users \cup {NoOne}
           /\ r.settledBy \in Operators \cup {NoOne}
           /\ r.taken \in Nat /\ r.round \in Nat /\ r.version \in Nat
BY DEF Errand

LEMMA FieldTypes ==
    ASSUME NEW r \in Errand, NEW s \in Status, NEW u \in Users \cup {NoOne}, NEW n \in Nat
    PROVE  /\ [r EXCEPT !.status = s] \in Errand
           /\ [r EXCEPT !.publisher = u] \in Errand
           /\ [r EXCEPT !.grabber = u] \in Errand
           /\ [r EXCEPT !.taken = n] \in Errand
           /\ [r EXCEPT !.round = n] \in Errand
           /\ [r EXCEPT !.version = n] \in Errand
BY DEF Errand

LEMMA SettledByType ==
    ASSUME NEW r \in Errand, NEW o \in Operators \cup {NoOne}
    PROVE  [r EXCEPT !.settledBy = o] \in Errand
BY DEF Errand

LEMMA BumpType ==
    ASSUME NEW r \in Errand, NEW s \in Status
    PROVE  Bump(r, s) \in Errand
<1>1. [r EXCEPT !.status = s] \in Errand
  BY FieldTypes, 0 \in Nat
<1>2. r.version + 1 \in Nat
  BY FieldValues
<1>. QED BY <1>1, <1>2, FieldTypes DEF Bump

LEMMA BumpTypes ==
    ASSUME NEW r \in Errand
    PROVE  /\ Bump(r, "LOCKED") \in Errand /\ Bump(r, "ACCEPTED") \in Errand
           /\ Bump(r, "PUBLISHED") \in Errand /\ Bump(r, "PICKED_UP") \in Errand
           /\ Bump(r, "DELIVERED") \in Errand /\ Bump(r, "SETTLED") \in Errand
           /\ Bump(r, "CANCELLED") \in Errand /\ Bump(r, "DISPUTED") \in Errand
           /\ Bump(r, "REFUNDED") \in Errand
BY BumpType DEF Status

LEMMA RunnerRowTypes ==
    ASSUME NEW r \in Errand, NEW u \in Users
    PROVE  /\ LockSets(r, u) \in Errand /\ TransferSets(r, u) \in Errand
           /\ [PublishSets(Draft) EXCEPT !.publisher = u] \in Errand
<1>1. LockSets(r, u) \in Errand
  <2>1. [Bump(r, "LOCKED") EXCEPT !.grabber = u] \in Errand
    BY BumpTypes, FieldTypes, 0 \in Nat DEF Status
  <2>2. Bump(r, "LOCKED").taken + 1 \in Nat
    BY BumpTypes, FieldValues
  <2>. QED BY <2>1, <2>2, FieldTypes DEF LockSets, Status
<1>2. TransferSets(r, u) \in Errand
  <2>1. r.round + 1 \in Nat /\ r.version + 1 \in Nat
    BY FieldValues
  <2>2. [r EXCEPT !.grabber = u] \in Errand
    BY FieldTypes, 0 \in Nat DEF Status
  <2>3. [[r EXCEPT !.grabber = u] EXCEPT !.round = r.round + 1] \in Errand
    BY <2>1, <2>2, FieldTypes DEF Status
  <2>. QED BY <2>1, <2>3, FieldTypes DEF TransferSets, Status
<1>3. [PublishSets(Draft) EXCEPT !.publisher = u] \in Errand
  BY BumpTypes, DraftType, FieldTypes, 0 \in Nat DEF PublishSets, Status
<1>. QED BY <1>1, <1>2, <1>3

LEMMA RowTypes ==
    ASSUME NEW r \in Errand
    PROVE  /\ AcceptSets(r) \in Errand /\ RevertSets(r) \in Errand
           /\ PickUpSets(r) \in Errand /\ DeliverSets(r) \in Errand
           /\ SettleFromDisputeSets(r) \in Errand /\ RefundFromDisputeSets(r) \in Errand
           /\ \A o \in Operators \cup {NoOne} : SettleSets(r, o) \in Errand
           /\ CancelSets(r) \in Errand /\ DisputeSets(r) \in Errand
<1>1. RevertSets(r) \in Errand
  <2> DEFINE p == Bump(r, "PUBLISHED")
             n == IF p.taken > 0 THEN p.taken - 1 ELSE 0
  <2>1. p.round + 1 \in Nat /\ p.taken \in Nat
    BY BumpTypes, FieldValues
  <2>2. n \in Nat
    <3>. HIDE DEF p
    <3>. QED BY <2>1
  <2>3. [p EXCEPT !.grabber = NoOne] \in Errand
    BY BumpTypes, FieldTypes, 0 \in Nat DEF Status
  <2>4. [[p EXCEPT !.grabber = NoOne] EXCEPT !.round = p.round + 1] \in Errand
    BY <2>1, <2>3, FieldTypes DEF Status
  <2>5. [[[p EXCEPT !.grabber = NoOne] EXCEPT !.round = p.round + 1] EXCEPT !.taken = n]
           \in Errand
    BY <2>2, <2>4, FieldTypes DEF Status
  <2>. QED BY <2>5 DEF RevertSets
<1>2. CancelSets(r) \in Errand
  BY BumpTypes, FieldTypes, 0 \in Nat DEF CancelSets, Status
<1>3. ASSUME NEW o \in Operators \cup {NoOne}
      PROVE  SettleSets(r, o) \in Errand
  BY BumpTypes, SettledByType DEF SettleSets
<1>. QED
  BY BumpTypes, <1>1, <1>2, <1>3
  DEF AcceptSets, PickUpSets, DeliverSets, SettleFromDisputeSets, RefundFromDisputeSets,
      DisputeSets

-----------------------------------------------------------------------------
(* What a row says afterwards *)

LEMMA StatusAfter ==
    ASSUME NEW r \in Errand, NEW u \in Users
    PROVE  /\ LockSets(r, u).status = "LOCKED" /\ AcceptSets(r).status = "ACCEPTED"
           /\ TransferSets(r, u).status = r.status
           /\ PickUpSets(r).status = "PICKED_UP" /\ DeliverSets(r).status = "DELIVERED"
           /\ DisputeSets(r).status = "DISPUTED"
           /\ LockSets(r, u).publisher = r.publisher
           /\ AcceptSets(r).publisher = r.publisher
           /\ TransferSets(r, u).publisher = r.publisher
           /\ PickUpSets(r).publisher = r.publisher
           /\ DeliverSets(r).publisher = r.publisher
           /\ DisputeSets(r).publisher = r.publisher
BY DEF Errand, Bump, LockSets, AcceptSets, TransferSets, PickUpSets,
       DeliverSets, DisputeSets

LEMMA EndStatusAfter ==
    ASSUME NEW r \in Errand, NEW o \in Operators \cup {NoOne}
    PROVE  /\ SettleSets(r, o).status = "SETTLED" /\ CancelSets(r).status = "CANCELLED"
           /\ SettleFromDisputeSets(r).status = "SETTLED"
           /\ RefundFromDisputeSets(r).status = "REFUNDED"
           /\ SettleSets(r, o).publisher = r.publisher
           /\ SettleFromDisputeSets(r).publisher = r.publisher
           /\ CancelSets(r).publisher = r.publisher
           /\ RefundFromDisputeSets(r).publisher = r.publisher
BY DEF Errand, Bump, SettleSets, SettleFromDisputeSets, CancelSets, RefundFromDisputeSets

LEMMA RevertAfter ==
    ASSUME NEW r \in Errand
    PROVE  RevertSets(r).status = "PUBLISHED" /\ RevertSets(r).publisher = r.publisher
BY DEF Errand, Bump, RevertSets

LEMMA PlaceAfter ==
    ASSUME NEW r \in Errand, NEW u \in Users
    PROVE  /\ LockSets(r, u).taken = r.taken + 1 /\ LockSets(r, u).grabber = u
           /\ TransferSets(r, u).taken = r.taken /\ TransferSets(r, u).grabber = u
           /\ AcceptSets(r).taken = r.taken /\ AcceptSets(r).grabber = r.grabber
           /\ RevertSets(r).taken = (IF r.taken > 0 THEN r.taken - 1 ELSE 0)
           /\ RevertSets(r).grabber = NoOne
           /\ CancelSets(r).taken = 0 /\ CancelSets(r).grabber = r.grabber
BY DEF Errand, Bump, LockSets, AcceptSets, TransferSets, RevertSets, CancelSets

\* Every UPDATE bumps the version; only the two that end a lock bump the round.
LEMMA CountersAfter ==
    ASSUME NEW r \in Errand, NEW u \in Users
    PROVE  /\ \A s \in {LockSets(r, u), AcceptSets(r), CancelSets(r)} :
                 s.round = r.round /\ s.version = r.version + 1
           /\ \A s \in {TransferSets(r, u), RevertSets(r)} :
                 s.round = r.round + 1 /\ s.version = r.version + 1
BY DEF Errand, Bump, LockSets, AcceptSets, TransferSets, RevertSets, CancelSets

LEMMA FirstRow ==
    ASSUME NEW u \in Users
    PROVE  LET r == [PublishSets(Draft) EXCEPT !.publisher = u] IN
           /\ r.status = "PUBLISHED" /\ r.publisher = u /\ r.grabber = NoOne
           /\ r.taken = 0 /\ r.round = 0 /\ r.version = 1
BY DEF PublishSets, Bump, Draft

LEMMA SameErrand ==
    ASSUME NEW r \in Errand, NEW s \in Errand, r.status = s.status,
           r.publisher = s.publisher, r.grabber = s.grabber,
           r.settledBy = s.settledBy, r.taken = s.taken, r.round = s.round,
           r.version = s.version
    PROVE  r = s
BY DEF Errand

\* The UPDATE of a transfer leaves out the status, which the aggregate writes again.
LEMMA NextRunnerIsDomain ==
    ASSUME NEW r \in Errand, NEW u \in Users, r.status = "LOCKED"
    PROVE  TransferSets(r, u) = TransferToNextRunner(r, u)
<1> DEFINE s == TransferSets(r, u)
           t == TransferToNextRunner(r, u)
<1>1. s \in Errand
  BY RunnerRowTypes
<1>2. t \in Errand
  <2> DEFINE b == Bump(r, "LOCKED")
  <2>1. b \in Errand /\ b.round + 1 \in Nat
    BY BumpTypes, FieldValues
  <2>2. [b EXCEPT !.grabber = u] \in Errand
    BY <2>1, FieldTypes, 0 \in Nat DEF Status
  <2>3. [[b EXCEPT !.grabber = u] EXCEPT !.round = b.round + 1] \in Errand
    BY <2>1, <2>2, FieldTypes DEF Status
  <2>. QED BY <2>3 DEF TransferToNextRunner, TransitTo, Bump
<1>3. s.status = t.status /\ s.publisher = t.publisher /\ s.grabber = t.grabber
      /\ s.settledBy = t.settledBy
      /\ s.taken = t.taken /\ s.round = t.round /\ s.version = t.version
  BY DEF TransferSets, TransferToNextRunner, TransitTo, Errand
<1>4. s = t
  <2>. HIDE DEF s, t
  <2>. QED BY <1>1, <1>2, <1>3, SameErrand
<1>. QED BY <1>4
=============================================================================
