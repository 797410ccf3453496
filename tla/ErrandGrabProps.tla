--------------------------- MODULE ErrandGrabProps ---------------------------
(***************************************************************************)
(* What must be true of grabbing and timing out in ErrandGrab.             *)
(***************************************************************************)
EXTENDS ErrandGrab

\* The ranges of both stores and of what requests and handlers remember.
TypeOK ==
    /\ row \in Errand /\ records \subseteq Records
    /\ messages \subseteq Nat /\ due \subseteq Nat
    /\ slot \in Nat \cup {NoKey} /\ grabbed \subseteq Users /\ waiting \subseteq Users
    /\ idem \in [Requests -> {"none", "won", "lost"}]
    /\ grab \in [Requests -> Grabs]
    /\ handler \in [Handlers -> Handles]
    /\ faults \in Nat

\* INV-1 of grab.lua: places left and runners holding one never exceed the places
\* of the errand, through compensations repeated by several threads, crashes
\* between the two stores and keys that expire under a compensation.
SlotConservation ==
    slot # NoKey => slot + Cardinality(grabbed) <= SlotTotal

\* The database counts the place it gave away: one exactly while somebody holds or
\* has confirmed the errand, and the holder column is NULL otherwise (ck_slot).
PlaceAccounted ==
    /\ row.taken = (IF row.status \in {"LOCKED", "ACCEPTED"} THEN 1 ELSE 0)
    /\ row.grabber \in Users <=> row.status \in {"LOCKED", "ACCEPTED"}

\* grab_record tells who won: at most one winner a round, and as long as that round
\* lasts the winner is the holder, although requests lock on rows read long before.
WinnerRecorded ==
    /\ \A r1, r2 \in records : r1.round = r2.round => r1 = r2
    /\ row.status \in {"LOCKED", "ACCEPTED"} =>
          \A r \in records : r.round = row.round => r.runner = row.grabber

\* "A transfer and the next timeout are atomic, or the errand is stuck without
\* protection" (TimeoutTransferStep.java): a row LOCKED by a transfer, that is in a
\* round nobody won, has the timeout of that round in local_message.
TransferredIsProtected ==
    row.status = "LOCKED" /\ (\A r \in records : r.round # row.round)
        => row.round \in messages

\* A runner loses a lock only after the window of that very round has elapsed:
\* messages of earlier rounds, duplicated or late, never cut a later one short.
WindowRespected ==
    [][row.status = "LOCKED" /\ row'.round # row.round => row.round \in due]_vars

\* The SQL repeats only part of the domain checks and runs long after the row was
\* read; still the row moves by whole methods of the aggregate only.
Aggregate == INSTANCE ErrandAggregate WITH
    Errands <- {"errand"}, errand <- [e \in {"errand"} |-> row]

ImplementsAggregate == Aggregate!Spec

\* "An errand cannot stay LOCKED for ever with its money frozen" (the comment of
\* findConfirmTimeout): every lock ends in a confirmation, a transfer or a revert.
LockEnds ==
    \A n \in 0..(RoundBound + MaxTransferRounds + 1) :
        (row.status = "LOCKED" /\ row.round = n) ~> ~(row.status = "LOCKED" /\ row.round = n)

-----------------------------------------------------------------------------
(* What comments of the code say and the code does not do. *)

\* "Revert to PUBLISHED and return the Redis slot, both, or the errand shows as
\* grabbable and nobody can grab it" (TimeoutTransferUseCase.revertAndReturnSlot).
Quiet == (\A q \in Requests : grab[q] = Idle) /\ (\A h \in Handlers : handler[h] = Idle)
PublishedIsGrabbable ==
    row.status = "PUBLISHED" /\ Quiet => slot # NoKey /\ slot > 0

\* "The same requestId again gets the success of its first submission"
\* (GrabErrandUseCase, DUPLICATE_REQUEST): while grab.lua would answer so, the first
\* submission is either recorded as a winner or still under way.
DuplicateIsTrue ==
    \A q \in Requests :
        idem[q] = "won" =>
            grab[q] # Idle \/ (\E r \in records : r.runner = RunnerOf[q])
=============================================================================
