-------------------------- MODULE ErrandGrabProofs --------------------------
(***************************************************************************)
(* What ErrandGrabProps says, proved for every set of users, requests and  *)
(* handlers, every number of places and of rounds, any number of faults,   *)
(* and whether or not the keys of Redis expire.                            *)
(***************************************************************************)
EXTENDS ErrandGrabProps, ErrandRowProofs, FiniteSetTheorems, TLAPS

(* The inductive invariant *)

\* A handler past ZRANGE has a runner to transfer the errand to.
NextChosen ==
    \A h \in Handlers :
        handler[h].at \in {"pop", "transfer", "offer"} => handler[h].next \in Users

\* A handler works on a round whose window has elapsed.
DueRemembered == \A h \in Handlers : handler[h] # Idle => handler[h].seen.round \in due

\* A request about to lock read the row as it is, or its version is gone by now.
ReadsTrue ==
    \A q \in Requests : grab[q].at = "lock" =>
        LET r == grab[q].seen IN r.version < row.version \/ r = row

\* SlotConservation, also while the key of the slots is gone: the first compensation
\* brings it back as 1, which is one place less than the runners who held one.
SlotsHeld ==
    /\ IsFiniteSet(grabbed)
    /\ (IF slot = NoKey THEN 0 ELSE slot) + Cardinality(grabbed) <= SlotTotal

\* Nobody has won a round to come, nor the one the errand is offered in.
RoundsWon ==
    \A r \in records :
        /\ r.round <= row.round
        /\ row.status \in {"DRAFT", "PUBLISHED"} => r.round < row.round

\* Until it is published the errand is the draft, and afterwards never a draft again.
DraftUntouched ==
    /\ ~Persisted(row) => row = Draft
    /\ Persisted(row) => row.status # "DRAFT"

GrabInv ==
    /\ TypeOK /\ NextChosen /\ DueRemembered /\ ReadsTrue /\ SlotsHeld /\ RoundsWon
    /\ DraftUntouched /\ PlaceAccounted /\ WinnerRecorded /\ TransferredIsProtected

-----------------------------------------------------------------------------
(* What requests and handlers remember *)

LEMMA GrabTypes ==
    ASSUME grab \in [Requests -> Grabs], NEW q \in Requests
    PROVE  /\ GrabTo(q, Idle) => grab' \in [Requests -> Grabs]
           /\ \A at \in GrabSteps, r \in Errand :
                 GrabTo(q, Reading(at, r)) => grab' \in [Requests -> Grabs]
           /\ \A at \in GrabSteps : GrabTo(q, Blank(at)) => grab' \in [Requests -> Grabs]
           /\ grab[q].at \in GrabSteps => grab[q].seen \in Errand
           /\ grab[q].at \in GrabSteps => grab[q] # Idle
<1>1. Idle \in Grabs /\ Idle.at \notin GrabSteps
  BY DEF Idle, Grabs, GrabSteps
<1>2. \A at \in GrabSteps, r \in Errand : Reading(at, r) \in Grabs
  BY DEF Reading, Grabs
<1>3. \A at \in GrabSteps : Blank(at) \in Grabs
  BY <1>2, DraftType DEF Blank
<1>4. grab[q].at \in GrabSteps => grab[q] \in [at : GrabSteps, seen : Errand]
  BY <1>1 DEF Grabs
<1>. QED BY <1>1, <1>2, <1>3, <1>4 DEF GrabTo

LEMMA HandlerTypes ==
    ASSUME handler \in [Handlers -> Handles], NEW h \in Handlers
    PROVE  /\ HandlerTo(h, Idle) => handler' \in [Handlers -> Handles]
           /\ \A at \in HandlerSteps, r \in Errand, u \in Users \cup {NoOne} :
                 HandlerTo(h, [at |-> at, seen |-> r, next |-> u])
                     => handler' \in [Handlers -> Handles]
           /\ \A at \in HandlerSteps :
                 handler[h].at \in HandlerSteps /\ HandlerAt(h, at)
                     => /\ handler' \in [Handlers -> Handles]
                        /\ handler'[h].at = at /\ handler'[h].seen = handler[h].seen
                        /\ handler'[h].next = handler[h].next
           /\ handler[h].at \in HandlerSteps =>
                 /\ handler[h].seen \in Errand /\ handler[h].next \in Users \cup {NoOne}
                 /\ handler[h] # Idle
<1>1. Idle \in Handles /\ Idle.at \notin HandlerSteps
  BY DEF Idle, Handles, HandlerSteps
<1>2. handler[h].at \in HandlerSteps
        => handler[h] \in [at : HandlerSteps, seen : Errand, next : Users \cup {NoOne}]
  BY <1>1 DEF Handles
<1>3. ASSUME NEW at \in HandlerSteps, handler[h].at \in HandlerSteps, HandlerAt(h, at)
      PROVE  /\ handler' \in [Handlers -> Handles]
             /\ handler'[h].at = at /\ handler'[h].seen = handler[h].seen
             /\ handler'[h].next = handler[h].next
  BY <1>2, <1>3 DEF HandlerAt, Handles
<1>. QED BY <1>1, <1>2, <1>3 DEF HandlerTo, Handles

-----------------------------------------------------------------------------
(* TypeOK *)

LEMMA GrabInvInit == Init => GrabInv
<1>. SUFFICES ASSUME Init PROVE GrabInv
  OBVIOUS
<1>1. TypeOK
  BY DraftType DEF Init, TypeOK, Grabs, Handles, NoKey
<1>2. NextChosen /\ DueRemembered /\ ReadsTrue
  BY DEF Init, NextChosen, DueRemembered, ReadsTrue, Idle
<1>3. SlotsHeld
  BY FS_EmptySet, SlotTotalAssumption DEF Init, SlotsHeld
<1>4. PlaceAccounted
  BY NoOneAssumption DEF Init, PlaceAccounted, Draft
<1>. QED
  BY <1>1, <1>2, <1>3, <1>4
  DEF Init, GrabInv, RoundsWon, DraftUntouched, WinnerRecorded, TransferredIsProtected, Draft,
      Persisted

LEMMA GrabbingTypes ==
    ASSUME TypeOK, NEW q \in Requests, Grabbing(q)
    PROVE  TypeOK'
<1>. /\ grab \in [Requests -> Grabs] /\ row \in Errand /\ slot \in Nat \cup {NoKey}
     /\ RunnerOf[q] \in Users /\ idem \in [Requests -> {"none", "won", "lost"}]
     /\ faults \in Nat /\ grabbed \subseteq Users
  BY RequestsAssumption DEF TypeOK
<1>1. CASE AcquireSlot(q)
  BY <1>1, GrabTypes DEF AcquireSlot, TypeOK, GrabSteps, NoKey, database
<1>2. CASE SlotFull(q) \/ SlotFullAgain(q) \/ Enqueue(q) \/ Reply(q) \/ KeyExpires(q)
  <2>1. grab' \in [Requests -> Grabs]
    BY <1>2, GrabTypes DEF SlotFull, SlotFullAgain, Enqueue, Reply, KeyExpires, GrabSteps
  <2>. QED
    BY <1>2, <2>1
    DEF SlotFull, SlotFullAgain, Enqueue, Reply, KeyExpires, TypeOK, database, redis
<1>3. CASE ReadRow(q)
  BY <1>3, GrabTypes DEF ReadRow, TypeOK, GrabSteps, database, redis
<1>4. CASE LockTx(q)
  <2>1. grab[q].seen \in Errand
    BY <1>4, GrabTypes DEF LockTx, GrabSteps
  <2>2. grab' \in [Requests -> Grabs]
    BY <1>4, <2>1, GrabTypes DEF LockTx, GrabSteps
  <2>3. row' \in Errand
    BY <1>4, RunnerRowTypes DEF LockTx
  <2>4. Record(q) \in Records
    BY <2>1, FieldValues DEF Record, Records
  <2>. QED BY <1>4, <2>2, <2>3, <2>4 DEF LockTx, TypeOK, redis
<1>5. CASE LockMissed(q)
  BY <1>5, GrabTypes DEF LockMissed, TypeOK, GrabSteps, database, redis
<1>6. CASE Schedule(q)
  <2>1. grab[q].seen.round \in Nat
    BY <1>6, GrabTypes, FieldValues DEF Schedule, GrabSteps
  <2>. QED BY <1>6, <2>1, GrabTypes DEF Schedule, TypeOK, GrabSteps, redis
<1>7. CASE GrabThrows(q) \/ GrabCrash(q)
  <2>1. grab' \in [Requests -> Grabs]
    BY <1>7, GrabTypes DEF GrabThrows, GrabCrash, GrabSteps
  <2>2. faults' \in Nat
    BY <1>7 DEF GrabThrows, GrabCrash, Fault
  <2>. QED BY <1>7, <2>1, <2>2 DEF GrabThrows, GrabCrash, Fault, TypeOK, database, redis
<1>8. CASE GiveUp(q)
  <2>1. grab' \in [Requests -> Grabs]
    BY <1>8, GrabTypes DEF GiveUp, GrabSteps
  <2>2. slot' \in Nat \cup {NoKey} /\ grabbed' \subseteq Users
    BY <1>8 DEF GiveUp, Rollback, NoKey
  <2>. QED BY <1>8, <2>1, <2>2 DEF GiveUp, TypeOK, database
<1>. QED BY <1>1, <1>2, <1>3, <1>4, <1>5, <1>6, <1>7, <1>8 DEF Grabbing

LEMMA HandlingTypes ==
    ASSUME TypeOK, NextChosen, NEW h \in Handlers, HandlerStep(h) \/ HandlerCrash(h)
    PROVE  TypeOK'
<1>. /\ handler \in [Handlers -> Handles] /\ row \in Errand /\ slot \in Nat \cup {NoKey}
     /\ waiting \subseteq Users /\ faults \in Nat /\ grabbed \subseteq Users
  BY DEF TypeOK
<1>1. CASE PollEmpty(h) \/ TransferMissed(h)
  <2>1. handler' \in [Handlers -> Handles]
    BY <1>1, HandlerTypes DEF PollEmpty, TransferMissed, HandlerSteps
  <2>. QED BY <1>1, <2>1 DEF PollEmpty, TransferMissed, TypeOK, database, redis
<1>2. CASE Pop(h) \/ Reoffer(h)
  <2>1. handler' \in [Handlers -> Handles]
    BY <1>2, HandlerTypes DEF Pop, Reoffer, HandlerSteps
  <2>2. waiting' \subseteq Users
    BY <1>2 DEF Pop, Reoffer, NextChosen
  <2>. QED BY <1>2, <2>1, <2>2 DEF Pop, Reoffer, TypeOK, database
<1>3. CASE TransferTx(h)
  <2>1. row' \in Errand
    BY <1>3, RunnerRowTypes DEF TransferTx, NextChosen
  <2>2. handler[h].seen.round + 1 \in Nat
    BY <1>3, HandlerTypes, FieldValues DEF TransferTx, HandlerSteps
  <2>3. handler' \in [Handlers -> Handles]
    BY <1>3, HandlerTypes DEF TransferTx
  <2>. QED BY <1>3, <2>1, <2>2, <2>3 DEF TransferTx, TypeOK, redis
<1>4. CASE RevertTx(h)
  <2>1. handler' \in [Handlers -> Handles]
    BY <1>4, HandlerTypes DEF RevertTx, HandlerSteps
  <2>2. row' \in Errand
    BY <1>4, RowTypes DEF RevertTx
  <2>. QED BY <1>4, <2>1, <2>2 DEF RevertTx, TypeOK, redis
<1>5. CASE RevertMissed(h) \/ HandlerCrash(h)
  BY <1>5, HandlerTypes DEF RevertMissed, HandlerCrash, Fault, TypeOK, database, redis
<1>6. CASE GiveBack(h)
  <2>1. slot' \in Nat \cup {NoKey} /\ grabbed' \subseteq Users
    BY <1>6 DEF GiveBack, Rollback, NoKey
  <2>. QED BY <1>6, <2>1, HandlerTypes DEF GiveBack, TypeOK, database
<1>7. ASSUME NEW n \in due, Handle(h, n)
      PROVE  TypeOK'
  <2>1. handler' \in [Handlers -> Handles]
    BY <1>7, HandlerTypes DEF Handle, HandlerSteps
  <2>. QED BY <1>7, <2>1 DEF Handle, TypeOK, database, redis
<1>8. ASSUME NEW u \in Users, Peek(h, u)
      PROVE  TypeOK'
  <2>1. handler[h] \in [at : HandlerSteps, seen : Errand, next : Users \cup {NoOne}]
    BY <1>8 DEF Peek, Handles, Idle
  <2>2. handler' \in [Handlers -> Handles]
    BY <1>8, <2>1 DEF Peek, HandlerTo, Handles, HandlerSteps
  <2>. QED BY <1>8, <2>2 DEF Peek, TypeOK, database, redis
<1>. QED
  BY <1>1, <1>2, <1>3, <1>4, <1>5, <1>6, <1>7, <1>8 DEF HandlerStep

LEMMA TypeStep ==
    ASSUME TypeOK, NextChosen, [Next]_vars
    PROVE  TypeOK'
<1>. row \in Errand /\ row.round \in Nat
  BY FieldValues DEF TypeOK
<1>1. CASE Publish
  BY <1>1, RunnerRowTypes, RequestsAssumption, SlotTotalAssumption DEF Publish, TypeOK
<1>2. CASE Elapse \/ SlotExpires
  BY <1>2 DEF Elapse, SlotExpires, TypeOK, database, redis
<1>3. CASE Cancel \/ \E u \in Users : Confirm(u)
  <2>1. row' \in Errand
    BY <1>3, RowTypes DEF Cancel, Confirm
  <2>. QED BY <1>3, <2>1 DEF Cancel, Confirm, TypeOK, redis
<1>4. CASE UNCHANGED vars
  BY <1>4 DEF vars, TypeOK
<1>. QED BY <1>1, <1>2, <1>3, <1>4, GrabbingTypes, HandlingTypes DEF Next

-----------------------------------------------------------------------------
(* What a step does to the row *)

\* All writes of the errand table and of the records.
RowMoves ==
    \/ Publish \/ Cancel
    \/ \E u \in Users : Confirm(u)
    \/ \E q \in Requests : LockTx(q)
    \/ \E h \in Handlers : TransferTx(h) \/ RevertTx(h)

LEMMA RowMovesOrStays ==
    ASSUME [Next]_vars
    PROVE  RowMoves \/ (UNCHANGED <<row, records>> /\ messages \subseteq messages')
<1>1. ASSUME NEW q \in Requests, Grabbing(q)
      PROVE  LockTx(q) \/ (UNCHANGED <<row, records>> /\ messages \subseteq messages')
  BY <1>1
  DEF Grabbing, AcquireSlot, SlotFull, SlotFullAgain, Enqueue, ReadRow, LockMissed,
      Schedule, Reply, GrabThrows, GiveUp, GrabCrash, KeyExpires, database
<1>2. ASSUME NEW h \in Handlers, HandlerStep(h) \/ HandlerCrash(h)
      PROVE  \/ TransferTx(h) \/ RevertTx(h)
             \/ UNCHANGED <<row, records>> /\ messages \subseteq messages'
  BY <1>2
  DEF HandlerStep, HandlerCrash, PollEmpty, Pop, TransferMissed, Reoffer, RevertMissed,
      GiveBack, Handle, Peek, database
<1>3. CASE Elapse \/ SlotExpires \/ UNCHANGED vars
  BY <1>3 DEF Elapse, SlotExpires, vars, database
<1>. QED BY <1>1, <1>2, <1>3 DEF Next, RowMoves

\* The compare-and-set of a lock hits the very row the request read.
LEMMA LockSeesRow ==
    ASSUME GrabInv, NEW q \in Requests, LockTx(q)
    PROVE  /\ grab[q].seen = row /\ row.status = "PUBLISHED" /\ row.taken < SlotTotal
           /\ row' = LockSets(row, RunnerOf[q]) /\ RunnerOf[q] \in Users
           /\ records' = records \cup {Record(q)}
           /\ Record(q).round = row.round /\ Record(q).runner = RunnerOf[q]
           /\ UNCHANGED messages
<1>1. row.version \in Nat /\ row.version = grab[q].seen.version
  BY FieldValues DEF GrabInv, TypeOK, LockTx, CasHits, LockHits
<1>2. grab[q].seen = row
  BY <1>1 DEF GrabInv, ReadsTrue, LockTx
<1>. QED
  BY <1>2, RequestsAssumption DEF LockTx, CasHits, LockHits, Record

\* A transfer or a revert hits the round the handler read, whose window has elapsed.
LEMMA LeavesRound ==
    ASSUME GrabInv, NEW h \in Handlers, TransferTx(h) \/ RevertTx(h)
    PROVE  /\ row.status = "LOCKED" /\ row.round = handler[h].seen.round /\ row.round \in due
           /\ UNCHANGED records
           /\ \/ /\ handler[h].next \in Users /\ row' = TransferSets(row, handler[h].next)
                 /\ messages' = messages \cup {row.round + 1}
              \/ row' = RevertSets(row) /\ UNCHANGED messages
<1>1. handler[h].at \in {"transfer", "revert"}
  BY DEF TransferTx, RevertTx
<1>2. handler[h] # Idle
  BY <1>1 DEF Idle
<1>. QED
  BY <1>1, <1>2
  DEF TransferTx, RevertTx, StillLocked, LeaveLockHits, GrabInv, DueRemembered, NextChosen

\* Every write of the row bumps its version.
LEMMA VersionGrows ==
    ASSUME GrabInv, RowMoves
    PROVE  row.version < row'.version
<1>. row \in Errand /\ row.version \in Nat
  BY FieldValues DEF GrabInv, TypeOK
<1>1. CASE Publish
  <2>1. row'.version = 1
    BY <1>1, FirstRow, RequestsAssumption DEF Publish
  <2>2. row.version = 0
    BY <1>1 DEF Publish, GrabInv, DraftUntouched, Draft
  <2>. QED BY <2>1, <2>2
<1>2. CASE Cancel
  <2>1. row'.version = row.version + 1
    BY <1>2, CountersAfter, RequestsAssumption DEF Cancel
  <2>. QED BY <2>1
<1>3. ASSUME NEW u \in Users, Confirm(u)
      PROVE  row.version < row'.version
  <2>1. row'.version = row.version + 1
    BY <1>3, CountersAfter DEF Confirm
  <2>. QED BY <2>1
<1>4. ASSUME NEW q \in Requests, LockTx(q)
      PROVE  row.version < row'.version
  <2>1. row'.version = row.version + 1
    BY <1>4, LockSeesRow, CountersAfter
  <2>. QED BY <2>1
<1>5. ASSUME NEW h \in Handlers, TransferTx(h) \/ RevertTx(h)
      PROVE  row.version < row'.version
  <2>1. row'.version = row.version + 1
    BY <1>5, LeavesRound, CountersAfter, RequestsAssumption
  <2>. QED BY <2>1
<1>. QED BY <1>1, <1>2, <1>3, <1>4, <1>5 DEF RowMoves

-----------------------------------------------------------------------------
(* What requests and handlers remember stays true *)

LEMMA ReadsStep ==
    ASSUME GrabInv, [Next]_vars
    PROVE  ReadsTrue'
<1>. SUFFICES ASSUME NEW q \in Requests, (grab[q].at)' = "lock"
              PROVE  (grab[q].seen.version < row.version \/ grab[q].seen = row)'
  BY DEF ReadsTrue
<1>. /\ grab \in [Requests -> Grabs] /\ row \in Errand /\ row.version \in Nat
  BY FieldValues DEF GrabInv, TypeOK
<1>1. \/ grab'[q] = grab[q]
      \/ grab'[q].seen = row /\ UNCHANGED row
  <2>1. CASE Publish \/ Elapse \/ Cancel \/ SlotExpires \/ UNCHANGED vars
             \/ \E u \in Users : Confirm(u)
    BY <2>1 DEF Publish, Elapse, Cancel, SlotExpires, vars, Confirm
  <2>2. ASSUME NEW h \in Handlers, HandlerStep(h) \/ HandlerCrash(h)
        PROVE  UNCHANGED grab
    BY <2>2
    DEF HandlerStep, HandlerCrash, PollEmpty, Pop, TransferTx, TransferMissed, Reoffer,
        RevertTx, RevertMissed, GiveBack, Handle, Peek
  <2>3. ASSUME NEW p \in Requests, Grabbing(p), p # q
        PROVE  grab'[q] = grab[q]
    BY <2>3
    DEF Grabbing, AcquireSlot, SlotFull, SlotFullAgain, Enqueue, ReadRow, LockTx,
        LockMissed, Schedule, Reply, GrabThrows, GiveUp, GrabCrash, KeyExpires, GrabTo
  <2>4. CASE Grabbing(q)
    <3>1. CASE ReadRow(q)
      BY <3>1 DEF ReadRow, GrabTo, Reading, database
    <3>2. CASE KeyExpires(q)
      BY <3>2 DEF KeyExpires
    <3>3. CASE ~ReadRow(q) /\ ~KeyExpires(q)
      BY <2>4, <3>3
      DEF Grabbing, AcquireSlot, SlotFull, SlotFullAgain, Enqueue, LockTx,
          LockMissed, Schedule, Reply, GrabThrows, GiveUp, GrabCrash, GrabTo,
          Idle, Blank, Reading
    <3>. QED BY <3>1, <3>2, <3>3
  <2>. QED BY <2>1, <2>2, <2>3, <2>4 DEF Next
<1>2. CASE UNCHANGED row
  BY <1>1, <1>2 DEF GrabInv, ReadsTrue
<1>3. CASE RowMoves
  <2>1. row.version < row'.version /\ row'.version \in Nat
    BY <1>3, VersionGrows, TypeStep, FieldValues DEF GrabInv, TypeOK
  <2>2. CASE grab'[q] = grab[q]
    <3>1. grab[q].seen.version < row.version \/ grab[q].seen = row
      BY <2>2 DEF GrabInv, ReadsTrue
    <3>2. grab[q].seen.version \in Nat
      BY <2>2, GrabTypes, FieldValues DEF GrabSteps
    <3>. QED BY <2>1, <2>2, <3>1, <3>2
  <2>3. CASE UNCHANGED row
    BY <2>1, <2>3
  <2>. QED BY <1>1, <2>2, <2>3
<1>. QED BY <1>2, <1>3, RowMovesOrStays

LEMMA HandlersStep ==
    ASSUME GrabInv, [Next]_vars
    PROVE  NextChosen' /\ DueRemembered'
<1>. SUFFICES ASSUME NEW h \in Handlers
              PROVE  /\ (handler[h].at \in {"pop", "transfer", "offer"}
                             => handler[h].next \in Users)'
                     /\ (handler[h] # Idle => handler[h].seen.round \in due)'
  BY DEF NextChosen, DueRemembered
<1>. handler \in [Handlers -> Handles]
  BY DEF GrabInv, TypeOK
<1>1. due \subseteq due'
  BY DEF Next, Publish, Elapse, Cancel, SlotExpires, vars, Confirm, HandlerStep, HandlerCrash,
     PollEmpty, Pop, TransferTx, TransferMissed, Reoffer, RevertTx, RevertMissed, GiveBack,
     Handle, Peek, Grabbing, AcquireSlot, SlotFull, SlotFullAgain, Enqueue, ReadRow, LockTx,
     LockMissed, Schedule, Reply, GrabThrows, GiveUp, GrabCrash, KeyExpires
<1>2. CASE handler'[h] = handler[h]
  BY <1>1, <1>2 DEF GrabInv, NextChosen, DueRemembered
<1>3. CASE handler'[h] = Idle
  BY <1>3 DEF Idle
<1>4. ASSUME NEW n \in due, Handle(h, n)
      PROVE  handler'[h].seen.round \in due /\ handler'[h].at \in {"revert", "poll"}
  BY <1>4 DEF Handle, HandlerTo, TimesOut
<1>5. ASSUME NEW u \in Users, Peek(h, u)
      PROVE  handler'[h].seen.round \in due /\ handler'[h].next \in Users
  <2>1. handler[h] # Idle
    BY <1>5 DEF Peek, Idle
  <2>2. handler[h] \in [at : HandlerSteps, seen : Errand, next : Users \cup {NoOne}]
    BY <2>1 DEF Handles
  <2>. QED BY <1>5, <2>1, <2>2 DEF Peek, HandlerTo, GrabInv, DueRemembered
<1>6. CASE PollEmpty(h) \/ RevertTx(h)
  <2>1. /\ handler'[h].at \in {"revert", "giveBack"} /\ handler[h] # Idle
        /\ handler'[h].seen = handler[h].seen
    BY <1>6, HandlerTypes DEF PollEmpty, RevertTx, HandlerSteps
  <2>. QED BY <1>1, <2>1 DEF GrabInv, DueRemembered
<1>7. CASE Pop(h) \/ TransferMissed(h)
  <2>1. /\ handler[h].at \in {"pop", "transfer"} /\ handler[h] # Idle
        /\ handler'[h].seen = handler[h].seen /\ handler'[h].next = handler[h].next
    BY <1>7, HandlerTypes DEF Pop, TransferMissed, HandlerSteps
  <2>. QED BY <1>1, <2>1 DEF GrabInv, DueRemembered, NextChosen
<1>8. CASE TransferTx(h) \/ Reoffer(h) \/ RevertMissed(h) \/ GiveBack(h) \/ HandlerCrash(h)
  BY <1>3, <1>8
  DEF TransferTx, Reoffer, RevertMissed, GiveBack, HandlerCrash, HandlerTo
<1>9. ASSUME NEW g \in Handlers, g # h, HandlerStep(g) \/ HandlerCrash(g)
      PROVE  handler'[h] = handler[h]
  BY <1>9
  DEF HandlerStep, HandlerCrash, PollEmpty, Pop, TransferTx, TransferMissed, Reoffer,
      RevertTx, RevertMissed, GiveBack, Handle, Peek, HandlerTo, HandlerAt
<1>10. CASE HandlerStep(h) \/ HandlerCrash(h)
  BY <1>1, <1>4, <1>5, <1>6, <1>7, <1>8, <1>10 DEF HandlerStep
<1>11. CASE \/ Publish \/ Elapse \/ Cancel \/ SlotExpires \/ UNCHANGED vars
            \/ \E u \in Users : Confirm(u)
            \/ \E q \in Requests : Grabbing(q)
  <2>1. UNCHANGED handler
    BY <1>11
    DEF Publish, Elapse, Cancel, SlotExpires, vars, Confirm, Grabbing, AcquireSlot,
        SlotFull, SlotFullAgain, Enqueue, ReadRow, LockTx, LockMissed, Schedule, Reply,
        GrabThrows, GiveUp, GrabCrash, KeyExpires
  <2>. QED BY <1>2, <2>1
<1>. QED BY <1>2, <1>9, <1>10, <1>11 DEF Next

-----------------------------------------------------------------------------
(* Redis: the places *)

LEMMA RollbackHolds ==
    ASSUME TypeOK, SlotsHeld, NEW u \in Users, Rollback(u)
    PROVE  SlotsHeld'
<1> DEFINE n == IF slot = NoKey THEN 0 ELSE slot
<1>. n \in Nat /\ Cardinality(grabbed) \in Nat /\ SlotTotal \in Nat
  BY FS_CardinalityType, SlotTotalAssumption DEF TypeOK, SlotsHeld, NoKey
<1>1. n + Cardinality(grabbed) <= SlotTotal
  BY DEF SlotsHeld
<1>2. CASE u \in grabbed
  <2>1. IsFiniteSet(grabbed') /\ Cardinality(grabbed') = Cardinality(grabbed) - 1
    BY <1>2, FS_RemoveElement DEF Rollback, SlotsHeld
  <2>2. slot' = n + 1 /\ slot' # NoKey
    BY <1>2 DEF Rollback, HoldsSlot, NoKey, TypeOK
  <2>. HIDE DEF n
  <2>. QED BY <1>1, <2>1, <2>2 DEF SlotsHeld
<1>3. CASE u \notin grabbed
  BY <1>3 DEF Rollback, HoldsSlot, SlotsHeld
<1>. QED BY <1>2, <1>3

LEMMA SlotsStep ==
    ASSUME GrabInv, [Next]_vars
    PROVE  SlotsHeld'
<1>. /\ TypeOK /\ SlotsHeld /\ slot \in Nat \cup {NoKey}
     /\ Cardinality(grabbed) \in Nat /\ SlotTotal \in Nat
  BY FS_CardinalityType, SlotTotalAssumption DEF GrabInv, TypeOK, SlotsHeld
<1>1. CASE UNCHANGED <<slot, grabbed>>
  BY <1>1 DEF SlotsHeld
<1>2. CASE Publish
  BY <1>2, FS_EmptySet DEF Publish, SlotsHeld, NoKey
<1>3. CASE SlotExpires
  BY <1>3 DEF SlotExpires, SlotsHeld, NoKey
<1>4. ASSUME NEW q \in Requests, AcquireSlot(q)
      PROVE  SlotsHeld'
  <2>1. /\ IsFiniteSet(grabbed')
        /\ Cardinality(grabbed') = Cardinality(grabbed) + 1
    BY <1>4, FS_AddElement DEF AcquireSlot, SlotsHeld
  <2>2. slot \in Nat /\ slot > 0 /\ slot' = slot - 1 /\ slot' # NoKey
    BY <1>4 DEF AcquireSlot, NoKey
  <2>3. slot + Cardinality(grabbed) <= SlotTotal
    BY <1>4 DEF AcquireSlot, SlotsHeld
  <2>. QED BY <2>1, <2>2, <2>3 DEF SlotsHeld
<1>5. ASSUME NEW q \in Requests, GiveUp(q)
      PROVE  SlotsHeld'
  BY <1>5, RollbackHolds, RequestsAssumption DEF GiveUp
<1>6. ASSUME NEW h \in Handlers, GiveBack(h)
      PROVE  SlotsHeld'
  BY <1>1, <1>6, RollbackHolds DEF GiveBack
<1>7. ASSUME NEW q \in Requests, Grabbing(q)
      PROVE  AcquireSlot(q) \/ GiveUp(q) \/ UNCHANGED <<slot, grabbed>>
  BY <1>7
  DEF Grabbing, SlotFull, SlotFullAgain, Enqueue, ReadRow, LockTx, LockMissed, Schedule,
      Reply, GrabThrows, GrabCrash, KeyExpires, redis
<1>8. ASSUME NEW h \in Handlers, HandlerStep(h) \/ HandlerCrash(h)
      PROVE  GiveBack(h) \/ UNCHANGED <<slot, grabbed>>
  BY <1>8
  DEF HandlerStep, HandlerCrash, PollEmpty, Pop, TransferTx, TransferMissed, Reoffer,
      RevertTx, RevertMissed, Handle, Peek, redis
<1>9. CASE Elapse \/ Cancel \/ (\E u \in Users : Confirm(u)) \/ UNCHANGED vars
  BY <1>1, <1>9 DEF Elapse, Cancel, Confirm, vars, redis
<1>. QED BY <1>1, <1>2, <1>3, <1>4, <1>5, <1>6, <1>7, <1>8, <1>9 DEF Next

-----------------------------------------------------------------------------
(* MySQL: the row, the records and the timeouts registered *)

RowInv ==
    /\ RoundsWon /\ DraftUntouched /\ PlaceAccounted /\ WinnerRecorded
    /\ TransferredIsProtected

LEMMA RowStays ==
    ASSUME RowInv, UNCHANGED <<row, records>>, messages \subseteq messages'
    PROVE  RowInv'
BY DEF RowInv, RoundsWon, DraftUntouched, PlaceAccounted, WinnerRecorded,
       TransferredIsProtected

LEMMA PublishStep == ASSUME GrabInv, Publish PROVE RowInv'
<1>1. /\ row'.status = "PUBLISHED" /\ row'.publisher = Publisher /\ row'.grabber = NoOne
      /\ row'.taken = 0 /\ row'.round = 0
  BY FirstRow, RequestsAssumption DEF Publish
<1>2. row = Draft /\ UNCHANGED records
  BY DEF GrabInv, DraftUntouched, Publish
<1>3. \A r \in records : r.round < 0
  BY <1>2 DEF GrabInv, RoundsWon, Draft
<1>4. records = {}
  BY <1>3 DEF GrabInv, TypeOK, Records
<1>5. Persisted(row')
  BY <1>1, NoOneAssumption, RequestsAssumption DEF Persisted
<1>. QED
  BY <1>1, <1>2, <1>4, <1>5, NoOneAssumption
  DEF RowInv, RoundsWon, DraftUntouched, PlaceAccounted, WinnerRecorded,
      TransferredIsProtected, Persisted

LEMMA LockStep ==
    ASSUME GrabInv, NEW q \in Requests, LockTx(q)
    PROVE  RowInv'
<1>. /\ row \in Errand /\ row.round \in Nat /\ row.status = "PUBLISHED"
     /\ \A r \in records : r.round \in Nat /\ r.round < row.round
  BY LockSeesRow, FieldValues DEF GrabInv, TypeOK, Records, RoundsWon
<1>1. /\ row'.status = "LOCKED" /\ row'.publisher = row.publisher
      /\ row'.grabber = RunnerOf[q] /\ RunnerOf[q] \in Users
      /\ row'.taken = row.taken + 1 /\ row'.round = row.round
  BY LockSeesRow, StatusAfter, PlaceAfter, CountersAfter
<1>2. /\ records' = records \cup {Record(q)} /\ Record(q).round = row.round
      /\ Record(q).runner = RunnerOf[q]
  BY LockSeesRow
<1>3. RoundsWon'
  BY <1>1, <1>2 DEF RoundsWon
<1>4. DraftUntouched'
  BY <1>1 DEF GrabInv, DraftUntouched, Persisted, Draft
<1>5. PlaceAccounted'
  BY <1>1 DEF GrabInv, PlaceAccounted
<1>6. WinnerRecorded'
  BY <1>1, <1>2 DEF GrabInv, WinnerRecorded
<1>7. TransferredIsProtected'
  BY <1>1, <1>2 DEF TransferredIsProtected
<1>. QED BY <1>3, <1>4, <1>5, <1>6, <1>7 DEF RowInv

LEMMA LeaveStep ==
    ASSUME GrabInv, NEW h \in Handlers, TransferTx(h) \/ RevertTx(h)
    PROVE  RowInv'
<1>. /\ row \in Errand /\ row.round \in Nat /\ row.status = "LOCKED" /\ UNCHANGED records
     /\ \A r \in records : r.round \in Nat /\ r.round <= row.round
  BY LeavesRound, FieldValues DEF GrabInv, TypeOK, Records, RoundsWon
<1>1. /\ row'.status \in {"LOCKED", "PUBLISHED"} /\ row'.publisher = row.publisher
      /\ row'.round = row.round + 1
  <2>1. CASE handler[h].next \in Users /\ row' = TransferSets(row, handler[h].next)
    BY <2>1, StatusAfter, CountersAfter
  <2>2. CASE row' = RevertSets(row)
    BY <2>2, RevertAfter, CountersAfter, RequestsAssumption
  <2>. QED BY <2>1, <2>2, LeavesRound
<1>2. RoundsWon'
  <2>1. \A r \in records : r.round <= row'.round /\ r.round < row'.round
    BY <1>1
  <2>. QED BY <2>1 DEF RoundsWon
<1>3. DraftUntouched'
  BY <1>1 DEF GrabInv, DraftUntouched, Persisted, Draft
<1>4. row.taken = 1
  BY DEF GrabInv, PlaceAccounted
<1>5. PlaceAccounted'
  <2>1. CASE handler[h].next \in Users /\ row' = TransferSets(row, handler[h].next)
    BY <1>4, <2>1, PlaceAfter, StatusAfter DEF PlaceAccounted
  <2>2. CASE row' = RevertSets(row)
    <3>1. row'.taken = 0 /\ row'.grabber = NoOne /\ row'.status = "PUBLISHED"
      BY <1>4, <2>2, PlaceAfter, RevertAfter, RequestsAssumption
    <3>. QED BY <3>1, NoOneAssumption DEF PlaceAccounted
  <2>. QED BY <2>1, <2>2, LeavesRound
<1>6. WinnerRecorded'
  BY <1>1 DEF GrabInv, WinnerRecorded
<1>7. TransferredIsProtected'
  <2>1. CASE messages' = messages \cup {row.round + 1}
    BY <1>1, <2>1 DEF TransferredIsProtected
  <2>2. CASE row' = RevertSets(row)
    BY <2>2, RevertAfter DEF TransferredIsProtected
  <2>. QED BY <2>1, <2>2, LeavesRound
<1>. QED BY <1>2, <1>3, <1>5, <1>6, <1>7 DEF RowInv

LEMMA AcceptOrCancelStep ==
    ASSUME GrabInv, Cancel \/ \E u \in Users : Confirm(u)
    PROVE  RowInv'
<1>. row \in Errand
  BY DEF GrabInv, TypeOK
<1>1. /\ row'.publisher = row.publisher /\ row'.round = row.round
      /\ row'.grabber = row.grabber /\ UNCHANGED records
      /\ \/ row.status = "LOCKED" /\ row'.status = "ACCEPTED" /\ row'.taken = row.taken
         \/ row.status = "PUBLISHED" /\ row'.status = "CANCELLED" /\ row'.taken = 0
  <2>1. CASE Cancel
    <3>1. row.status = "PUBLISHED"
      BY <2>1 DEF Cancel, CancelHits, Persisted, GrabInv, DraftUntouched, Draft
    <3>. QED
      BY <2>1, <3>1, EndStatusAfter, PlaceAfter, CountersAfter, RequestsAssumption DEF Cancel
  <2>2. ASSUME NEW u \in Users, Confirm(u)
        PROVE  /\ row.status = "LOCKED" /\ row' = AcceptSets(row) /\ UNCHANGED records
    BY <2>2 DEF Confirm, AcceptHits
  <2>. QED BY <2>1, <2>2, StatusAfter, PlaceAfter, CountersAfter, RequestsAssumption
<1>2. DraftUntouched'
  BY <1>1 DEF GrabInv, DraftUntouched, Persisted, Draft
<1>3. RoundsWon' /\ WinnerRecorded' /\ TransferredIsProtected'
  BY <1>1 DEF GrabInv, RoundsWon, WinnerRecorded, TransferredIsProtected
<1>4. PlaceAccounted'
  BY <1>1 DEF GrabInv, PlaceAccounted
<1>. QED BY <1>2, <1>3, <1>4 DEF RowInv

LEMMA GrabInvStep == GrabInv /\ [Next]_vars => GrabInv'
<1>. SUFFICES ASSUME GrabInv, [Next]_vars PROVE GrabInv'
  OBVIOUS
<1>1. TypeOK' /\ NextChosen' /\ DueRemembered' /\ ReadsTrue' /\ SlotsHeld'
  BY TypeStep, HandlersStep, ReadsStep, SlotsStep DEF GrabInv
<1>2. RowInv'
  BY RowMovesOrStays, RowStays, PublishStep, LockStep, LeaveStep, AcceptOrCancelStep
  DEF RowMoves, GrabInv, RowInv
<1>. QED BY <1>1, <1>2 DEF GrabInv, RowInv

-----------------------------------------------------------------------------
(* The theorems *)

LEMMA GrabSafe == Spec => []GrabInv
BY GrabInvInit, GrabInvStep, PTL DEF Spec

\* Both stores, and what requests and handlers remember, stay in their ranges.
THEOREM GrabTypesSafe == Spec => []TypeOK
<1>1. GrabInv => TypeOK
  BY DEF GrabInv
<1>. QED BY <1>1, GrabSafe, PTL

\* INV-1 of grab.lua, for any number of places: compensations repeated by several
\* threads, crashes between the stores and expiring keys never invent a place.
THEOREM SlotsSafe == Spec => []SlotConservation
<1>1. GrabInv => SlotConservation
  <2>. SUFFICES ASSUME GrabInv, slot # NoKey
                PROVE  slot + Cardinality(grabbed) <= SlotTotal
    BY DEF SlotConservation
  <2>. QED BY DEF GrabInv, SlotsHeld
<1>. QED BY <1>1, GrabSafe, PTL

\* The row counts the place it gave away and names its holder exactly while it is
\* LOCKED or ACCEPTED, whoever locks, confirms, cancels, transfers or reverts.
THEOREM PlacesSafe == Spec => []PlaceAccounted
<1>1. GrabInv => PlaceAccounted
  BY DEF GrabInv
<1>. QED BY <1>1, GrabSafe, PTL

\* grab_record has at most one winner a round, and he is the holder for as long as
\* the round lasts, for any number of requests locking on rows read long before.
THEOREM WinnersSafe == Spec => []WinnerRecorded
<1>1. GrabInv => WinnerRecorded
  BY DEF GrabInv
<1>. QED BY <1>1, GrabSafe, PTL

\* An errand locked by a transfer always has the timeout of its round registered.
THEOREM TransfersSafe == Spec => []TransferredIsProtected
<1>1. GrabInv => TransferredIsProtected
  BY DEF GrabInv
<1>. QED BY <1>1, GrabSafe, PTL

\* No handler, whatever round it was called with and however late it writes, ends a
\* lock whose own confirmation window has not elapsed.
THEOREM WindowsSafe == Spec => WindowRespected
<1>1. ASSUME GrabInv, [Next]_vars, row.status = "LOCKED", row'.round # row.round
      PROVE  row.round \in due
  <2>. row \in Errand
    BY <1>1 DEF GrabInv, TypeOK
  <2>1. RowMoves
    BY <1>1, RowMovesOrStays
  <2>2. ~Publish
    BY <1>1 DEF Publish, GrabInv, DraftUntouched, Draft
  <2>3. ~Cancel /\ ~(\E u \in Users : Confirm(u))
    BY <1>1, CountersAfter, RequestsAssumption DEF Cancel, Confirm
  <2>4. ~(\E q \in Requests : LockTx(q))
    BY <1>1, LockSeesRow
  <2>. QED BY <1>1, <2>1, <2>2, <2>3, <2>4, LeavesRound DEF RowMoves
<1>2. ASSUME GrabInv, [Next]_vars
      PROVE  [row.status = "LOCKED" /\ row'.round # row.round => row.round \in due]_vars
  BY <1>1, <1>2
<1>. QED BY <1>2, GrabSafe, PTL DEF Spec, WindowRespected

-----------------------------------------------------------------------------
(* The row implements the aggregate *)

LEMMA BecomesRow ==
    ASSUME NEW r, row' = r
    PROVE  Aggregate!Becomes("errand", r)
BY DEF Aggregate!Becomes

LEMMA RowMoveIsMethod ==
    ASSUME GrabInv, RowMoves
    PROVE  Aggregate!Next
<1>. row \in Errand
  BY DEF GrabInv, TypeOK
<1>1. CASE Publish
  <2>1. row = Draft /\ Publisher \in Users
    BY <1>1, RequestsAssumption DEF Publish, GrabInv, DraftUntouched
  <2>2. MayPublish(row) /\ row' = PublishBy(row, Publisher)
    BY <1>1, <2>1 DEF Publish, MayPublish, Persisted, PublishSets, PublishBy, Bump, TransitTo
  <2>3. Aggregate!Publish("errand", Publisher)
    BY <2>2, BecomesRow
    DEF Aggregate!Publish, MayPublish, Aggregate!MayPublish, Persisted, Aggregate!Persisted,
        CanTransit, Aggregate!CanTransit, Transitions, Aggregate!Transitions,
        PublishBy, Aggregate!PublishBy, TransitTo, Aggregate!TransitTo
  <2>. QED BY <2>1, <2>3 DEF Aggregate!Next
<1>2. CASE Cancel
  <2>1. Aggregate!Cancel("errand", Publisher)
    BY <1>2, BecomesRow
    DEF Cancel, MayCancel, CancelSets, Bump, Aggregate!Cancel, Aggregate!MayCancel,
        Aggregate!CancelByPublisher, Aggregate!TransitTo
  <2>. QED BY <2>1, RequestsAssumption DEF Aggregate!Next
<1>3. ASSUME NEW u \in Users, Confirm(u)
      PROVE  Aggregate!Next
  <2>1. Aggregate!Accept("errand", u)
    BY <1>3, BecomesRow
    DEF Confirm, MayAccept, CanTransit, Transitions, AcceptSets, Bump, Aggregate!Accept,
        Aggregate!MayAccept, Aggregate!CanTransit, Aggregate!Transitions,
        Aggregate!AcceptByRunner, Aggregate!TransitTo
  <2>. QED BY <2>1 DEF Aggregate!Next
<1>4. ASSUME NEW q \in Requests, LockTx(q)
      PROVE  Aggregate!Next
  <2>1. Aggregate!Lock("errand", RunnerOf[q])
    BY <1>4, BecomesRow, LockSeesRow
    DEF LockSets, Bump, Aggregate!Lock, Aggregate!MayLock, Aggregate!LockBy,
        Aggregate!TransitTo
  <2>. QED BY <1>4, <2>1, LockSeesRow DEF Aggregate!Next
<1>5. ASSUME NEW h \in Handlers, TransferTx(h) \/ RevertTx(h)
      PROVE  Aggregate!Next
  <2>1. CASE handler[h].next \in Users /\ row' = TransferSets(row, handler[h].next)
    <3>1. Aggregate!Transfer("errand", handler[h].next)
      BY <1>5, <2>1, BecomesRow, LeavesRound, NextRunnerIsDomain
      DEF Aggregate!Transfer, Aggregate!MayLeaveLock, Aggregate!TransferToNextRunner,
          Aggregate!TransitTo, TransferToNextRunner, TransitTo
    <3>. QED BY <2>1, <3>1 DEF Aggregate!Next
  <2>2. CASE row' = RevertSets(row)
    <3>1. Aggregate!Revert("errand")
      BY <1>5, <2>2, BecomesRow, LeavesRound
      DEF RevertSets, Bump, Aggregate!Revert, Aggregate!MayLeaveLock,
          Aggregate!RevertToPublished, Aggregate!TransitTo
    <3>. QED BY <3>1 DEF Aggregate!Next
  <2>. QED BY <1>5, <2>1, <2>2, LeavesRound
<1>. QED BY <1>1, <1>2, <1>3, <1>4, <1>5 DEF RowMoves

\* Grabbing, confirming, cancelling and timing out move the row by whole methods of
\* the domain aggregate only, although they write on rows read long before: ErrandGrab
\* implements ErrandAggregate, for any number of requests and handlers.
THEOREM GrabAggregateImplemented == Spec => ImplementsAggregate
<1> DEFINE errand == [e \in {"errand"} |-> row]
<1>1. Init => Aggregate!Init
  BY DEF Init, Aggregate!Init, Draft, Aggregate!Draft
<1>2. GrabInv /\ [Next]_vars => [Aggregate!Next]_errand
  <2>. SUFFICES ASSUME GrabInv, [Next]_vars, errand' # errand
                PROVE  Aggregate!Next
    OBVIOUS
  <2>1. row' # row
    OBVIOUS
  <2>. QED BY <2>1, RowMovesOrStays, RowMoveIsMethod
<1>. QED BY <1>1, <1>2, GrabSafe, PTL DEF Spec, ImplementsAggregate, Aggregate!Spec
=============================================================================
