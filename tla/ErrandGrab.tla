----------------------------- MODULE ErrandGrab -----------------------------
(***************************************************************************)
(* Grabbing one errand and losing it again: GrabErrandUseCase with the two *)
(* Lua scripts over Redis, the database compare-and-set behind them        *)
(* (GrabTransactionalStep), and TimeoutTransferUseCase, which hands an     *)
(* unconfirmed errand to the next candidate or opens it again.  Redis and  *)
(* MySQL are two stores with no common transaction: a Lua script, a Redis  *)
(* command and a database transaction are one action each, and a request   *)
(* or a handler can stop between any two of them.                          *)
(*                                                                         *)
(* Definitions marked "wrong:" are not part of the model: each is a bug    *)
(* this code could have had, kept to test that the properties notice it.   *)
(***************************************************************************)
EXTENDS ErrandRow, Integers, FiniteSets

CONSTANTS Requests,          \* requestIds of grab calls
          RunnerOf,          \* [Requests -> Users]
          Publisher,         \* publisher of the errand
          Handlers,          \* threads in handleTimeout: message consumer, scan job
          MaxTransferRounds, \* dash.timeout.max-transfer-rounds
          RoundBound,        \* bound of the model: no grab after this round
          FaultBound,        \* bound of the model on crashes and failed calls
          KeysExpire         \* whether Redis keys reach their TTL (7 days, 300 s)

ASSUME RequestsAssumption == RunnerOf \in [Requests -> Users] /\ Publisher \in Users
ASSUME BoundsAssumption ==
    /\ MaxTransferRounds \in Nat /\ RoundBound \in Nat /\ FaultBound \in Nat
    /\ KeysExpire \in BOOLEAN

VARIABLES row,       \* the errand row
          records,   \* grab_record: [round, seq, runner]
          messages,  \* rounds with a confirm-timeout row in local_message
          due,       \* rounds whose confirmation window has elapsed
          slot,      \* errand:slot:{id}, NoKey when absent
          grabbed,   \* errand:grabbed:{id}
          idem,      \* errand:idem:{id}:{requestId}: "none", "won" (1) or "lost" (0)
          waiting,   \* errand:candidates:{id}; the order of the scores is abstracted
          grab,      \* what each request remembers
          handler,   \* what each timeout handler remembers
          faults     \* faults so far

redis == <<slot, grabbed, idem, waiting>>
database == <<row, records, messages>>
vars == <<row, records, messages, due, slot, grabbed, idem, waiting, grab, handler, faults>>

NoKey == -1          \* what remainingSlot answers for an absent key

Records == [round : Nat, seq : Nat, runner : Users]

Idle == [at |-> "idle"]
Reading(at, r) == [at |-> at, seen |-> r]
Blank(at) == Reading(at, Draft)        \* what was read no longer matters

GrabSteps == {"lost", "read", "lock", "schedule", "reply", "undo", "fail"}
HandlerSteps == {"poll", "pop", "transfer", "offer", "revert", "giveBack"}

Grabs == [at : GrabSteps, seen : Errand] \cup {Idle}
Handles == [at : HandlerSteps, seen : Errand, next : Users \cup {NoOne}] \cup {Idle}

GrabTo(q, m) == grab' = [grab EXCEPT ![q] = m]
HandlerTo(h, m) == handler' = [handler EXCEPT ![h] = m]
HandlerAt(h, at) == handler' = [handler EXCEPT ![h].at = at]

Init ==
    /\ row = Draft /\ records = {} /\ messages = {} /\ due = {}
    /\ slot = NoKey /\ grabbed = {} /\ waiting = {}
    /\ idem = [q \in Requests |-> "none"]
    /\ grab = [q \in Requests |-> Idle]
    /\ handler = [h \in Handlers |-> Idle]
    /\ faults = 0

\* The publishing transaction ends with initSlot; nobody knows the id before it commits.
Publish ==
    /\ ~Persisted(row) /\ MayPublish(Draft) /\ PublishHits(Draft, Draft.version)
    /\ row' = [PublishSets(Draft) EXCEPT !.publisher = Publisher]
    /\ slot' = SlotTotal /\ grabbed' = {}
    /\ UNCHANGED <<records, messages, due, idem, waiting, grab, handler, faults>>

-----------------------------------------------------------------------------
(* The Lua scripts: grab.lua on request q, and rollback_slot.lua.  The     *)
(* answers ALREADY_GRABBED, DUPLICATE_REQUEST and NOT_GRABBABLE change     *)
(* nothing and end the call.                                               *)

AcquireSlot(q) ==
    /\ grab[q] = Idle /\ idem[q] = "none"
    /\ slot # NoKey /\ RunnerOf[q] \notin grabbed /\ slot > 0
    /\ slot' = slot - 1
    /\ grabbed' = grabbed \cup {RunnerOf[q]}
    /\ idem' = [idem EXCEPT ![q] = "won"]
    /\ GrabTo(q, Blank("read"))
    /\ UNCHANGED <<database, due, waiting, handler, faults>>

SlotFull(q) ==
    /\ grab[q] = Idle /\ idem[q] = "none"
    /\ slot # NoKey /\ RunnerOf[q] \notin grabbed /\ slot <= 0
    /\ idem' = [idem EXCEPT ![q] = "lost"]
    /\ GrabTo(q, Blank("lost"))
    /\ UNCHANGED <<database, due, slot, grabbed, waiting, handler, faults>>

\* The same request again, its first answer still remembered.
SlotFullAgain(q) ==
    /\ grab[q] = Idle /\ idem[q] = "lost"
    /\ GrabTo(q, Blank("lost"))
    /\ UNCHANGED <<database, due, redis, handler, faults>>

HoldsSlotIgnored(u) == TRUE        \* wrong: INCR whether or not SREM removed anything
HoldsSlot(u) == u \in grabbed

Rollback(u) ==
    /\ slot' = IF HoldsSlot(u) THEN (IF slot = NoKey THEN 1 ELSE slot + 1) ELSE slot
    /\ grabbed' = grabbed \ {u}

-----------------------------------------------------------------------------
(* GrabErrandUseCase.grab after the Lua answer *)

\* enqueueCandidate
Enqueue(q) ==
    /\ grab[q].at = "lost"
    /\ waiting' = waiting \cup {RunnerOf[q]}
    /\ GrabTo(q, Idle)
    /\ UNCHANGED <<database, due, slot, grabbed, idem, handler, faults>>

ReadRow(q) ==
    /\ grab[q].at = "read"
    /\ GrabTo(q, Reading("lock", row))
    /\ UNCHANGED <<database, due, redis, handler, faults>>

Record(q) == [round  |-> grab[q].seen.round, seq |-> grab[q].seen.taken + 1,
              runner |-> RunnerOf[q]]

\* the two unique keys of grab_record
RecordClash(q) ==
    \E r \in records : /\ r.round = Record(q).round
                       /\ r.seq = Record(q).seq \/ r.runner = Record(q).runner

CasHits(q) == LockHits(row, grab[q].seen.version)

\* lockAndRecord: the compare-and-set and the record in one transaction
LockTx(q) ==
    /\ grab[q].at = "lock" /\ CasHits(q) /\ ~RecordClash(q)
    /\ row.round <= RoundBound
    /\ row' = LockSets(row, RunnerOf[q])
    /\ records' = records \cup {Record(q)}
    /\ GrabTo(q, Reading("schedule", grab[q].seen))
    /\ UNCHANGED <<messages, due, redis, handler, faults>>

LockMissed(q) ==
    /\ grab[q].at = "lock" /\ ~(CasHits(q) /\ ~RecordClash(q))
    /\ GrabTo(q, Blank(IF CasHits(q) THEN "fail" ELSE "undo"))
    /\ UNCHANGED <<database, due, redis, handler, faults>>

\* scheduleFirstTimeout, a transaction of its own after the lock has committed
Schedule(q) ==
    /\ grab[q].at = "schedule"
    /\ messages' = messages \cup {grab[q].seen.round}
    /\ GrabTo(q, Blank("reply"))
    /\ UNCHANGED <<row, records, due, redis, handler, faults>>

Reply(q) ==
    /\ grab[q].at = "reply"
    /\ GrabTo(q, Idle)
    /\ UNCHANGED <<database, due, redis, handler, faults>>

Fault == faults < FaultBound /\ faults' = faults + 1

\* A RuntimeException anywhere after the Lua answer ends in the catch block, even
\* when the lock has committed.
GrabThrows(q) ==
    /\ grab[q].at \in {"read", "lock", "schedule", "reply"} /\ Fault
    /\ GrabTo(q, Blank("fail"))
    /\ UNCHANGED <<database, due, redis, handler>>

\* The slot goes back; after a conflict the runner also becomes a candidate.
GiveUp(q) ==
    /\ grab[q].at \in {"undo", "fail"}
    /\ Rollback(RunnerOf[q])
    /\ idem' = IF HoldsSlot(RunnerOf[q]) THEN [idem EXCEPT ![q] = "none"] ELSE idem
    /\ GrabTo(q, IF grab[q].at = "undo" THEN Blank("lost") ELSE Idle)
    /\ UNCHANGED <<database, due, waiting, handler, faults>>

GrabCrash(q) ==
    /\ grab[q] # Idle /\ Fault
    /\ GrabTo(q, Idle)
    /\ UNCHANGED <<database, due, redis, handler>>

-----------------------------------------------------------------------------
(* TimeoutTransferUseCase.handleTimeout, called with a round by the delayed *)
(* message of that round (once or more, however late) and by the scan for   *)
(* rows whose window has elapsed.                                           *)

Elapse ==
    /\ row.status = "LOCKED" /\ row.round \notin due
    /\ due' = due \cup {row.round}
    /\ UNCHANGED <<database, redis, grab, handler, faults>>

TimesOutLate(n) == row.status = "LOCKED"    \* wrong: a message of an earlier round counts
TimesOut(n) == row.status = "LOCKED" /\ row.round = n

Handle(h, n) ==
    /\ handler[h] = Idle /\ n \in due /\ TimesOut(n)
    /\ HandlerTo(h, [at   |-> IF row.round >= MaxTransferRounds THEN "revert" ELSE "poll",
                     seen |-> row, next |-> NoOne])
    /\ UNCHANGED <<database, due, redis, grab, faults>>

PollEmptyTransfers(h) ==           \* wrong: transfers to nobody
    /\ handler[h].at = "poll" /\ waiting = {}
    /\ HandlerAt(h, "transfer")
    /\ UNCHANGED <<database, due, redis, grab, faults>>

\* pollBest is ZRANGE and then ZREM, whose answer nobody looks at.
PollEmpty(h) ==
    /\ handler[h].at = "poll" /\ waiting = {}
    /\ HandlerAt(h, "revert")
    /\ UNCHANGED <<database, due, redis, grab, faults>>

Peek(h, u) ==
    /\ handler[h].at = "poll" /\ u \in waiting
    /\ HandlerTo(h, [handler[h] EXCEPT !.at = "pop", !.next = u])
    /\ UNCHANGED <<database, due, redis, grab, faults>>

Pop(h) ==
    /\ handler[h].at = "pop"
    /\ waiting' = waiting \ {handler[h].next}
    /\ HandlerAt(h, "transfer")
    /\ UNCHANGED <<database, due, slot, grabbed, idem, grab, faults>>

StillLockedNext(h) ==              \* wrong: the version after the update, as if already bumped
    LeaveLockHits(row, handler[h].seen.version + 1, handler[h].seen.round)
StillLocked(h) == LeaveLockHits(row, handler[h].seen.version, handler[h].seen.round)

TransferTxOldRound(h) ==           \* wrong: registers the round that just ended
    /\ handler[h].at = "transfer" /\ StillLocked(h)
    /\ row' = TransferSets(row, handler[h].next)
    /\ messages' = messages \cup {handler[h].seen.round}
    /\ HandlerTo(h, Idle)
    /\ UNCHANGED <<records, due, redis, grab, faults>>

\* The next round's message is registered in the transaction that transfers.
TransferTx(h) ==
    /\ handler[h].at = "transfer" /\ StillLocked(h)
    /\ row' = TransferSets(row, handler[h].next)
    /\ messages' = messages \cup {handler[h].seen.round + 1}
    /\ HandlerTo(h, Idle)
    /\ UNCHANGED <<records, due, redis, grab, faults>>

TransferMissed(h) ==
    /\ handler[h].at = "transfer" /\ ~StillLocked(h)
    /\ HandlerAt(h, "offer")
    /\ UNCHANGED <<database, due, redis, grab, faults>>

Reoffer(h) ==
    /\ handler[h].at = "offer"
    /\ waiting' = waiting \cup {handler[h].next}
    /\ HandlerTo(h, Idle)
    /\ UNCHANGED <<database, due, slot, grabbed, idem, grab, faults>>

RevertTx(h) ==
    /\ handler[h].at = "revert" /\ StillLocked(h)
    /\ row' = RevertSets(row)
    /\ HandlerAt(h, "giveBack")
    /\ UNCHANGED <<records, messages, due, redis, grab, faults>>

RevertMissed(h) ==
    /\ handler[h].at = "revert" /\ ~StillLocked(h)
    /\ HandlerTo(h, Idle)
    /\ UNCHANGED <<database, due, redis, grab, faults>>

\* The slot of the runner who held the errand at the reading, under the request
\* id "revert:round", which no idempotency key has.
GiveBack(h) ==
    /\ handler[h].at = "giveBack"
    /\ IF handler[h].seen.grabber \in Users
          THEN Rollback(handler[h].seen.grabber) ELSE UNCHANGED <<slot, grabbed>>
    /\ HandlerTo(h, Idle)
    /\ UNCHANGED <<database, due, idem, waiting, grab, faults>>

HandlerCrash(h) ==
    /\ handler[h] # Idle /\ Fault
    /\ HandlerTo(h, Idle)
    /\ UNCHANGED <<database, due, redis, grab>>

-----------------------------------------------------------------------------
(* The others *)

Confirm(u) ==
    /\ MayAccept(row, u) /\ AcceptHits(row, u, row.version)
    /\ row' = AcceptSets(row)
    /\ UNCHANGED <<records, messages, due, redis, grab, handler, faults>>

\* RefundErrandUseCase.cancelAndRefund leaves the Redis keys where they are.
Cancel ==
    /\ Persisted(row) /\ MayCancel(row, Publisher) /\ CancelHits(row, row.version)
    /\ row' = CancelSets(row)
    /\ UNCHANGED <<records, messages, due, redis, grab, handler, faults>>

SlotExpires ==
    /\ KeysExpire /\ slot # NoKey /\ slot' = NoKey
    /\ UNCHANGED <<database, due, grabbed, idem, waiting, grab, handler, faults>>

KeyExpires(q) ==
    /\ KeysExpire /\ idem[q] # "none" /\ idem' = [idem EXCEPT ![q] = "none"]
    /\ UNCHANGED <<database, due, slot, grabbed, waiting, grab, handler, faults>>

-----------------------------------------------------------------------------
Grabbing(q) ==
    \/ AcquireSlot(q) \/ SlotFull(q) \/ SlotFullAgain(q) \/ Enqueue(q)
    \/ ReadRow(q) \/ LockTx(q) \/ LockMissed(q) \/ Schedule(q) \/ Reply(q)
    \/ GrabThrows(q) \/ GiveUp(q) \/ GrabCrash(q) \/ KeyExpires(q)

HandlerStep(h) ==
    \/ PollEmpty(h) \/ Pop(h) \/ TransferTx(h) \/ TransferMissed(h) \/ Reoffer(h)
    \/ RevertTx(h) \/ RevertMissed(h) \/ GiveBack(h)
    \/ \E n \in due : Handle(h, n)
    \/ \E u \in Users : Peek(h, u)

Next ==
    \/ Publish \/ Elapse \/ Cancel \/ SlotExpires
    \/ \E u \in Users : Confirm(u)
    \/ \E q \in Requests : Grabbing(q)
    \/ \E h \in Handlers : HandlerStep(h) \/ HandlerCrash(h)

Spec == Init /\ [][Next]_vars

\* Time passes, and the scan is scheduled at a fixed delay whether or not the
\* message was lost, so a handler that can take a step takes it.
Fairness == WF_vars(Elapse) /\ \A h \in Handlers : WF_vars(HandlerStep(h))

FairSpec == Spec /\ Fairness
=============================================================================
