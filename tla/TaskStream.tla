----------------------------- MODULE TaskStream -----------------------------
(***************************************************************************)
(* RedisStreamTaskQueue and the worker processes that consume it           *)
(* (app/worker.py).  Two streams share one consumer group.  Reading ">"    *)
(* moves a message to the pending list of the group, where it stays until  *)
(* it is acknowledged; nothing ever reads the pending list again, as       *)
(* claim_stale has no caller.  The handler of a task writes its status     *)
(* around MainAgentOrchestrator.handle_intent, which always returns: its   *)
(* text is a reply, or an apology when it caught an exception.             *)
(***************************************************************************)
EXTENDS EventBus, FiniteSets

CONSTANTS Concurrency,     \* WORKER_CONCURRENCY
          MaxDeliveries    \* 3, no caller passes another

ASSUME StreamAssumption ==
    Concurrency \in Nat \ {0} /\ MaxDeliveries \in Nat \ {0}

Streams == {"normal", "large"}
States == {"absent", "queued", "running", "done", "failed"}
Terminal == {"done", "failed"}

VARIABLES intent,     \* [Tasks -> [session, query, mode]], fixed: the call behind a task
          stream,     \* [Streams -> Seq(Tasks)], not yet read by the group
          pending,    \* [Streams -> SUBSET Tasks], read and not acknowledged
          dead,       \* tasks in the dead-letter stream
          status,     \* [Tasks -> States]
          worker,     \* [Workers -> {"up", "stopping", "down"}]
          slots,      \* [Workers -> SUBSET Tasks], in_flight of consume
          run,        \* [Tasks -> RunSteps], where the handler of a task is
          verdict     \* [Tasks -> {"none", "reply", "apology"}], what it said

streamVars == <<stream, pending, dead, status, worker, slots, run, verdict>>

RunSteps == {"none", "taken", "running", "replied", "excused", "acking", "over", "lost"}
Live(t) == run[t] \in {"taken", "running", "replied", "excused", "acking"}

\* wrong: the end of a task is written under a name no reader asks for
SetStatusRenamed(t, s, o) ==
    status' = IF Effect(o) THEN [status EXCEPT ![t] = IF s = "done" THEN "finished" ELSE s]
              ELSE status

SetStatus(t, s, o) == status' = IF Effect(o) THEN [status EXCEPT ![t] = s] ELSE status

Add(t, st, o) ==
    stream' = IF Effect(o) THEN [stream EXCEPT ![st] = Append(@, t)] ELSE stream

\* wrong: a full batch is read whatever is in flight
FreeSlotsAlways(w) == Concurrency

FreeSlots(w) == IF Cardinality(slots[w]) < Concurrency
                THEN Concurrency - Cardinality(slots[w]) ELSE 0

\* wrong: the large stream is forgotten
CountNormal(st, n) == IF st = "large" THEN 0 ELSE IF Len(stream[st]) < n THEN Len(stream[st]) ELSE n

\* XREADGROUP applies COUNT to each stream.
Count(st, n) == IF Len(stream[st]) < n THEN Len(stream[st]) ELSE n

Batch(st, n) == {stream[st][i] : i \in 1 .. Count(st, n)}
Rest(st, n) == SubSeq(stream[st], Count(st, n) + 1, Len(stream[st]))

\* wrong: the position is "0", which also reads what is pending
ReadPending(n) == Batch("normal", n) \cup pending["normal"] \cup Batch("large", n)

Read(n) == Batch("normal", n) \cup Batch("large", n)

\* One turn of the loop reads; if the answer is lost the messages are pending all the same.
Take(w, o) ==
    /\ worker[w] = "up" /\ Effect(o)
    /\ LET n == FreeSlots(w)
           batch == Read(n)
       IN /\ batch # {}
          /\ stream' = [st \in Streams |-> Rest(st, n)]
          /\ pending' = [st \in Streams |-> pending[st] \cup Batch(st, n)]
          /\ slots' = IF Ok(o) THEN [slots EXCEPT ![w] = @ \cup batch] ELSE slots
          /\ run' = [t \in Tasks |-> IF t \notin batch THEN run[t]
                                     ELSE IF Ok(o) THEN "taken" ELSE "lost"]
    /\ Call(o)
    /\ UNCHANGED <<dead, status, worker, verdict, busVars>>

\* Finished handlers leave in_flight only when no slot is free or nothing was read.
Reap(w) ==
    /\ worker[w] = "up"
    /\ FreeSlots(w) = 0 \/ Read(Concurrency) = {}
    /\ \E t \in slots[w] : ~Live(t)
    /\ slots' = [slots EXCEPT ![w] = {t \in @ : Live(t)}]
    /\ UNCHANGED <<stream, pending, dead, status, worker, run, verdict, luck, busVars>>

At(w, t, step) == t \in slots[w] /\ run[t] = step
Goto(t, step) == run' = [run EXCEPT ![t] = step]

Acked(t) == [st \in Streams |-> pending[st] \ {t}]

\* _handle_one after an exception.  The message was delivered once: ">" never repeats it.
Deliveries(t) == 1

\* wrong: a message whose handler failed is acknowledged
ExceptedAcks(t) == Goto(t, "over") /\ pending' = Acked(t) /\ UNCHANGED dead

Excepted(t) ==
    /\ Goto(t, "over")
    /\ IF Deliveries(t) >= MaxDeliveries
       THEN pending' = Acked(t) /\ dead' = dead \cup {t}
       ELSE UNCHANGED <<pending, dead>>

Begin(w, t, o) ==
    /\ At(w, t, "taken")
    /\ SetStatus(t, "running", o) /\ Call(o)
    /\ IF Ok(o) THEN Goto(t, "running") /\ UNCHANGED <<pending, dead>>
                ELSE Excepted(t)
    /\ UNCHANGED <<stream, worker, slots, verdict, busVars>>

\* handle_intent publishes its result, and no result when it caught an exception, and
\* returns a text in both cases.
HandleIntent(w, t, said) ==
    /\ At(w, t, "running")
    /\ Goto(t, "replied")
    /\ verdict' = [verdict EXCEPT ![t] = said]
    /\ IF said = "reply" THEN Broadcast(w, TradeEvent(intent[t].session, "final.result", t))
                         ELSE UNCHANGED wire
    /\ UNCHANGED <<stream, pending, dead, status, worker, slots, luck,
                   subscribers, inbox, listening>>

SetDone(w, t, o) ==
    /\ At(w, t, "replied")
    /\ SetStatus(t, "done", o) /\ Call(o)
    /\ Goto(t, IF Ok(o) THEN "acking" ELSE "excused")
    /\ UNCHANGED <<stream, pending, dead, worker, slots, verdict, busVars>>

\* The except branch of handle: the exception it raises again reaches _handle_one.
SetFailed(w, t, o) ==
    /\ At(w, t, "excused")
    /\ SetStatus(t, "failed", o) /\ Call(o)
    /\ Excepted(t)
    /\ UNCHANGED <<stream, worker, slots, verdict, busVars>>

Ack(w, t, o) ==
    /\ At(w, t, "acking") /\ Effect(o)
    /\ pending' = Acked(t) /\ Goto(t, "over") /\ Call(o)
    /\ UNCHANGED <<stream, dead, status, worker, slots, verdict, busVars>>

AckRefused(w, t) ==
    /\ At(w, t, "acking")
    /\ Excepted(t) /\ Call("refused")
    /\ UNCHANGED <<stream, status, worker, slots, verdict, busVars>>

\* SIGTERM: no new message is read, what is in flight ends, then the process does.
RequestStop(w) ==
    /\ worker[w] = "up" /\ Mishap
    /\ worker' = [worker EXCEPT ![w] = "stopping"]
    /\ UNCHANGED <<stream, pending, dead, status, slots, run, verdict, busVars>>

Exit(w) ==
    /\ worker[w] = "stopping" /\ \A t \in slots[w] : ~Live(t)
    /\ worker' = [worker EXCEPT ![w] = "down"]
    /\ slots' = [slots EXCEPT ![w] = {}]
    /\ UNCHANGED <<stream, pending, dead, status, run, verdict, luck, busVars>>

Crash(w) ==
    /\ worker[w] # "down" /\ Mishap
    /\ worker' = [worker EXCEPT ![w] = "down"]
    /\ run' = [t \in Tasks |-> IF t \in slots[w] /\ Live(t) THEN "lost" ELSE run[t]]
    /\ slots' = [slots EXCEPT ![w] = {}]
    /\ UNCHANGED <<stream, pending, dead, status, verdict, busVars>>

Restart(w) ==
    /\ worker[w] = "down"
    /\ worker' = [worker EXCEPT ![w] = "up"]
    /\ UNCHANGED <<stream, pending, dead, status, slots, run, verdict, luck, busVars>>

StreamInit == /\ stream = [st \in Streams |-> << >>]
              /\ pending = [st \in Streams |-> {}] /\ dead = {}
              /\ status = [t \in Tasks |-> "absent"]
              /\ worker = [w \in Workers |-> "up"]
              /\ slots = [w \in Workers |-> {}]
              /\ run = [t \in Tasks |-> "none"]
              /\ verdict = [t \in Tasks |-> "none"]

Handling(w, t) ==
    \/ \E o \in Outcomes : Begin(w, t, o) \/ SetDone(w, t, o) \/ SetFailed(w, t, o) \/ Ack(w, t, o)
    \/ \E said \in {"reply", "apology"} : HandleIntent(w, t, said)
    \/ AckRefused(w, t)

StreamTypeOK ==
    /\ stream \in [Streams -> Seq(Tasks)]
    /\ pending \in [Streams -> SUBSET Tasks] /\ dead \subseteq Tasks
    /\ status \in [Tasks -> States]
    /\ worker \in [Workers -> {"up", "stopping", "down"}]
    /\ slots \in [Workers -> SUBSET Tasks]
    /\ run \in [Tasks -> RunSteps]
    /\ verdict \in [Tasks -> {"none", "reply", "apology"}]
=============================================================================
