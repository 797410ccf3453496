---------------------------- MODULE IntentProps -----------------------------
(***************************************************************************)
(* What the calls of IntentService and the tasks they make must keep,      *)
(* whatever the workers, the listener, Redis and the other calls do.       *)
(***************************************************************************)
EXTENDS IntentService

Finished(t) == run[t] = "over"
Stuck(t) == \E st \in Streams : t \in pending[st]
InStream(t) == \E st \in Streams : \E i \in DOMAIN stream[st] : stream[st][i] = t
Enqueued(t) == InStream(t) \/ run[t] # "none"

\* Types of the state of bus, streams, workers and calls.
TypeOK ==
    /\ \E case \in Cases : intent = case.calls /\ luck \in 0 .. case.luck
    /\ BusTypeOK /\ StreamTypeOK
    /\ at \in [Tasks -> Steps]
    /\ target \in [Tasks -> Tasks \cup {NoTask}]
    /\ heard \in [Tasks -> Tasks \cup {NoTask}]
    /\ turn \in [Tasks -> Nat] /\ turns \in [Sessions -> Nat]
    /\ idem \in [Fingerprints -> Tasks \cup {NoTask}]
    /\ excuse \subseteq ({"unprotected"} \X Fingerprints) \cup ({"overwritten", "expired"} \X Tasks)

\* An event reaches a subscriber once, although the API process both publishes to
\* the channel and listens to it (the two task.queued of redis_stream_queue.py:223).
DeliveredOnce ==
    \A q \in Queues : \A i, j \in DOMAIN inbox[q] : inbox[q][i] = inbox[q][j] => i = j

\* A queue is registered with the bus exactly while a call waits or a socket is
\* open; a socket whose peer hung up stays until the next event (connection.py:40).
SubscribersAccounted ==
    \A s \in Sessions : subscribers[s] =
        {c \in Tasks : Session(c) = s /\ at[c] \in {"waiting", "watching", "gone"}}

\* A waiting call may be told the result of another task (server.py:277), but only
\* of its own session, and only of a task a worker has answered with a reply.
AnswerWithinSession ==
    \A c \in Tasks : heard[c] # NoTask =>
        Session(heard[c]) = Session(c) /\ verdict[heard[c]] = "reply"

\* Two tasks of one fingerprint are only made when the key expired in between or a
\* command on it failed, so a repeated order is not carried out twice otherwise.
RepeatsRunOnce ==
    \A t, u \in Tasks :
        t # u /\ Fingerprint(t) = Fingerprint(u) /\ Enqueued(t) /\ Enqueued(u)
        => <<"unprotected", Fingerprint(t)>> \in excuse

\* A task whose handler ended has a final status, which is what a call falls back on
\* when the event is lost; except when the late "queued" of its own request wrote over
\* it, when it expired, or when a failed command left its message pending for good.
FinishedIsRecorded ==
    \A t \in Tasks : Finished(t) =>
        \/ status[t] \in Terminal
        \/ Stuck(t)
        \/ <<"overwritten", t>> \in excuse \/ <<"expired", t>> \in excuse

\* The concurrency of a worker caps what it runs of each stream: COUNT of XREADGROUP is
\* per stream, so both together reach twice the "cap" redis_stream_queue.py:114 speaks of.
ConcurrencyBound ==
    \A w \in Workers, st \in Streams :
        Cardinality({t \in slots[w] \cap pending[st] : Live(t)}) <= Concurrency

Unanswered(t) == verdict[t] = "none"
Phase(t) == CASE InStream(t) -> "waiting"
              [] ~Unanswered(t) -> "answered"
              [] Unanswered(t) /\ run[t] \in {"taken", "running"} -> "held"
              [] Unanswered(t) /\ run[t] = "over" /\ t \in dead -> "dead"
              [] Unanswered(t) /\ (run[t] = "lost" \/ (run[t] = "over" /\ t \notin dead)) -> "stranded"
              [] OTHER -> "unsent"
Handed(t) == IF run[t] = "none" THEN 0 ELSE Deliveries(t)

Lifecycle == INSTANCE TaskLifecycle WITH
    phase  <- [t \in Tasks |-> Phase(t)],
    handed <- [t \in Tasks |-> Handed(t)],
    luck   <- luck

\* The safety half of at least once delivery: through streams, pending lists, crashes and
\* restarts a task is accepted and answered at most once, only a failed call or a crash
\* strands it, and it is dead only after MaxDeliveries deliveries.  The other half, that a
\* stranded task is delivered again, is Lifecycle!FairSpec, and the code does not keep it:
\* it never takes Lifecycle!Redeliver (NeverRedelivered in IntentProofs).
ImplementsLifecycle == Lifecycle!Spec

-----------------------------------------------------------------------------
(* Fairness: the event loop of a live process runs every handler that can    *)
(* go on, time passes for a waiting call, and a worker that went down is     *)
(* started again.  No fault, expiry, stop, hang-up or event is promised.     *)

Proceeds(c) ==
    /\ UNCHANGED intent
    /\ \/ Reserve(c, "ok") \/ Reuse(c) \/ EnqueueAnyway(c, "ok") \/ CountTurn(c, "ok")
       \/ KeepTurn(c, "ok") \/ Enqueue(c, "ok") \/ MarkQueued(c, "ok") \/ Announce(c)
       \/ Receive(c) \/ Poll(c, "ok") \/ Deadline(c)

Works(w) ==
    /\ UNCHANGED <<intent, apiVars>>
    /\ \/ Take(w, "ok") \/ Reap(w) \/ Exit(w) \/ Restart(w)
       \/ \E t \in Tasks : \/ Begin(w, t, "ok") \/ HandleIntent(w, t, "reply")
                           \/ SetDone(w, t, "ok") \/ SetFailed(w, t, "ok") \/ Ack(w, t, "ok")

FairSpec == /\ Spec
            /\ \A c \in Tasks : WF_vars(Proceeds(c))
            /\ \A w \in Workers : WF_vars(Works(w))

\* With finitely many calls everything comes to rest: no call hangs, whatever was lost
\* on the way, and no task waits for ever in either stream, as the large one is read
\* although the normal one comes first and stopped or crashed workers come back.
EverythingSettles ==
    <>[](\A c \in Tasks : ~InStream(c) /\ at[c] \in {"idle", "accepted", "watching", "gone", "end"})
=============================================================================
