--------------------------- MODULE IntentService ----------------------------
(***************************************************************************)
(* The API process (app/presentation/server.py) in front of the queue:     *)
(* POST /commerce/intents, which waits for the worker, its asynchronous    *)
(* form with GET /commerce/tasks/{id}, and the WebSocket of                *)
(* /commerce/events.  A client is one such call and its task, if it makes  *)
(* one, has the client as its id.  Between any two commands to Redis the   *)
(* workers, the other requests and the listener get in.                    *)
(***************************************************************************)
EXTENDS TaskStream

CONSTANTS Queries,
          Cases,          \* what to look at: an intent for every task and a number of mishaps
          LargeTurns,     \* QUEUE_LARGE_REQUEST_TURNS
          NoTask

ASSUME ServiceAssumption ==
    /\ Cases \subseteq [calls : [Tasks -> [session : Sessions, query : Queries,
                                        mode : {"sync", "async", "socket"}]],
                       luck : Nat]
    /\ NoTask \notin Tasks
    /\ Queues = Tasks /\ IsFiniteSet(Tasks) /\ LargeTurns \in Nat

Session(c) == intent[c].session
Fingerprint(c) == <<Session(c), intent[c].query>>
Fingerprints == Sessions \X Queries

VARIABLES at,         \* [Tasks -> steps of a call]
          target,     \* [Tasks -> Tasks \cup {NoTask}], the task whose end the call waits for
          heard,      \* [Tasks -> Tasks \cup {NoTask}], the task whose result event was the answer
          turn,       \* [Tasks -> Nat], the turn number a call has read
          idem,       \* [Fingerprints -> Tasks \cup {NoTask}], the idempotency keys
          turns,      \* [Sessions -> Nat], the turn counters; 0 is absent
          excuse      \* history: what explains a broken promise about a task or a fingerprint

apiVars == <<at, target, heard, turn, idem, turns, excuse>>
vars == <<intent, luck, busVars, streamVars, apiVars>>

Steps == {"idle", "previous", "count", "keep", "add", "mark", "announce", "waiting",
          "accepted", "watching", "gone", "end"}

Step(c, from, to) == at[c] = from /\ at' = [at EXCEPT ![c] = to]

\* However else a call ends, with a status, a time-out, a 404 or a 500, is all the same later.
End(c) == /\ at' = [at EXCEPT ![c] = "end"] /\ target' = [target EXCEPT ![c] = NoTask]
          /\ UNCHANGED heard
Excused(why, x) == excuse' = excuse \cup {<<why, x>>}
ApiOnly == UNCHANGED <<streamVars, busVars>>

\* wrong: the key is written whether or not it is there
AcquiredAnyway(c, o) == TRUE

\* SET NX of the idempotency key; a failing Redis counts as having got it.
Acquired(c, o) == ~Ok(o) \/ idem[Fingerprint(c)] = NoTask

Reserve(c, o) ==
    /\ intent[c].mode # "socket"
    /\ Step(c, "idle", IF Acquired(c, o) THEN "count" ELSE "previous")
    /\ idem' = IF Effect(o) /\ idem[Fingerprint(c)] = NoTask
               THEN [idem EXCEPT ![Fingerprint(c)] = c] ELSE idem
    /\ IF Ok(o) THEN UNCHANGED excuse ELSE Excused("unprotected", Fingerprint(c))
    /\ Call(o) /\ ApiOnly /\ UNCHANGED <<target, heard, turn, turns>>

\* The tail of both endpoints: wait for task t, or hand out its id.
WaitFor(c, t, subs) ==
    /\ target' = [target EXCEPT ![c] = t]
    /\ IF intent[c].mode = "sync"
       THEN /\ at' = [at EXCEPT ![c] = "waiting"]
            /\ subscribers' = [subs EXCEPT ![Session(c)] = @ \cup {c}]
       ELSE /\ at' = [at EXCEPT ![c] = "accepted"]
            /\ subscribers' = subs

\* The key was taken: its task is reused, unless it cannot be read any more.
Reuse(c) ==
    /\ at[c] = "previous" /\ idem[Fingerprint(c)] # NoTask
    /\ WaitFor(c, idem[Fingerprint(c)], subscribers)
    /\ UNCHANGED <<streamVars, inbox, wire, listening, luck,
                   heard, turn, idem, turns, excuse>>

EnqueueAnyway(c, o) ==
    /\ ~Ok(o) \/ idem[Fingerprint(c)] = NoTask
    /\ Step(c, "previous", "count")
    /\ Excused("unprotected", Fingerprint(c))
    /\ Call(o) /\ ApiOnly /\ UNCHANGED <<target, heard, turn, idem, turns>>

\* _queue_priority reads the counter and writes it back in two commands; both swallow errors.
CountTurn(c, o) ==
    /\ Step(c, "count", "keep")
    /\ turn' = [turn EXCEPT ![c] = IF Ok(o) THEN turns[Session(c)] + 1 ELSE 1]
    /\ Call(o) /\ ApiOnly /\ UNCHANGED <<target, heard, idem, turns, excuse>>

KeepTurn(c, o) ==
    /\ Step(c, "keep", "add")
    /\ turns' = IF Effect(o) THEN [turns EXCEPT ![Session(c)] = turn[c]] ELSE turns
    /\ Call(o) /\ ApiOnly /\ UNCHANGED <<target, heard, turn, idem, excuse>>

Priority(c) == IF turn[c] >= LargeTurns THEN "large" ELSE "normal"

Enqueue(c, o) ==
    /\ at[c] = "add"
    /\ Add(c, Priority(c), o) /\ Call(o)
    /\ turn' = [turn EXCEPT ![c] = 0]
    /\ IF Ok(o) THEN Step(c, "add", "mark") /\ UNCHANGED <<target, heard>> ELSE End(c)
    /\ UNCHANGED <<pending, dead, status, worker, slots, run, verdict, busVars,
                   idem, turns, excuse>>

\* Written when the message is already visible: a worker may have gone further.
MarkQueued(c, o) ==
    /\ at[c] = "mark"
    /\ SetStatus(c, "queued", o) /\ Call(o)
    /\ IF Ok(o) THEN Step(c, "mark", "announce") /\ UNCHANGED <<target, heard>> ELSE End(c)
    /\ IF Effect(o) /\ status[c] \in Terminal THEN Excused("overwritten", c) ELSE UNCHANGED excuse
    /\ UNCHANGED <<stream, pending, dead, worker, slots, run, verdict, busVars, turn, idem, turns>>

\* Published before the call subscribes, so the call itself does not see it.
Announce(c) ==
    /\ at[c] = "announce"
    /\ LET e == TradeEvent(Session(c), "task.queued", c) IN
       inbox' = Delivered(e, subscribers) /\ Broadcast(Api, e)
    /\ WaitFor(c, c, subscribers)
    /\ UNCHANGED <<streamVars, listening, luck,
                   heard, turn, idem, turns, excuse>>

\* wrong: only what the call got an answer for is unsubscribed
ReturnLeaking(c) ==
    End(c) /\ IF status[target[c]] \in Terminal THEN Unsubscribe(c) ELSE UNCHANGED <<subscribers, inbox>>

\* _await_result leaves by a return or an exception, in both cases through finally.
Return(c) == End(c) /\ Unsubscribe(c)

Receive(c) ==
    /\ at[c] = "waiting" /\ inbox[c] # << >>
    /\ LET e == Head(inbox[c]) IN
       IF e.type = "final.result"
       THEN /\ Unsubscribe(c)
            /\ at' = [at EXCEPT ![c] = "end"] /\ target' = [target EXCEPT ![c] = NoTask]
            /\ heard' = [heard EXCEPT ![c] = e.task]
       ELSE inbox' = [inbox EXCEPT ![c] = Tail(@)] /\ UNCHANGED <<subscribers, at, target, heard>>
    /\ UNCHANGED <<streamVars, wire, listening, luck, turn, idem, turns, excuse>>

\* Two seconds without an event: the status is the fallback.
Poll(c, o) ==
    /\ at[c] = "waiting" /\ inbox[c] = << >>
    /\ ~Ok(o) \/ status[target[c]] \in Terminal
    /\ Return(c) /\ Call(o)
    /\ UNCHANGED <<streamVars, wire, listening, turn, idem, turns, excuse>>

Deadline(c) ==
    /\ at[c] = "waiting"
    /\ Return(c)
    /\ UNCHANGED <<streamVars, wire, listening, luck, turn, idem, turns, excuse>>

\* GET /commerce/tasks/{id}: the caller of the asynchronous form asks until the task is over.
Ask(c, o) ==
    /\ at[c] = "accepted"
    /\ ~Ok(o) \/ status[target[c]] \in Terminal \cup {"absent"}
    /\ End(c)
    /\ Call(o) /\ ApiOnly /\ UNCHANGED <<turn, idem, turns, excuse>>

\* ConnectionManager.serve
Connect(c) ==
    /\ intent[c].mode = "socket" /\ Step(c, "idle", "watching")
    /\ Subscribe(c, Session(c))
    /\ UNCHANGED <<streamVars, inbox, wire, listening, luck,
                   target, heard, turn, idem, turns, excuse>>

Hangup(c) ==
    /\ Step(c, "watching", "gone")
    /\ UNCHANGED <<streamVars, busVars, luck,
                   target, heard, turn, idem, turns, excuse>>

\* Only sending the next event shows that nobody is there any more.
Push(c) ==
    /\ at[c] \in {"watching", "gone"} /\ inbox[c] # << >>
    /\ IF at[c] = "gone" THEN Return(c)
       ELSE inbox' = [inbox EXCEPT ![c] = Tail(@)] /\ UNCHANGED <<subscribers, at, target, heard>>
    /\ UNCHANGED <<streamVars, wire, listening, luck, turn, idem, turns, excuse>>

\* The API process dies with its requests; a new one starts, and the keys stay in Redis.
ApiRestart ==
    /\ \E c \in Tasks : at[c] \notin {"idle", "end"}
    /\ Mishap /\ BusRestarts
    /\ LET cut == {c \in Tasks : at[c] \notin {"idle", "end", "accepted"}} IN
       /\ at' = [c \in Tasks |-> IF c \in cut THEN "end" ELSE at[c]]
       /\ target' = [c \in Tasks |-> IF c \in cut THEN NoTask ELSE target[c]]
       /\ turn' = [c \in Tasks |-> 0]
    /\ UNCHANGED <<streamVars, heard, idem, turns, excuse>>

\* 600 s after the reservation
KeyExpires(f) ==
    /\ idem[f] # NoTask /\ Mishap
    /\ idem' = [idem EXCEPT ![f] = NoTask]
    /\ Excused("unprotected", f)
    /\ UNCHANGED <<busVars, streamVars, at, target, heard, turn, turns>>

\* 3600 s after its last write: longer than any call waits and any key points at it
StatusExpires(t) ==
    /\ status[t] # "absent" /\ Mishap
    /\ ~Live(t) /\ idem[Fingerprint(t)] # t
    /\ \A c \in Tasks : target[c] = t => at[c] # "waiting"
    /\ status' = [status EXCEPT ![t] = "absent"]
    /\ Excused("expired", t)
    /\ UNCHANGED <<busVars, stream, pending, dead, worker, slots, run, verdict,
                   at, target, heard, turn, idem, turns>>

Init == /\ \E case \in Cases : intent = case.calls /\ luck = case.luck
        /\ BusInit /\ StreamInit
        /\ at = [c \in Tasks |-> "idle"]
        /\ target = [c \in Tasks |-> NoTask]
        /\ heard = [c \in Tasks |-> NoTask]
        /\ turn = [c \in Tasks |-> 0]
        /\ idem = [f \in Fingerprints |-> NoTask]
        /\ turns = [s \in Sessions |-> 0]
        /\ excuse = {}

Request(c) ==
    \/ \E o \in Outcomes : \/ Reserve(c, o) \/ EnqueueAnyway(c, o) \/ CountTurn(c, o)
                           \/ KeepTurn(c, o) \/ Enqueue(c, o) \/ MarkQueued(c, o)
                           \/ Poll(c, o) \/ Ask(c, o)
    \/ Reuse(c) \/ Announce(c) \/ Receive(c) \/ Deadline(c)
    \/ Connect(c) \/ Hangup(c) \/ Push(c)

Working(w) ==
    /\ UNCHANGED apiVars
    /\ \/ \E o \in Outcomes : Take(w, o)
       \/ Reap(w) \/ RequestStop(w) \/ Exit(w) \/ Crash(w) \/ Restart(w)
       \/ \E t \in Tasks : Handling(w, t)

Listening ==
    /\ UNCHANGED <<streamVars, apiVars>>
    /\ \/ \E m \in wire : \/ Forward(m) /\ UNCHANGED luck
                          \/ LoseBroadcast(m) /\ Mishap
       \/ ListenerFails /\ Mishap

Next == /\ UNCHANGED intent
        /\ \/ \E c \in Tasks : Request(c)
           \/ \E w \in Workers : Working(w)
           \/ Listening \/ ApiRestart
           \/ \E f \in Fingerprints : KeyExpires(f)
           \/ \E t \in Tasks : StatusExpires(t)

Spec == Init /\ [][Next]_vars
=============================================================================
