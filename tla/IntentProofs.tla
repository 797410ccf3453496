---------------------------- MODULE IntentProofs -----------------------------
(***************************************************************************)
(* What IntentProps says of calls and their tasks, proved for every finite *)
(* set of calls, any sessions, queries and workers, any concurrency and    *)
(* any number of mishaps.                                                  *)
(***************************************************************************)
EXTENDS IntentProps, FiniteSetTheorems, TLAPS

-----------------------------------------------------------------------------
(* Calls and what they are about *)

IntentOK ==
    /\ intent \in [Tasks -> [session : Sessions, query : Queries, mode : {"sync", "async", "socket"}]]
    /\ luck \in Nat

LEMMA IntentTyped == TypeOK => IntentOK
BY ServiceAssumption DEF TypeOK, IntentOK

LEMMA SessionTyped ==
    ASSUME IntentOK, NEW c \in Tasks
    PROVE  Session(c) \in Sessions /\ Fingerprint(c) \in Fingerprints /\ intent[c].session \in Sessions
BY DEF IntentOK, Session, Fingerprint, Fingerprints

\* A step takes at most one mishap.
LEMMA LuckStep ==
    ASSUME IntentOK, Next
    PROVE  luck' = luck \/ (luck > 0 /\ luck' = luck - 1)
<1>. USE DEF Call, Mishap
<1>1. ASSUME NEW c \in Tasks, Request(c)
      PROVE  luck' = luck \/ Mishap
  BY <1>1 DEF Request, Reserve, EnqueueAnyway, CountTurn, KeepTurn, Enqueue, MarkQueued, Poll, Ask,
       Reuse, Announce, Receive, Deadline, Connect, Hangup, Push
<1>2. ASSUME NEW w \in Workers, Working(w)
      PROVE  luck' = luck \/ Mishap
  BY <1>2 DEF Working, Take, Reap, RequestStop, Exit, Crash, Restart, Handling, Begin, SetDone,
       SetFailed, Ack, HandleIntent, AckRefused
<1>3. ASSUME Listening \/ ApiRestart \/ (\E f \in Fingerprints : KeyExpires(f)) \/ (\E t \in Tasks : StatusExpires(t))
      PROVE  luck' = luck \/ Mishap
  BY <1>3 DEF Listening, ApiRestart, KeyExpires, StatusExpires
<1>. QED BY <1>1, <1>2, <1>3 DEF Next

LEMMA LuckTyped ==
    ASSUME TypeOK, Next
    PROVE  \E case \in Cases : intent' = case.calls /\ luck' \in 0 .. case.luck
<1>1. IntentOK
  BY IntentTyped
<1>2. PICK case \in Cases : intent = case.calls /\ luck \in 0 .. case.luck
  BY DEF TypeOK
<1>3. intent' = intent
  BY DEF Next
<1>4. case.luck \in Nat
  BY ServiceAssumption
<1>5. luck' \in 0 .. case.luck
  BY <1>1, <1>2, <1>4, LuckStep DEF IntentOK
<1>. QED BY <1>2, <1>3, <1>5

-----------------------------------------------------------------------------
(* What a worker reads *)

LEMMA FreeSlotsType ==
    ASSUME StreamTypeOK, NEW w \in Workers
    PROVE  FreeSlots(w) \in Nat
<1>1. slots[w] \in SUBSET Tasks
  BY DEF StreamTypeOK
<1>2. Cardinality(slots[w]) \in Nat
  BY <1>1, ServiceAssumption, FS_Subset, FS_CardinalityType
<1>. QED BY <1>2, StreamAssumption DEF FreeSlots

\* A read splits a stream: what it returns is what the rest lacks.
LEMMA ReadSplits ==
    ASSUME StreamTypeOK, NEW st \in Streams, NEW n \in Nat
    PROVE  /\ Count(st, n) \in 0 .. Len(stream[st])
           /\ Rest(st, n) \in Seq(Tasks)
           /\ Len(Rest(st, n)) = Len(stream[st]) - Count(st, n)
           /\ \A i \in 1 .. Len(Rest(st, n)) : Rest(st, n)[i] = stream[st][i + Count(st, n)]
           /\ Batch(st, n) \subseteq Tasks
<1>. DEFINE s == stream[st]
            k == Count(st, n)
<1>1. s \in Seq(Tasks) /\ Len(s) \in Nat
  BY DEF StreamTypeOK
<1>2. k \in 0 .. Len(s)
  BY <1>1 DEF Count
<1>3. \A i \in 1 .. k : s[i] \in Tasks
  BY <1>1, <1>2
<1>. HIDE DEF s, k
<1>4. SubSeq(s, k + 1, Len(s)) \in Seq(Tasks)
  BY <1>1, <1>2
<1>5. /\ Len(SubSeq(s, k + 1, Len(s))) = Len(s) - k
      /\ \A i \in 1 .. (Len(s) - k) : SubSeq(s, k + 1, Len(s))[i] = s[i + k]
  BY <1>1, <1>2
<1>. QED BY <1>2, <1>3, <1>4, <1>5 DEF s, k, Rest, Batch

-----------------------------------------------------------------------------
(* Types *)

LEMMA DeliveredType ==
    ASSUME BusTypeOK, NEW e \in Event
    PROVE  Delivered(e, subscribers) \in [Queues -> Seq(Event)]
BY DEF BusTypeOK, Delivered

LEMMA EventTyped ==
    ASSUME IntentOK, NEW c \in Tasks, NEW ty \in EventTypes
    PROVE  TradeEvent(intent[c].session, ty, c) \in Event
BY SessionTyped DEF TradeEvent, Event

LEMMA InitTypes == Init => TypeOK
<1>. SUFFICES ASSUME Init PROVE TypeOK
  OBVIOUS
<1>1. \E case \in Cases : intent = case.calls /\ luck \in 0 .. case.luck
  BY ServiceAssumption DEF Init
<1>2. BusTypeOK
  BY DEF Init, BusInit, BusTypeOK
<1>3. StreamTypeOK
  BY DEF Init, StreamInit, StreamTypeOK, States, RunSteps
<1>. QED BY <1>1, <1>2, <1>3 DEF Init, TypeOK, Steps

\* TypeOK without the choice of a case.
StateTyped ==
    /\ BusTypeOK /\ StreamTypeOK
    /\ at \in [Tasks -> Steps] /\ target \in [Tasks -> Tasks \cup {NoTask}]
    /\ heard \in [Tasks -> Tasks \cup {NoTask}]
    /\ turn \in [Tasks -> Nat] /\ turns \in [Sessions -> Nat]
    /\ idem \in [Fingerprints -> Tasks \cup {NoTask}]
    /\ excuse \subseteq ({"unprotected"} \X Fingerprints) \cup ({"overwritten", "expired"} \X Tasks)

LEMMA StreamUntouched ==
    ASSUME StreamTypeOK, UNCHANGED streamVars
    PROVE  StreamTypeOK'
BY DEF StreamTypeOK, streamVars

LEMMA SubscribedTypes ==
    ASSUME BusTypeOK, NEW q \in Queues, NEW s \in Sessions
    PROVE  [subscribers EXCEPT ![s] = @ \cup {q}] \in [Sessions -> SUBSET Queues]
BY DEF BusTypeOK

LEMMA UnsubscribedTypes ==
    ASSUME BusTypeOK, NEW q \in Queues, Unsubscribe(q)
    PROVE  subscribers' \in [Sessions -> SUBSET Queues] /\ inbox' \in [Queues -> Seq(Event)]
BY DEF BusTypeOK, Unsubscribe

LEMMA TakenFromInbox ==
    ASSUME BusTypeOK, NEW q \in Queues, inbox[q] # << >>
    PROVE  Head(inbox[q]) \in Event /\ [inbox EXCEPT ![q] = Tail(@)] \in [Queues -> Seq(Event)]
<1>1. inbox[q] \in Seq(Event)
  BY DEF BusTypeOK
<1>2. Tail(inbox[q]) \in Seq(Event) /\ Head(inbox[q]) \in Event
  BY <1>1
<1>. QED BY <1>2 DEF BusTypeOK

LEMMA RequestTypes ==
    ASSUME StateTyped, IntentOK, NEW c \in Tasks, Request(c), UNCHANGED intent
    PROVE  StateTyped'
<1>1. Session(c) \in Sessions /\ Fingerprint(c) \in Fingerprints
  BY SessionTyped
<1>2. Queues = Tasks
  BY ServiceAssumption
<1>. USE <1>1, <1>2 DEF StateTyped, Step, End, Excused, ApiOnly, busVars, streamVars, Steps
<1>a. [subscribers EXCEPT ![Session(c)] = @ \cup {c}] \in [Sessions -> SUBSET Queues]
  BY SubscribedTypes
<1>b. Unsubscribe(c) => subscribers' \in [Sessions -> SUBSET Queues] /\ inbox' \in [Queues -> Seq(Event)]
  BY UnsubscribedTypes
<1>c. inbox[c] # << >> => /\ Head(inbox[c]) \in Event
                          /\ [inbox EXCEPT ![c] = Tail(@)] \in [Queues -> Seq(Event)]
  BY TakenFromInbox
<1>3. ASSUME NEW o \in Outcomes, Reserve(c, o) \/ EnqueueAnyway(c, o) \/ CountTurn(c, o) \/ KeepTurn(c, o)
      PROVE  StateTyped'
  <2>1. BusTypeOK' /\ StreamTypeOK'
    BY <1>3 DEF Reserve, EnqueueAnyway, CountTurn, KeepTurn, BusTypeOK, StreamTypeOK
  <2>2. turns[Session(c)] + 1 \in Nat
    OBVIOUS
  <2>3. CASE Reserve(c, o)
    BY <2>1, <2>3 DEF Reserve
  <2>4. CASE EnqueueAnyway(c, o)
    BY <2>1, <2>4 DEF EnqueueAnyway
  <2>5. CASE CountTurn(c, o)
    BY <2>1, <2>2, <2>5 DEF CountTurn
  <2>6. CASE KeepTurn(c, o)
    BY <2>1, <2>6 DEF KeepTurn
  <2>. QED BY <1>3, <2>3, <2>4, <2>5, <2>6
<1>4. ASSUME NEW o \in Outcomes, Enqueue(c, o)
      PROVE  StateTyped'
  <2>1. Priority(c) \in Streams
    BY DEF Priority, Streams
  <2>2. Append(stream[Priority(c)], c) \in Seq(Tasks)
    BY <2>1 DEF StreamTypeOK
  <2>3. BusTypeOK' /\ StreamTypeOK'
    BY <1>4, <2>1, <2>2 DEF Enqueue, Add, BusTypeOK, StreamTypeOK
  <2>. QED BY <1>4, <2>3 DEF Enqueue
<1>5. ASSUME NEW o \in Outcomes, MarkQueued(c, o)
      PROVE  StateTyped'
  <2>1. BusTypeOK' /\ StreamTypeOK'
    BY <1>5 DEF MarkQueued, SetStatus, BusTypeOK, StreamTypeOK, States
  <2>. QED BY <1>5, <2>1 DEF MarkQueued
<1>6. ASSUME NEW o \in Outcomes, Poll(c, o) \/ Ask(c, o)
      PROVE  StateTyped'
  <2>1. BusTypeOK' /\ StreamTypeOK'
    BY <1>6 DEF Poll, Ask, Return, Unsubscribe, BusTypeOK, StreamTypeOK
  <2>. QED BY <1>6, <2>1 DEF Poll, Ask, Return
<1>7. CASE Reuse(c)
  <2>1. StreamTypeOK'
    BY <1>7, StreamUntouched DEF Reuse
  <2>2. BusTypeOK'
    BY <1>7, <1>a DEF Reuse, WaitFor, BusTypeOK
  <2>. QED BY <1>7, <2>1, <2>2 DEF Reuse, WaitFor
<1>8. CASE Announce(c)
  <2>1. TradeEvent(Session(c), "task.queued", c) \in Event
    BY DEF TradeEvent, Event, EventTypes
  <2>2. \A q \in Queues : Append(inbox[q], TradeEvent(Session(c), "task.queued", c)) \in Seq(Event)
    BY <2>1 DEF BusTypeOK
  <2>3. StreamTypeOK'
    BY <1>8, StreamUntouched DEF Announce
  <2>4. inbox' \in [Queues -> Seq(Event)]
    BY <1>8, <2>2 DEF Announce, Delivered, BusTypeOK
  <2>5. wire' \subseteq [origin : Workers \cup {Api}, event : Event]
    BY <1>8, <2>1 DEF Announce, Broadcast, BusTypeOK
  <2>6. subscribers' \in [Sessions -> SUBSET Queues] /\ listening' \in BOOLEAN
    BY <1>8, <1>a DEF Announce, WaitFor, BusTypeOK
  <2>7. BusTypeOK'
    BY <2>4, <2>5, <2>6 DEF BusTypeOK
  <2>. QED BY <1>8, <2>3, <2>7 DEF Announce, WaitFor
<1>9. CASE Receive(c)
  <2>1. /\ Head(inbox[c]) \in Event /\ Head(inbox[c]).task \in Tasks
        /\ [inbox EXCEPT ![c] = Tail(@)] \in [Queues -> Seq(Event)]
    BY <1>9, <1>c DEF Receive, Event
  <2>2. StreamTypeOK'
    BY <1>9, StreamUntouched DEF Receive
  <2>3. subscribers' \in [Sessions -> SUBSET Queues] /\ inbox' \in [Queues -> Seq(Event)]
    BY <1>9, <2>1, <1>b DEF Receive, BusTypeOK
  <2>4. BusTypeOK'
    BY <1>9, <2>3 DEF Receive, BusTypeOK
  <2>. QED BY <1>9, <2>1, <2>2, <2>4 DEF Receive
<1>10. CASE Deadline(c)
  <2>1. StreamTypeOK'
    BY <1>10, StreamUntouched DEF Deadline
  <2>2. BusTypeOK'
    BY <1>10, <1>b DEF Deadline, Return, BusTypeOK
  <2>. QED BY <1>10, <2>1, <2>2 DEF Deadline, Return
<1>11. CASE Connect(c) \/ Hangup(c)
  <2>1. StreamTypeOK'
    BY <1>11, StreamUntouched DEF Connect, Hangup
  <2>2. BusTypeOK'
    BY <1>11, <1>a DEF Connect, Hangup, Subscribe, BusTypeOK
  <2>. QED BY <1>11, <2>1, <2>2 DEF Connect, Hangup
<1>12. CASE Push(c)
  <2>1. StreamTypeOK'
    BY <1>12, StreamUntouched DEF Push
  <2>2. subscribers' \in [Sessions -> SUBSET Queues] /\ inbox' \in [Queues -> Seq(Event)]
    BY <1>12, <1>c, <1>b DEF Push, Return, BusTypeOK
  <2>3. BusTypeOK'
    BY <1>12, <2>2 DEF Push, BusTypeOK
  <2>. QED BY <1>12, <2>1, <2>3 DEF Push, Return
<1>. QED BY <1>3, <1>4, <1>5, <1>6, <1>7, <1>8, <1>9, <1>10, <1>11, <1>12 DEF Request

LEMMA WorkingTypes ==
    ASSUME StateTyped, IntentOK, NEW w \in Workers, Working(w), UNCHANGED intent
    PROVE  StateTyped'
<1>. USE DEF StateTyped
<1>1. UNCHANGED apiVars
  BY DEF Working
<1>2. SUFFICES BusTypeOK' /\ StreamTypeOK'
  BY <1>1 DEF apiVars
<1>3. ASSUME NEW o \in Outcomes, Take(w, o)
      PROVE  BusTypeOK' /\ StreamTypeOK'
  <2>. DEFINE n == FreeSlots(w)
  <2>1. n \in Nat
    BY FreeSlotsType
  <2>2. \A st \in Streams : Rest(st, n) \in Seq(Tasks) /\ Batch(st, n) \subseteq Tasks
    BY <2>1, ReadSplits
  <2>3. Read(n) \subseteq Tasks
    BY <2>2 DEF Read, Streams
  <2>4. stream' \in [Streams -> Seq(Tasks)] /\ pending' \in [Streams -> SUBSET Tasks]
    BY <1>3, <2>2 DEF Take, StreamTypeOK
  <2>5. slots' \in [Workers -> SUBSET Tasks] /\ run' \in [Tasks -> RunSteps]
    BY <1>3, <2>3 DEF Take, StreamTypeOK, RunSteps
  <2>. QED BY <1>3, <2>4, <2>5 DEF Take, StreamTypeOK, BusTypeOK, busVars
<1>4. CASE Reap(w) \/ RequestStop(w) \/ Exit(w) \/ Crash(w) \/ Restart(w)
  <2>1. slots' \in [Workers -> SUBSET Tasks] /\ worker' \in [Workers -> {"up", "stopping", "down"}]
    BY <1>4 DEF Reap, RequestStop, Exit, Crash, Restart, StreamTypeOK
  <2>2. run' \in [Tasks -> RunSteps]
    BY <1>4 DEF Reap, RequestStop, Exit, Crash, Restart, StreamTypeOK, RunSteps
  <2>3. UNCHANGED <<stream, pending, dead, status, verdict, busVars>>
    BY <1>4 DEF Reap, RequestStop, Exit, Crash, Restart
  <2>. QED BY <2>1, <2>2, <2>3 DEF StreamTypeOK, BusTypeOK, busVars
<1>5. ASSUME NEW t \in Tasks, Handling(w, t)
      PROVE  BusTypeOK' /\ StreamTypeOK'
  <2>. USE DEF Goto, Acked, Excepted
  <2>1. ASSUME NEW o \in Outcomes, Begin(w, t, o) \/ SetDone(w, t, o) \/ SetFailed(w, t, o)
        PROVE  BusTypeOK' /\ StreamTypeOK'
    <3>1. status' \in [Tasks -> States]
      BY <2>1 DEF Begin, SetDone, SetFailed, SetStatus, StreamTypeOK, States
    <3>2. run' \in [Tasks -> RunSteps]
      BY <2>1 DEF Begin, SetDone, SetFailed, StreamTypeOK, RunSteps
    <3>3. pending' \in [Streams -> SUBSET Tasks] /\ dead' \subseteq Tasks
      BY <2>1 DEF Begin, SetDone, SetFailed, StreamTypeOK
    <3>. QED BY <2>1, <3>1, <3>2, <3>3 DEF Begin, SetDone, SetFailed, StreamTypeOK, BusTypeOK, busVars
  <2>2. ASSUME NEW o \in Outcomes, Ack(w, t, o)
        PROVE  BusTypeOK' /\ StreamTypeOK'
    BY <2>2 DEF Ack, StreamTypeOK, BusTypeOK, busVars, RunSteps
  <2>3. ASSUME NEW said \in {"reply", "apology"}, HandleIntent(w, t, said)
        PROVE  BusTypeOK' /\ StreamTypeOK'
    <3>1. TradeEvent(intent[t].session, "final.result", t) \in Event
      BY EventTyped DEF EventTypes
    <3>2. wire' \subseteq [origin : Workers \cup {Api}, event : Event]
      BY <2>3, <3>1 DEF HandleIntent, Broadcast, BusTypeOK
    <3>. QED BY <2>3, <3>2 DEF HandleIntent, StreamTypeOK, BusTypeOK, RunSteps
  <2>4. CASE AckRefused(w, t)
    BY <2>4 DEF AckRefused, StreamTypeOK, BusTypeOK, busVars, RunSteps
  <2>. QED BY <1>5, <2>1, <2>2, <2>3, <2>4 DEF Handling
<1>. QED BY <1>3, <1>4, <1>5 DEF Working

LEMMA OtherTypes ==
    ASSUME StateTyped, IntentOK, UNCHANGED intent,
           Listening \/ ApiRestart \/ (\E f \in Fingerprints : KeyExpires(f)) \/ (\E t \in Tasks : StatusExpires(t))
    PROVE  StateTyped'
<1>. USE DEF StateTyped, Excused
<1>1. CASE Listening
  <2>1. UNCHANGED <<streamVars, apiVars>>
    BY <1>1 DEF Listening
  <2>2. ASSUME NEW m \in wire, Forward(m)
        PROVE  BusTypeOK'
    <3>1. m.event \in Event /\ m.event.session \in Sessions
      BY DEF BusTypeOK, Event
    <3>2. Delivered(m.event, subscribers) \in [Queues -> Seq(Event)]
      BY <3>1, DeliveredType
    <3>. QED BY <2>2, <3>2 DEF Forward, BusTypeOK
  <2>3. ASSUME NEW m \in wire, LoseBroadcast(m) \/ ListenerFails
        PROVE  BusTypeOK'
    BY <2>3 DEF LoseBroadcast, ListenerFails, BusTypeOK
  <2>4. ListenerFails => BusTypeOK'
    BY DEF ListenerFails, BusTypeOK
  <2>5. BusTypeOK'
    BY <1>1, <2>2, <2>3, <2>4 DEF Listening
  <2>6. StreamTypeOK'
    BY <2>1, StreamUntouched
  <2>. QED BY <2>1, <2>5, <2>6 DEF apiVars
<1>2. CASE ApiRestart
  <2>1. StreamTypeOK'
    BY <1>2, StreamUntouched DEF ApiRestart
  <2>2. BusTypeOK'
    BY <1>2 DEF ApiRestart, BusRestarts, BusTypeOK
  <2>3. at' \in [Tasks -> Steps] /\ target' \in [Tasks -> Tasks \cup {NoTask}] /\ turn' \in [Tasks -> Nat]
    BY <1>2 DEF ApiRestart, Steps
  <2>. QED BY <1>2, <2>1, <2>2, <2>3 DEF ApiRestart
<1>3. ASSUME NEW f \in Fingerprints, KeyExpires(f)
      PROVE  StateTyped'
  <2>1. StreamTypeOK' /\ BusTypeOK'
    BY <1>3, StreamUntouched DEF KeyExpires, BusTypeOK, busVars
  <2>. QED BY <1>3, <2>1 DEF KeyExpires
<1>4. ASSUME NEW t \in Tasks, StatusExpires(t)
      PROVE  StateTyped'
  <2>1. StreamTypeOK' /\ BusTypeOK'
    BY <1>4 DEF StatusExpires, StreamTypeOK, States, BusTypeOK, busVars
  <2>. QED BY <1>4, <2>1 DEF StatusExpires
<1>. QED BY <1>1, <1>2, <1>3, <1>4

LEMMA TypeStep == TypeOK /\ [Next]_vars => TypeOK'
<1>. SUFFICES ASSUME TypeOK, [Next]_vars PROVE TypeOK'
  OBVIOUS
<1>1. StateTyped /\ IntentOK
  BY IntentTyped DEF TypeOK, StateTyped
<1>2. CASE Next
  <2>1. StateTyped'
    BY <1>1, <1>2, RequestTypes, WorkingTypes, OtherTypes DEF Next
  <2>. QED BY <1>2, <2>1, LuckTyped DEF StateTyped, TypeOK
<1>3. CASE UNCHANGED vars
  <2>1. StreamTypeOK' /\ BusTypeOK'
    BY <1>1, <1>3, StreamUntouched DEF vars, StateTyped, BusTypeOK, busVars
  <2>. QED BY <1>3, <2>1 DEF vars, apiVars, TypeOK
<1>. QED BY <1>2, <1>3

-----------------------------------------------------------------------------
(* Where a task is: before its request sent it, in one place of one stream,  *)
(* or read; and what a worker holds is also pending                          *)

Early == {"idle", "previous", "count", "keep", "add"}

OnePlace ==
    \A st, su \in Streams : \A i \in DOMAIN stream[st], j \in DOMAIN stream[su] :
        stream[st][i] = stream[su][j] => st = su /\ i = j

Places ==
    /\ OnePlace
    /\ \A t \in Tasks :
           /\ InStream(t) => run[t] = "none"
           /\ Enqueued(t) => at[t] \notin Early
           /\ verdict[t] # "none" => run[t] \in {"replied", "excused", "acking", "over", "lost"}
           /\ run[t] \in {"replied", "excused", "acking"} => verdict[t] # "none"
           /\ Live(t) => Stuck(t)
           /\ t \in dead => run[t] = "over"

\* What all other steps than sending, reading and handling leave alone.
Quiet ==
    /\ UNCHANGED <<stream, pending, dead, run, verdict>>
    /\ \A c \in Tasks : at'[c] \in Early => at[c] \in Early

LEMMA StepKinds ==
    ASSUME StateTyped, Next
    PROVE  \/ Quiet
           \/ \E c \in Tasks, o \in Outcomes : Enqueue(c, o)
           \/ \E w \in Workers, o \in Outcomes : Take(w, o) /\ UNCHANGED apiVars
           \/ \E w \in Workers : Crash(w) /\ UNCHANGED apiVars
           \/ \E w \in Workers, t \in Tasks : Handling(w, t) /\ UNCHANGED apiVars
<1>. USE DEF StateTyped, Quiet, Early, streamVars
<1>1. ASSUME NEW c \in Tasks, Request(c)
      PROVE  Quiet \/ \E o \in Outcomes : Enqueue(c, o)
  <2>. USE DEF Step, End, ApiOnly
  <2>1. ASSUME NEW o \in Outcomes,
               Reserve(c, o) \/ EnqueueAnyway(c, o) \/ CountTurn(c, o) \/ KeepTurn(c, o) \/ MarkQueued(c, o)
        PROVE  Quiet
    BY <2>1 DEF Reserve, EnqueueAnyway, CountTurn, KeepTurn, MarkQueued
  <2>2. ASSUME NEW o \in Outcomes, Poll(c, o) \/ Ask(c, o)
        PROVE  Quiet
    BY <2>2 DEF Poll, Ask, Return
  <2>3. ASSUME Reuse(c) \/ Announce(c)
        PROVE  Quiet
    BY <2>3 DEF Reuse, Announce, WaitFor
  <2>4. ASSUME Receive(c) \/ Deadline(c) \/ Connect(c) \/ Hangup(c) \/ Push(c)
        PROVE  Quiet
    BY <2>4 DEF Receive, Deadline, Connect, Hangup, Push, Return
  <2>. QED BY <1>1, <2>1, <2>2, <2>3, <2>4 DEF Request
<1>2. ASSUME NEW w \in Workers, Reap(w) \/ RequestStop(w) \/ Exit(w) \/ Restart(w), UNCHANGED apiVars
      PROVE  Quiet
  BY <1>2 DEF Reap, RequestStop, Exit, Restart, apiVars
<1>3. ASSUME Listening \/ ApiRestart
      PROVE  Quiet
  BY <1>3 DEF Listening, ApiRestart, apiVars
<1>4. ASSUME (\E f \in Fingerprints : KeyExpires(f)) \/ (\E t \in Tasks : StatusExpires(t))
      PROVE  Quiet
  BY <1>4 DEF KeyExpires, StatusExpires
<1>. QED BY <1>1, <1>2, <1>3, <1>4 DEF Next, Working

\* A read moves exactly what it returns out of the streams.
LEMMA TakeMoves ==
    ASSUME StreamTypeOK, OnePlace, NEW w \in Workers, NEW o \in Outcomes, Take(w, o)
    PROVE  /\ OnePlace'
           /\ \A t \in Tasks :
                  IF t \in Read(FreeSlots(w))
                  THEN /\ InStream(t) /\ ~InStream(t)' /\ Stuck(t)'
                       /\ run'[t] = IF Ok(o) THEN "taken" ELSE "lost"
                  ELSE (InStream(t)' <=> InStream(t)) /\ run'[t] = run[t]
           /\ \A t \in Tasks : Stuck(t) => Stuck(t)'
<1>. DEFINE n == FreeSlots(w)
<1>1. n \in Nat
  BY FreeSlotsType
<1>3. \A st \in Streams : stream'[st] = Rest(st, n) /\ pending'[st] = pending[st] \cup Batch(st, n)
  BY DEF Take
<1>4. \A t \in Tasks : run'[t] = IF t \notin Read(n) THEN run[t] ELSE IF Ok(o) THEN "taken" ELSE "lost"
  BY DEF Take
<1>. HIDE DEF n
<1>2. \A st \in Streams :
          /\ stream[st] \in Seq(Tasks) /\ Len(stream[st]) \in Nat
          /\ DOMAIN stream[st] = 1 .. Len(stream[st])
          /\ Count(st, n) \in 0 .. Len(stream[st])
          /\ DOMAIN Rest(st, n) = 1 .. Len(stream[st]) - Count(st, n)
          /\ \A i \in DOMAIN Rest(st, n) : Rest(st, n)[i] = stream[st][i + Count(st, n)]
  <2>. SUFFICES ASSUME NEW st \in Streams
                PROVE  /\ stream[st] \in Seq(Tasks) /\ Len(stream[st]) \in Nat
                       /\ DOMAIN stream[st] = 1 .. Len(stream[st])
                       /\ Count(st, n) \in 0 .. Len(stream[st])
                       /\ DOMAIN Rest(st, n) = 1 .. Len(stream[st]) - Count(st, n)
                       /\ \A i \in DOMAIN Rest(st, n) : Rest(st, n)[i] = stream[st][i + Count(st, n)]
    OBVIOUS
  <2>1. /\ stream[st] \in Seq(Tasks) /\ Rest(st, n) \in Seq(Tasks)
        /\ Count(st, n) \in 0 .. Len(stream[st])
        /\ Len(Rest(st, n)) = Len(stream[st]) - Count(st, n)
        /\ \A i \in 1 .. Len(Rest(st, n)) : Rest(st, n)[i] = stream[st][i + Count(st, n)]
    BY <1>1, ReadSplits DEF StreamTypeOK
  <2>2. Len(stream[st]) \in Nat /\ DOMAIN stream[st] = 1 .. Len(stream[st])
    BY <2>1
  <2>3. DOMAIN Rest(st, n) = 1 .. Len(Rest(st, n))
    BY <2>1
  <2>. QED BY <2>1, <2>2, <2>3
<1>5. OnePlace'
  <2>1. SUFFICES ASSUME NEW st \in Streams, NEW su \in Streams,
                        NEW i \in DOMAIN Rest(st, n), NEW j \in DOMAIN Rest(su, n),
                        Rest(st, n)[i] = Rest(su, n)[j]
                 PROVE  st = su /\ i = j
    BY <1>3 DEF OnePlace
  <2>2. i + Count(st, n) \in DOMAIN stream[st] /\ j + Count(su, n) \in DOMAIN stream[su]
    BY <1>2
  <2>3. stream[st][i + Count(st, n)] = stream[su][j + Count(su, n)]
    BY <1>2, <2>1
  <2>4. st = su /\ i + Count(st, n) = j + Count(su, n)
    BY <2>2, <2>3 DEF OnePlace
  <2>. QED BY <1>2, <2>4
<1>6. \A t \in Tasks : t \in Read(n) <=> \E st \in Streams : t \in Batch(st, n)
  BY DEF Read, Streams
<1>7. ASSUME NEW t \in Tasks, t \in Read(n)
      PROVE  InStream(t) /\ ~InStream(t)' /\ Stuck(t)'
  <2>1. PICK st \in Streams : t \in Batch(st, n)
    BY <1>6, <1>7
  <2>2. PICK k \in 1 .. Count(st, n) : stream[st][k] = t
    BY <2>1 DEF Batch
  <2>3. k \in DOMAIN stream[st]
    BY <1>2, <2>2
  <2>4. ASSUME NEW su \in Streams, NEW i \in DOMAIN Rest(su, n), Rest(su, n)[i] = t
        PROVE  FALSE
    <3>1. i + Count(su, n) \in DOMAIN stream[su] /\ i > 0
      BY <1>2
    <3>2. stream[su][i + Count(su, n)] = t
      BY <1>2, <2>4
    <3>3. su = st /\ i + Count(su, n) = k
      BY <2>2, <2>3, <3>1, <3>2 DEF OnePlace
    <3>. QED BY <1>2, <2>2, <3>1, <3>3
  <2>. QED BY <1>3, <2>1, <2>2, <2>3, <2>4 DEF InStream, Stuck
<1>8. ASSUME NEW t \in Tasks, t \notin Read(n)
      PROVE  InStream(t)' <=> InStream(t)
  <2>1. ASSUME InStream(t)' PROVE InStream(t)
    <3>1. PICK st \in Streams : \E i \in DOMAIN Rest(st, n) : Rest(st, n)[i] = t
      BY <1>3, <2>1 DEF InStream
    <3>2. PICK i \in DOMAIN Rest(st, n) : Rest(st, n)[i] = t
      BY <3>1
    <3>3. i + Count(st, n) \in DOMAIN stream[st] /\ stream[st][i + Count(st, n)] = t
      BY <1>2, <3>2
    <3>. QED BY <3>3 DEF InStream
  <2>2. ASSUME InStream(t) PROVE InStream(t)'
    <3>. PICK st \in Streams : \E k \in DOMAIN stream[st] : stream[st][k] = t
      BY <2>2 DEF InStream
    <3>1. PICK k \in DOMAIN stream[st] : stream[st][k] = t
      OBVIOUS
    <3>2. k \notin 1 .. Count(st, n)
      BY <1>6, <1>8, <3>1 DEF Batch
    <3>3. k - Count(st, n) \in DOMAIN Rest(st, n) /\ (k - Count(st, n)) + Count(st, n) = k
      BY <1>2, <3>1, <3>2
    <3>4. Rest(st, n)[k - Count(st, n)] = t
      BY <1>2, <3>1, <3>3
    <3>. QED BY <1>3, <3>3, <3>4 DEF InStream
  <2>. QED BY <2>1, <2>2
<1>9. \A t \in Tasks : Stuck(t) => Stuck(t)'
  BY <1>3 DEF Stuck
<1>. QED BY <1>4, <1>5, <1>7, <1>8, <1>9 DEF n

LEMMA PlacesInit == Init => Places
BY DEF Init, StreamInit, BusInit, Places, OnePlace, Enqueued, InStream, Live, Streams

LEMMA PlacesStep ==
    ASSUME StateTyped, Places, Next
    PROVE  Places'
<1>1. CASE Quiet
  <2>1. UNCHANGED <<stream, pending, dead, run, verdict>>
    BY <1>1 DEF Quiet
  <2>2. \A t \in Tasks : /\ InStream(t)' <=> InStream(t)
                         /\ Enqueued(t)' <=> Enqueued(t)
                         /\ Live(t)' <=> Live(t)
                         /\ Stuck(t)' <=> Stuck(t)
    BY <2>1 DEF InStream, Enqueued, Live, Stuck
  <2>3. OnePlace'
    BY <2>1 DEF Places, OnePlace
  <2>. QED BY <1>1, <2>1, <2>2, <2>3 DEF Quiet, Places
<1>2. ASSUME NEW c \in Tasks, NEW o \in Outcomes, Enqueue(c, o)
      PROVE  Places'
  <2>. DEFINE q == Priority(c)
  <2>1. q \in Streams /\ at[c] = "add"
    BY <1>2 DEF Priority, Streams, Enqueue
  <2>2. /\ UNCHANGED <<pending, dead, run, verdict>>
        /\ stream' = IF Effect(o) THEN [stream EXCEPT ![q] = Append(@, c)] ELSE stream
    BY <1>2 DEF Enqueue, Add
  <2>3. \A t \in Tasks : at'[t] \in Early => at[t] \in Early /\ t # c
    BY <1>2, <2>1 DEF Enqueue, Step, End, Early, StateTyped
  <2>. HIDE DEF q
  <2>4. ~InStream(c) /\ run[c] = "none"
    BY <2>1 DEF Places, Early, Enqueued
  <2>5. /\ stream \in [Streams -> Seq(Tasks)]
        /\ \A st \in Streams : DOMAIN stream[st] = 1 .. Len(stream[st]) /\ Len(stream[st]) \in Nat
    BY DEF StateTyped, StreamTypeOK
  <2>6. OnePlace' /\ \A t \in Tasks : InStream(t)' => InStream(t) \/ t = c
    <3>1. CASE ~Effect(o)
      BY <2>2, <3>1 DEF Places, OnePlace, InStream
    <3>2. CASE Effect(o)
      <4>1. \A st \in Streams : DOMAIN stream'[st] = IF st = q THEN 1 .. Len(stream[q]) + 1 ELSE DOMAIN stream[st]
        BY <2>1, <2>2, <2>5, <3>2
      <4>2. \A st \in Streams : \A i \in DOMAIN stream'[st] :
               IF st = q /\ i = Len(stream[q]) + 1 THEN stream'[st][i] = c
               ELSE i \in DOMAIN stream[st] /\ stream'[st][i] = stream[st][i]
        BY <2>1, <2>2, <2>5, <3>2, <4>1
      <4>3. \A st \in Streams : \A i \in DOMAIN stream[st] : stream[st][i] # c
        BY <2>4 DEF InStream
      <4>4. OnePlace'
        BY <4>1, <4>2, <4>3 DEF Places, OnePlace
      <4>5. \A t \in Tasks : InStream(t)' => InStream(t) \/ t = c
        BY <4>1, <4>2 DEF InStream
      <4>. QED BY <4>4, <4>5
    <3>. QED BY <3>1, <3>2
  <2>. QED BY <2>2, <2>3, <2>4, <2>6 DEF Places, Enqueued, Live, Stuck
<1>3. ASSUME NEW w \in Workers, NEW o \in Outcomes, Take(w, o), UNCHANGED apiVars
      PROVE  Places'
  <2>1. UNCHANGED <<verdict, dead>> /\ UNCHANGED at
    BY <1>3 DEF Take, apiVars
  <2>2. /\ OnePlace'
        /\ \A t \in Tasks :
               IF t \in Read(FreeSlots(w))
               THEN /\ InStream(t) /\ ~InStream(t)' /\ Stuck(t)'
                    /\ run'[t] = IF Ok(o) THEN "taken" ELSE "lost"
               ELSE (InStream(t)' <=> InStream(t)) /\ run'[t] = run[t]
        /\ \A t \in Tasks : Stuck(t) => Stuck(t)'
    BY <1>3, TakeMoves DEF Places, StateTyped
  <2>. QED BY <2>1, <2>2 DEF Places, Enqueued, Live
<1>4. ASSUME NEW w \in Workers, Crash(w), UNCHANGED apiVars
      PROVE  Places'
  <2>1. UNCHANGED <<stream, pending, dead, verdict, at>>
    BY <1>4 DEF Crash, apiVars
  <2>2. \A t \in Tasks : run'[t] = run[t] \/ (Live(t) /\ run'[t] = "lost")
    BY <1>4 DEF Crash
  <2>. QED BY <2>1, <2>2 DEF Places, OnePlace, Enqueued, InStream, Live, Stuck
<1>5. ASSUME NEW w \in Workers, NEW t \in Tasks, Handling(w, t), UNCHANGED apiVars
      PROVE  Places'
  <2>1. UNCHANGED <<stream, at>>
    BY <1>5 DEF Handling, Begin, SetDone, SetFailed, Ack, AckRefused, HandleIntent, apiVars
  <2>2. \A u \in Tasks \ {t} : /\ run'[u] = run[u] /\ verdict'[u] = verdict[u]
                               /\ \A st \in Streams : u \in pending'[st] <=> u \in pending[st]
    BY <1>5 DEF Handling, Begin, SetDone, SetFailed, Ack, AckRefused, HandleIntent, Excepted, Acked, Goto,
         StateTyped, StreamTypeOK
  <2>3. /\ Live(t) /\ run'[t] # "none"
        /\ verdict'[t] # "none" => run'[t] \in {"replied", "excused", "acking", "over", "lost"}
        /\ run'[t] \in {"replied", "excused", "acking"} => verdict'[t] # "none"
        /\ run'[t] # "over" => UNCHANGED pending /\ run'[t] \in RunSteps
    BY <1>5 DEF Handling, Begin, SetDone, SetFailed, Ack, AckRefused, HandleIntent, Excepted, Goto, At, Live,
         Places, StateTyped, StreamTypeOK, RunSteps
  <2>4. \A u \in dead' : u \in dead \/ (u = t /\ run'[t] = "over")
    BY <1>5 DEF Handling, Begin, SetDone, SetFailed, Ack, AckRefused, HandleIntent, Excepted, Goto,
         StateTyped, StreamTypeOK
  <2>5. t \notin dead
    BY <2>3 DEF Places, Live
  <2>. QED BY <2>1, <2>2, <2>3, <2>4, <2>5 DEF Places, OnePlace, Enqueued, InStream, Live, Stuck
<1>. QED BY <1>1, <1>2, <1>3, <1>4, <1>5, StepKinds

-----------------------------------------------------------------------------
(* Repeats *)

\* A call that goes on to make its task, and a task that was made, own the key of their
\* fingerprint as long as nothing has excused it.
KeyOwned ==
    \A t \in Tasks : at[t] \in {"count", "keep", "add"} \/ Enqueued(t) =>
        idem[Fingerprint(t)] = t \/ <<"unprotected", Fingerprint(t)>> \in excuse

LEMMA KeyOwnedGivesRepeats == KeyOwned => RepeatsRunOnce
BY DEF KeyOwned, RepeatsRunOnce

\* Only sending makes a task one that was sent.
LEMMA EnqueuedSteps ==
    ASSUME StateTyped, Places, Next, NEW t \in Tasks, Enqueued(t)'
    PROVE  Enqueued(t) \/ at[t] = "add"
<1>1. CASE Quiet
  BY <1>1 DEF Quiet, Enqueued, InStream
<1>2. ASSUME NEW c \in Tasks, NEW o \in Outcomes, Enqueue(c, o)
      PROVE  Enqueued(t) \/ at[t] = "add"
  <2>1. Priority(c) \in Streams /\ at[c] = "add" /\ UNCHANGED run
    BY <1>2 DEF Priority, Streams, Enqueue
  <2>2. InStream(t)' => InStream(t) \/ t = c
    BY <1>2, <2>1 DEF Enqueue, Add, InStream, StateTyped, StreamTypeOK
  <2>. QED BY <2>1, <2>2 DEF Enqueued
<1>3. ASSUME NEW w \in Workers, NEW o \in Outcomes, Take(w, o)
      PROVE  Enqueued(t)
  BY <1>3, TakeMoves DEF Places, Enqueued, StateTyped
<1>4. ASSUME NEW w \in Workers, Crash(w)
      PROVE  Enqueued(t)
  BY <1>4 DEF Crash, Enqueued, InStream, Live
<1>5. ASSUME NEW w \in Workers, NEW u \in Tasks, Handling(w, u)
      PROVE  Enqueued(t)
  <2>1. UNCHANGED stream /\ run[u] # "none" /\ (t # u => run'[t] = run[t])
    BY <1>5 DEF Handling, Begin, SetDone, SetFailed, Ack, AckRefused, HandleIntent, Excepted, Goto, At,
         StateTyped, StreamTypeOK
  <2>. QED BY <2>1 DEF Enqueued, InStream
<1>. QED BY <1>1, <1>2, <1>3, <1>4, <1>5, StepKinds

LEMMA ExcusesStay == Next => excuse \subseteq excuse'
<1>1. ASSUME NEW c \in Tasks, Request(c) PROVE excuse \subseteq excuse'
  BY <1>1 DEF Request, Reserve, EnqueueAnyway, CountTurn, KeepTurn, Enqueue, MarkQueued, Poll, Ask, Reuse,
       Announce, Receive, Deadline, Connect, Hangup, Push, Excused
<1>2. ASSUME NEW w \in Workers, Working(w) PROVE excuse \subseteq excuse'
  BY <1>2 DEF Working, apiVars
<1>. QED BY <1>1, <1>2 DEF Next, Listening, ApiRestart, KeyExpires, StatusExpires, Excused, apiVars

LEMMA KeyOwnedStep ==
    ASSUME StateTyped, IntentOK, Places, KeyOwned, Next
    PROVE  KeyOwned'
<1>1. UNCHANGED intent /\ \A t \in Tasks : Fingerprint(t)' = Fingerprint(t) /\ Fingerprint(t) \in Fingerprints
  BY SessionTyped DEF Next, Fingerprint, Session
<1>2. SUFFICES ASSUME NEW t \in Tasks, at'[t] \in {"count", "keep", "add"} \/ Enqueued(t)'
               PROVE  idem'[Fingerprint(t)] = t \/ <<"unprotected", Fingerprint(t)>> \in excuse'
  BY <1>1 DEF KeyOwned
<1>. DEFINE Owner(c) == at[c] \in {"count", "keep", "add"} \/ Enqueued(c)
            f == Fingerprint(t)
<1>3. Owner(t) => idem[f] = t \/ <<"unprotected", f>> \in excuse
  BY DEF KeyOwned
<1>4. Enqueued(t)' => Owner(t)
  BY EnqueuedSteps
<1>5. excuse \subseteq excuse'
  BY ExcusesStay
<1>. HIDE DEF Owner
<1>6. ASSUME NEW c \in Tasks, NEW o \in Outcomes, Reserve(c, o)
      PROVE  idem'[f] = t \/ <<"unprotected", f>> \in excuse'
  <2>1. idem[Fingerprint(c)] # NoTask => UNCHANGED idem
    BY <1>6 DEF Reserve
  <2>2. CASE t # c
    <3>1. Owner(t)
      BY <1>2, <1>4, <1>6, <2>2 DEF Reserve, Step, StateTyped, Owner
    <3>2. NoTask # t
      BY ServiceAssumption
    <3>. QED BY <1>1, <1>3, <1>5, <1>6, <2>1, <3>1, <3>2 DEF Reserve, StateTyped
  <2>3. CASE t = c /\ ~Ok(o)
    BY <1>6, <2>3 DEF Reserve, Excused
  <2>4. CASE t = c /\ Ok(o)
    <3>1. at'[c] = "count" \/ Owner(c)
      BY <1>2, <1>4, <1>6, <2>4 DEF Reserve, Step, StateTyped, Owner
    <3>2. at'[c] = "count" => idem[f] = NoTask
      BY <1>6, <2>4 DEF Reserve, Step, StateTyped, Acquired
    <3>3. CASE idem[f] = NoTask
      BY <1>1, <1>6, <2>4, <3>3 DEF Reserve, Effect, Ok, StateTyped
    <3>. QED BY <1>3, <1>5, <2>1, <2>4, <3>1, <3>2, <3>3
  <2>. QED BY <2>2, <2>3, <2>4
<1>7. ASSUME NEW c \in Tasks, NEW o \in Outcomes, EnqueueAnyway(c, o)
      PROVE  idem'[f] = t \/ <<"unprotected", f>> \in excuse'
  BY <1>2, <1>3, <1>4, <1>5, <1>7 DEF EnqueueAnyway, Excused, Step, StateTyped, Owner
<1>8. ASSUME NEW c \in Tasks, Request(c), \A o \in Outcomes : ~Reserve(c, o) /\ ~EnqueueAnyway(c, o)
      PROVE  idem'[f] = t \/ <<"unprotected", f>> \in excuse'
  <2>1. UNCHANGED idem
    BY <1>8 DEF Request, CountTurn, KeepTurn, Enqueue, MarkQueued, Poll, Ask, Reuse, Announce, Receive,
         Deadline, Connect, Hangup, Push
  <2>2. at'[t] \in {"count", "keep", "add"} => at[t] \in {"count", "keep", "add"}
    BY <1>8 DEF Request, CountTurn, KeepTurn, Enqueue, MarkQueued, Poll, Ask, Reuse, Announce, Receive,
         Deadline, Connect, Hangup, Push, Step, End, Return, WaitFor, StateTyped
  <2>. QED BY <1>2, <1>3, <1>4, <1>5, <2>1, <2>2 DEF Owner
<1>9. ASSUME UNCHANGED idem, at'[t] \in {"count", "keep", "add"} => at[t] \in {"count", "keep", "add"}
      PROVE  idem'[f] = t \/ <<"unprotected", f>> \in excuse'
  BY <1>2, <1>3, <1>4, <1>5, <1>9 DEF Owner
<1>10. CASE \E g \in Fingerprints : KeyExpires(g)
  <2>1. Owner(t)
    BY <1>2, <1>4, <1>10 DEF KeyExpires, Owner
  <2>. QED BY <1>3, <1>5, <1>10, <2>1 DEF KeyExpires, Excused, StateTyped
<1>11. CASE \E w \in Workers : Working(w)
  BY <1>9, <1>11 DEF Working, apiVars
<1>12. CASE Listening \/ ApiRestart \/ \E u \in Tasks : StatusExpires(u)
  BY <1>9, <1>12 DEF Listening, ApiRestart, StatusExpires, apiVars
<1>. QED BY <1>6, <1>7, <1>8, <1>10, <1>11, <1>12 DEF Next

-----------------------------------------------------------------------------
(* Subscribers *)

Subscribing == {"waiting", "watching", "gone"}

\* A request either leaves the bus alone and goes on not listening or listening as before,
\* or starts to listen, or stops.
LEMMA RequestKinds ==
    ASSUME StateTyped, IntentOK, NEW c \in Tasks, Request(c)
    PROVE  /\ \A d \in Tasks \ {c} : at'[d] = at[d]
           /\ \/ subscribers' = subscribers /\ (at'[c] \in Subscribing <=> at[c] \in Subscribing)
              \/ /\ subscribers' = [subscribers EXCEPT ![Session(c)] = @ \cup {c}]
                 /\ at'[c] \in Subscribing
              \/ Unsubscribe(c) /\ at'[c] \notin Subscribing
<1>. USE DEF StateTyped, Step, End, ApiOnly, busVars, Subscribing
<1>1. Session(c) \in Sessions
  BY SessionTyped
<1>2. ASSUME NEW o \in Outcomes,
             Reserve(c, o) \/ EnqueueAnyway(c, o) \/ CountTurn(c, o) \/ KeepTurn(c, o) \/ Enqueue(c, o)
             \/ MarkQueued(c, o)
      PROVE  (\A d \in Tasks \ {c} : at'[d] = at[d]) /\ UNCHANGED subscribers
             /\ (at'[c] \in Subscribing <=> at[c] \in Subscribing)
  BY <1>2 DEF Reserve, EnqueueAnyway, CountTurn, KeepTurn, Enqueue, MarkQueued
<1>3. ASSUME NEW o \in Outcomes, Poll(c, o)
      PROVE  (\A d \in Tasks \ {c} : at'[d] = at[d]) /\ Unsubscribe(c) /\ at'[c] \notin Subscribing
  BY <1>3 DEF Poll, Return
<1>4. ASSUME NEW o \in Outcomes, Ask(c, o)
      PROVE  (\A d \in Tasks \ {c} : at'[d] = at[d]) /\ UNCHANGED subscribers
             /\ (at'[c] \in Subscribing <=> at[c] \in Subscribing)
  BY <1>4 DEF Ask
<1>5. CASE Reuse(c) \/ Announce(c)
  BY <1>5 DEF Reuse, Announce, WaitFor
<1>6. CASE Receive(c)
  BY <1>6 DEF Receive
<1>7. CASE Deadline(c) \/ Push(c)
  BY <1>7 DEF Deadline, Push, Return
<1>8. CASE Connect(c) \/ Hangup(c)
  BY <1>8 DEF Connect, Hangup, Subscribe
<1>. QED BY <1>2, <1>3, <1>4, <1>5, <1>6, <1>7, <1>8 DEF Request

LEMMA SubscribersInit == Init => SubscribersAccounted
BY DEF Init, BusInit, SubscribersAccounted

LEMMA SubscribersStep ==
    ASSUME StateTyped, IntentOK, SubscribersAccounted, Next
    PROVE  SubscribersAccounted'
<1>1. \A c \in Tasks : Session(c)' = Session(c)
  BY DEF Next, Session
<1>2. SUFFICES ASSUME NEW s \in Sessions
               PROVE  subscribers'[s] = {c \in Tasks : Session(c) = s /\ at'[c] \in Subscribing}
  BY <1>1 DEF SubscribersAccounted, Subscribing
<1>3. subscribers[s] = {c \in Tasks : Session(c) = s /\ at[c] \in Subscribing}
  BY DEF SubscribersAccounted, Subscribing
<1>4. subscribers \in [Sessions -> SUBSET Queues]
  BY DEF StateTyped, BusTypeOK
<1>5. ASSUME NEW c \in Tasks, Request(c)
      PROVE  subscribers'[s] = {d \in Tasks : Session(d) = s /\ at'[d] \in Subscribing}
  <2>1. \A d \in Tasks \ {c} : at'[d] = at[d]
    BY <1>5, RequestKinds
  <2>2. CASE subscribers' = subscribers /\ (at'[c] \in Subscribing <=> at[c] \in Subscribing)
    BY <1>3, <2>1, <2>2
  <2>3. CASE /\ subscribers' = [subscribers EXCEPT ![Session(c)] = @ \cup {c}]
             /\ at'[c] \in Subscribing
    BY <1>3, <1>4, <2>1, <2>3
  <2>4. CASE Unsubscribe(c) /\ at'[c] \notin Subscribing
    <3>1. subscribers'[s] = subscribers[s] \ {c}
      BY <2>4 DEF Unsubscribe
    <3>. QED BY <1>3, <2>1, <2>4, <3>1
  <2>. QED BY <1>5, <2>2, <2>3, <2>4, RequestKinds
<1>6. CASE ApiRestart
  BY <1>6 DEF ApiRestart, BusRestarts, StateTyped, Subscribing
<1>7. ASSUME UNCHANGED <<subscribers, at>>
      PROVE  subscribers'[s] = {c \in Tasks : Session(c) = s /\ at'[c] \in Subscribing}
  BY <1>3, <1>7
<1>8. ASSUME NEW w \in Workers, Working(w)
      PROVE  UNCHANGED <<subscribers, at>>
  BY <1>8 DEF Working, apiVars, Take, Reap, RequestStop, Exit, Crash, Restart, Handling, Begin, SetDone,
       SetFailed, Ack, HandleIntent, AckRefused, busVars
<1>9. CASE Listening
  BY <1>7, <1>9 DEF Listening, apiVars, Forward, LoseBroadcast, ListenerFails
<1>10. CASE (\E f \in Fingerprints : KeyExpires(f)) \/ (\E t \in Tasks : StatusExpires(t))
  BY <1>7, <1>10 DEF KeyExpires, StatusExpires, busVars
<1>. QED BY <1>5, <1>6, <1>7, <1>8, <1>9, <1>10 DEF Next

-----------------------------------------------------------------------------
(* Results *)

\* A result event names a task that was answered with a reply, and its session.
TrueResult(e) ==
    e.type = "final.result" => e.session = Session(e.task) /\ verdict[e.task] = "reply"

ResultsTrue ==
    /\ \A m \in wire : TrueResult(m.event)
    /\ \A c \in Tasks : \A i \in DOMAIN inbox[c] :
           inbox[c][i].session = Session(c) /\ TrueResult(inbox[c][i])
    /\ AnswerWithinSession

LEMMA ResultsInit == Init => ResultsTrue
BY ServiceAssumption DEF Init, BusInit, ResultsTrue, AnswerWithinSession

\* A verdict is given once.
LEMMA VerdictStays ==
    ASSUME StateTyped, Places, Next, NEW t \in Tasks, verdict[t] # "none"
    PROVE  verdict'[t] = verdict[t]
<1>1. ASSUME NEW w \in Workers, NEW u \in Tasks, Handling(w, u)
      PROVE  verdict'[t] = verdict[t]
  <2>1. run[t] # "running"
    BY DEF Places
  <2>. QED BY <1>1, <2>1 DEF Handling, Begin, SetDone, SetFailed, Ack, AckRefused, HandleIntent, At,
              StateTyped, StreamTypeOK
<1>. QED BY <1>1, StepKinds DEF Quiet, Enqueue, Take, Crash

\* TrueResult after the step, of an event as it is now.
StillTrue(e) ==
    e.type = "final.result" => e.session = Session(e.task) /\ verdict'[e.task] = "reply"

LEMMA ResultsKept ==
    ASSUME StateTyped, Places, Next, NEW e \in Event, TrueResult(e)
    PROVE  StillTrue(e)
BY VerdictStays DEF TrueResult, StillTrue, Event

Good(c, e) == e.session = Session(c) /\ TrueResult(e)
AllGood(c, s) == \A i \in DOMAIN s : Good(c, s[i])

LEMMA TailGood ==
    ASSUME NEW c \in Tasks, NEW s \in Seq(Event), s # << >>, AllGood(c, s)
    PROVE  AllGood(c, Tail(s)) /\ Good(c, Head(s))
<1>1. \A i \in DOMAIN Tail(s) : i + 1 \in DOMAIN s /\ Tail(s)[i] = s[i + 1]
  OBVIOUS
<1>2. 1 \in DOMAIN s /\ Head(s) = s[1]
  OBVIOUS
<1>. QED BY <1>1, <1>2 DEF AllGood

LEMMA DeliveredGood ==
    ASSUME BusTypeOK, SubscribersAccounted, ResultsTrue, NEW e \in Event, TrueResult(e), NEW c \in Tasks
    PROVE  AllGood(c, Delivered(e, subscribers)[c])
<1>1. inbox[c] \in Seq(Event) /\ AllGood(c, inbox[c]) /\ Queues = Tasks
  BY ServiceAssumption DEF BusTypeOK, ResultsTrue, AllGood, Good
<1>2. CASE c \in subscribers[e.session]
  <2>1. e.session = Session(c)
    BY <1>2 DEF SubscribersAccounted, Event
  <2>2. Delivered(e, subscribers)[c] = Append(inbox[c], e)
    BY <1>1, <1>2 DEF Delivered
  <2>3. \A i \in DOMAIN Append(inbox[c], e) :
           \/ i \in DOMAIN inbox[c] /\ Append(inbox[c], e)[i] = inbox[c][i]
           \/ Append(inbox[c], e)[i] = e
    BY <1>1
  <2>. QED BY <1>1, <2>1, <2>2, <2>3 DEF AllGood, Good
<1>3. CASE c \notin subscribers[e.session]
  BY <1>1, <1>3 DEF Delivered
<1>. QED BY <1>2, <1>3

LEMMA RequestInboxes ==
    ASSUME StateTyped, IntentOK, SubscribersAccounted, ResultsTrue, NEW d \in Tasks, Request(d)
    PROVE  /\ \A c \in Tasks : AllGood(c, inbox'[c])
           /\ \A m \in wire' : m \in wire \/ m.event.type = "task.queued"
           /\ \A c \in Tasks : \/ heard'[c] = heard[c]
                               \/ \E e \in Event : e.type = "final.result" /\ Good(c, e) /\ heard'[c] = e.task
<1>. USE DEF StateTyped, Step, End, ApiOnly, busVars
<1>1. Queues = Tasks /\ Session(d) \in Sessions /\ Session(d) = intent[d].session
  BY SessionTyped, ServiceAssumption DEF Session
<1>2. \A c \in Tasks : inbox[c] \in Seq(Event) /\ AllGood(c, inbox[c]) /\ AllGood(c, << >>)
  BY <1>1 DEF BusTypeOK, ResultsTrue, AllGood, Good
<1>3. ASSUME NEW o \in Outcomes,
             Reserve(d, o) \/ EnqueueAnyway(d, o) \/ CountTurn(d, o) \/ KeepTurn(d, o) \/ Enqueue(d, o)
             \/ MarkQueued(d, o) \/ Ask(d, o)
      PROVE  UNCHANGED <<inbox, wire, heard>>
  BY <1>3 DEF Reserve, EnqueueAnyway, CountTurn, KeepTurn, Enqueue, MarkQueued, Ask
<1>4. CASE Reuse(d) \/ Connect(d) \/ Hangup(d)
  BY <1>2, <1>4 DEF Reuse, Connect, Hangup, WaitFor
<1>5. CASE Announce(d)
  <2>. DEFINE e == TradeEvent(Session(d), "task.queued", d)
  <2>1. e \in Event /\ TrueResult(e) /\ e.type = "task.queued"
    BY <1>1 DEF TradeEvent, Event, EventTypes, TrueResult
  <2>2. /\ inbox' = Delivered(e, subscribers) /\ UNCHANGED heard
        /\ wire' = wire \cup {[origin |-> Api, event |-> e]}
    BY <1>5 DEF Announce, Broadcast
  <2>. HIDE DEF e
  <2>. QED BY <2>1, <2>2, DeliveredGood
<1>6. CASE Receive(d)
  <2>1. inbox[d] # << >> /\ UNCHANGED wire
    BY <1>6 DEF Receive
  <2>2. Head(inbox[d]) \in Event /\ Good(d, Head(inbox[d])) /\ AllGood(d, Tail(inbox[d]))
    BY <1>2, <2>1, TailGood
  <2>3. \A c \in Tasks : inbox'[c] \in {inbox[c], << >>} \/ (c = d /\ inbox'[c] = Tail(inbox[c]))
    BY <1>1, <1>6 DEF Receive, Unsubscribe, BusTypeOK
  <2>4. \A c \in Tasks : heard'[c] = heard[c]
            \/ (c = d /\ Head(inbox[d]).type = "final.result" /\ heard'[c] = Head(inbox[d]).task)
    BY <1>6 DEF Receive
  <2>. QED BY <1>2, <2>1, <2>2, <2>3, <2>4
<1>7. ASSUME Unsubscribe(d), UNCHANGED <<wire, heard>>
      PROVE  /\ \A c \in Tasks : AllGood(c, inbox'[c])
             /\ UNCHANGED <<wire, heard>>
  BY <1>1, <1>2, <1>7 DEF Unsubscribe, BusTypeOK
<1>8. ASSUME NEW o \in Outcomes, Poll(d, o) \/ Deadline(d)
      PROVE  Unsubscribe(d) /\ UNCHANGED <<wire, heard>>
  BY <1>8 DEF Poll, Deadline, Return
<1>9. Deadline(d) => Unsubscribe(d) /\ UNCHANGED <<wire, heard>>
  BY DEF Deadline, Return
<1>10. CASE Push(d)
  <2>1. inbox[d] # << >> /\ UNCHANGED <<wire, heard>>
    BY <1>10 DEF Push, Return
  <2>2. AllGood(d, Tail(inbox[d]))
    BY <1>2, <2>1, TailGood
  <2>3. \A c \in Tasks : inbox'[c] \in {inbox[c], << >>} \/ (c = d /\ inbox'[c] = Tail(inbox[c]))
    BY <1>1, <1>10 DEF Push, Return, Unsubscribe, BusTypeOK
  <2>. QED BY <1>2, <2>1, <2>2, <2>3
<1>. QED BY <1>2, <1>3, <1>4, <1>5, <1>6, <1>7, <1>8, <1>9, <1>10 DEF Request

LEMMA ResultsStep ==
    ASSUME StateTyped, IntentOK, Places, SubscribersAccounted, ResultsTrue, Next
    PROVE  ResultsTrue'
<1>1. StateTyped'
  BY RequestTypes, WorkingTypes, OtherTypes DEF Next
<1>2. UNCHANGED intent
  BY DEF Next
<1>3. \A c \in Tasks : heard[c] # NoTask =>
          heard[c] \in Tasks /\ Session(heard[c]) = Session(c) /\ verdict[heard[c]] = "reply"
  BY DEF ResultsTrue, AnswerWithinSession, StateTyped
<1>4. \A t \in Tasks : verdict[t] = "reply" => verdict'[t] = "reply"
  BY VerdictStays
<1>5. /\ \A c \in Tasks : AllGood(c, inbox'[c])
      /\ \A m \in wire' : m \in wire \/ StillTrue(m.event)
      /\ \A c \in Tasks : \/ heard'[c] = heard[c]
                          \/ \E e \in Event : e.type = "final.result" /\ Good(c, e) /\ heard'[c] = e.task
  <2>1. \A c \in Tasks : inbox[c] \in Seq(Event) /\ AllGood(c, inbox[c]) /\ AllGood(c, << >>)
    BY ServiceAssumption DEF StateTyped, BusTypeOK, ResultsTrue, AllGood, Good
  <2>2. CASE \E c \in Tasks : Request(c)
    <3>1. \A m \in wire' : m.event.type = "task.queued" => StillTrue(m.event)
      BY DEF StillTrue
    <3>. QED BY <2>2, <3>1, RequestInboxes
  <2>3. ASSUME NEW w \in Workers, Working(w)
        PROVE  <<inbox, heard>>' = <<inbox, heard>> /\ \A m \in wire' : m \in wire \/ StillTrue(m.event)
    <3>1. UNCHANGED <<inbox, heard>>
      BY <2>3 DEF Working, apiVars, Take, Reap, RequestStop, Exit, Crash, Restart, Handling, Begin, SetDone,
           SetFailed, Ack, HandleIntent, AckRefused, busVars
    <3>2. ASSUME NEW t \in Tasks, HandleIntent(w, t, "reply")
          PROVE  \A m \in wire' : m \in wire \/ StillTrue(m.event)
      <4>. DEFINE e == TradeEvent(intent[t].session, "final.result", t)
      <4>1. wire' = wire \cup {[origin |-> w, event |-> e]} /\ verdict'[t] = "reply"
        BY <3>2 DEF HandleIntent, Broadcast, StateTyped, StreamTypeOK
      <4>2. e.session = Session(e.task) /\ e.task = t
        BY DEF TradeEvent, Session
      <4>3. StillTrue(e)
        BY <4>1, <4>2 DEF StillTrue
      <4>. HIDE DEF e
      <4>4. ASSUME NEW m \in wire', m \notin wire
            PROVE  StillTrue(m.event)
        <5>1. m.event = e
          BY <4>1, <4>4
        <5>. QED BY <4>3, <5>1
      <4>. QED BY <4>4
    <3>3. wire' = wire \/ \E t \in Tasks : HandleIntent(w, t, "reply")
      BY <2>3 DEF Working, Take, Reap, RequestStop, Exit, Crash, Restart, Handling, Begin, SetDone,
           SetFailed, Ack, HandleIntent, AckRefused, busVars
    <3>. QED BY <3>1, <3>2, <3>3
  <2>4. CASE Listening
    <3>1. UNCHANGED heard /\ wire' \subseteq wire
      BY <2>4 DEF Listening, apiVars, Forward, LoseBroadcast, ListenerFails
    <3>2. ASSUME NEW m \in wire, Forward(m)
          PROVE  \A c \in Tasks : AllGood(c, inbox'[c])
      <4>1. m.event \in Event /\ TrueResult(m.event)
        BY DEF StateTyped, BusTypeOK, ResultsTrue
      <4>. QED BY <2>1, <3>2, <4>1, DeliveredGood DEF Forward, StateTyped
    <3>3. inbox' = inbox \/ \E m \in wire : Forward(m)
      BY <2>4 DEF Listening, LoseBroadcast, ListenerFails
    <3>. QED BY <2>1, <3>1, <3>2, <3>3
  <2>5. CASE ApiRestart
    BY <2>1, <2>5, ServiceAssumption DEF ApiRestart, BusRestarts
  <2>6. CASE (\E f \in Fingerprints : KeyExpires(f)) \/ (\E t \in Tasks : StatusExpires(t))
    BY <2>1, <2>6 DEF KeyExpires, StatusExpires, busVars
  <2>. QED BY <2>1, <2>2, <2>3, <2>4, <2>5, <2>6 DEF Next
<1>6. \A m \in wire' : StillTrue(m.event)
  <2>1. ASSUME NEW m \in wire PROVE StillTrue(m.event)
    <3>1. m.event \in Event /\ TrueResult(m.event)
      BY DEF StateTyped, BusTypeOK, ResultsTrue
    <3>. QED BY <3>1, ResultsKept
  <2>. QED BY <1>5, <2>1
<1>7. ASSUME NEW c \in Tasks, NEW i \in DOMAIN inbox'[c]
      PROVE  inbox'[c][i].session = Session(c) /\ StillTrue(inbox'[c][i])
  <2>1. inbox'[c][i] \in Event
    BY <1>1, ServiceAssumption DEF StateTyped, BusTypeOK
  <2>2. Good(c, inbox'[c][i])
    BY <1>5 DEF AllGood
  <2>. QED BY <2>1, <2>2, ResultsKept DEF Good
<1>8. ASSUME NEW c \in Tasks, heard'[c] # NoTask
      PROVE  Session(heard'[c]) = Session(c) /\ verdict'[heard'[c]] = "reply"
  <2>1. CASE heard'[c] = heard[c]
    BY <1>3, <1>4, <1>8, <2>1
  <2>2. ASSUME NEW e \in Event, e.type = "final.result", Good(c, e), heard'[c] = e.task
        PROVE  Session(heard'[c]) = Session(c) /\ verdict'[heard'[c]] = "reply"
    <3>1. e.task \in Tasks /\ Session(e.task) = Session(c) /\ verdict[e.task] = "reply"
      BY <2>2 DEF Event, Good, TrueResult
    <3>. QED BY <1>4, <2>2, <3>1
  <2>. QED BY <1>5, <2>1, <2>2
<1>. QED BY <1>2, <1>6, <1>7, <1>8 DEF ResultsTrue, AnswerWithinSession, TrueResult, StillTrue, Session

-----------------------------------------------------------------------------
(* Final statuses *)

Explained(t) ==
    status[t] \in Terminal \/ <<"overwritten", t>> \in excuse \/ <<"expired", t>> \in excuse

\* A handler acknowledges what it has recorded, and what it could not record stays pending.
Records ==
    \A t \in Tasks : /\ run[t] = "acking" => Explained(t)
                     /\ Finished(t) => Explained(t) \/ Stuck(t)

LEMMA RecordsGivesFinished == Records => FinishedIsRecorded
BY DEF Records, FinishedIsRecorded, Explained

LEMMA ExplainedStays ==
    ASSUME StateTyped, Next, NEW t \in Tasks, run[t] \in {"acking", "over"}, Explained(t)
    PROVE  Explained(t)'
<1>1. excuse \subseteq excuse'
  BY ExcusesStay
<1>2. ASSUME status'[t] = status[t] PROVE Explained(t)'
  BY <1>1, <1>2 DEF Explained
<1>3. ASSUME NEW c \in Tasks, Request(c) PROVE Explained(t)'
  <2>1. ASSUME NEW o \in Outcomes, MarkQueued(c, o) PROVE Explained(t)'
    <3>1. CASE t = c
      BY <1>1, <2>1, <3>1 DEF MarkQueued, SetStatus, Excused, Explained
    <3>2. CASE t # c
      BY <1>2, <2>1, <3>2 DEF MarkQueued, SetStatus, StateTyped, StreamTypeOK
    <3>. QED BY <3>1, <3>2
  <2>2. status' = status \/ \E o \in Outcomes : MarkQueued(c, o)
    BY <1>3 DEF Request, Reserve, EnqueueAnyway, CountTurn, KeepTurn, Enqueue, Poll, Ask, Reuse, Announce,
         Receive, Deadline, Connect, Hangup, Push, streamVars, ApiOnly
  <2>. QED BY <1>2, <2>1, <2>2
<1>4. ASSUME NEW w \in Workers, Working(w) PROVE Explained(t)'
  <2>1. ASSUME NEW u \in Tasks, Handling(w, u) PROVE status'[t] = status[t]
    BY <2>1 DEF Handling, Begin, SetDone, SetFailed, Ack, AckRefused, HandleIntent, SetStatus, At,
         StateTyped, StreamTypeOK
  <2>2. status' = status \/ \E u \in Tasks : Handling(w, u)
    BY <1>4 DEF Working, Take, Reap, RequestStop, Exit, Crash, Restart
  <2>. QED BY <1>2, <2>1, <2>2
<1>5. ASSUME NEW u \in Tasks, StatusExpires(u) PROVE Explained(t)'
  BY <1>1, <1>2, <1>5 DEF StatusExpires, Excused, Explained, StateTyped, StreamTypeOK
<1>6. CASE Listening \/ ApiRestart \/ \E f \in Fingerprints : KeyExpires(f)
  BY <1>2, <1>6 DEF Listening, ApiRestart, KeyExpires, streamVars
<1>. QED BY <1>3, <1>4, <1>5, <1>6 DEF Next

LEMMA RecordsStep ==
    ASSUME MaxDeliveries > 1, StateTyped, Places, Records, Next
    PROVE  Records'
<1>1. SUFFICES ASSUME NEW t \in Tasks
               PROVE  /\ run'[t] = "acking" => Explained(t)'
                      /\ run'[t] = "over" => Explained(t)' \/ Stuck(t)'
  BY DEF Records, Finished
<1>2. run[t] = "acking" => Explained(t)'
  BY ExplainedStays DEF Records
<1>3. run[t] = "over" => Explained(t)' \/ Stuck(t)
  BY ExplainedStays DEF Records, Finished
<1>4. ASSUME run'[t] = run[t], Stuck(t) => Stuck(t)'
      PROVE  /\ run'[t] = "acking" => Explained(t)'
             /\ run'[t] = "over" => Explained(t)' \/ Stuck(t)'
  BY <1>2, <1>3, <1>4
<1>5. CASE Quiet
  BY <1>4, <1>5 DEF Quiet, Stuck
<1>6. ASSUME NEW c \in Tasks, NEW o \in Outcomes, Enqueue(c, o)
      PROVE  run'[t] = run[t] /\ (Stuck(t) => Stuck(t)')
  BY <1>6 DEF Enqueue, Stuck
<1>7. ASSUME NEW w \in Workers, NEW o \in Outcomes, Take(w, o)
      PROVE  /\ run'[t] = "acking" => Explained(t)'
             /\ run'[t] = "over" => Explained(t)' \/ Stuck(t)'
  <2>1. Stuck(t) => Stuck(t)'
    BY <1>7, TakeMoves DEF Places, StateTyped
  <2>2. run'[t] = run[t] \/ run'[t] \in {"taken", "lost"}
    BY <1>7 DEF Take
  <2>. QED BY <1>4, <2>1, <2>2
<1>8. ASSUME NEW w \in Workers, Crash(w)
      PROVE  /\ run'[t] = "acking" => Explained(t)'
             /\ run'[t] = "over" => Explained(t)' \/ Stuck(t)'
  <2>1. (run'[t] = run[t] \/ run'[t] = "lost") /\ (Stuck(t) => Stuck(t)')
    BY <1>8 DEF Crash, Stuck
  <2>. QED BY <1>4, <2>1
<1>9. ASSUME NEW w \in Workers, NEW u \in Tasks, Handling(w, u)
      PROVE  /\ run'[t] = "acking" => Explained(t)'
             /\ run'[t] = "over" => Explained(t)' \/ Stuck(t)'
  <2>1. CASE t # u
    <3>1. run'[t] = run[t] /\ (Stuck(t) => Stuck(t)')
      BY <1>9, <2>1 DEF Handling, Begin, SetDone, SetFailed, Ack, AckRefused, HandleIntent, Excepted, Acked, Goto,
           Stuck, StateTyped, StreamTypeOK
    <3>. QED BY <1>4, <3>1
  <2>2. CASE t = u
    <3>1. Live(t) /\ Stuck(t)
      BY <1>9, <2>2 DEF Handling, Begin, SetDone, SetFailed, Ack, AckRefused, HandleIntent, At, Live, Places
    <3>2. ASSUME NEW o \in Outcomes, Begin(w, u, o) \/ SetFailed(w, u, o)
          PROVE  Stuck(t)' /\ run'[t] # "acking"
      BY <2>2, <3>1, <3>2, StreamAssumption DEF Begin, SetFailed, Excepted, Deliveries, Goto, Stuck,
           StateTyped, StreamTypeOK
    <3>3. AckRefused(w, u) => Stuck(t)' /\ run'[t] # "acking"
      BY <2>2, <3>1, StreamAssumption DEF AckRefused, Excepted, Deliveries, Goto, Stuck, StateTyped, StreamTypeOK
    <3>4. ASSUME NEW o \in Outcomes, SetDone(w, u, o)
          PROVE  run'[t] # "over" /\ (run'[t] = "acking" => Explained(t)')
      BY <2>2, <3>4 DEF SetDone, Goto, SetStatus, Effect, Ok, Explained, Terminal, StateTyped, StreamTypeOK
    <3>5. ASSUME NEW o \in Outcomes, Ack(w, u, o)
          PROVE  Explained(t)'
      BY <1>2, <2>2, <3>5 DEF Ack, At
    <3>6. ASSUME NEW said \in {"reply", "apology"}, HandleIntent(w, u, said)
          PROVE  run'[t] = "replied"
      BY <2>2, <3>6 DEF HandleIntent, Goto, StateTyped, StreamTypeOK
    <3>. QED BY <1>9, <3>2, <3>3, <3>4, <3>5, <3>6 DEF Handling
  <2>. QED BY <2>1, <2>2
<1>. QED BY <1>4, <1>5, <1>6, <1>7, <1>8, <1>9, StepKinds

-----------------------------------------------------------------------------
(* The life of a task *)

phases == [t \in Tasks |-> Phase(t)]
hands == [t \in Tasks |-> Handed(t)]
SameLife == phases' = phases /\ hands' = hands /\ luck' = luck

LEMMA PhaseValues ==
    ASSUME StateTyped, Places, NEW t \in Tasks
    PROVE  /\ InStream(t) => Phase(t) = "waiting"
           /\ ~InStream(t) /\ verdict[t] # "none" => Phase(t) = "answered"
           /\ ~InStream(t) /\ run[t] = "none" => Phase(t) = "unsent"
           /\ run[t] \in {"taken", "running"} => Phase(t) = "held"
           /\ Live(t) => Phase(t) \in {"held", "answered"} /\ (Phase(t) = "held" <=> verdict[t] = "none")
<1>1. /\ InStream(t) => run[t] = "none"
      /\ run[t] = "none" => verdict[t] = "none"
      /\ run[t] \in {"taken", "running"} => verdict[t] = "none"
      /\ run[t] \in {"replied", "excused", "acking"} => verdict[t] # "none"
  BY DEF Places
<1>2. CASE InStream(t)
  BY <1>1, <1>2 DEF Phase, Unanswered, Live
<1>3. CASE ~InStream(t) /\ verdict[t] # "none"
  BY <1>1, <1>3 DEF Phase, Unanswered, Live
<1>4. CASE ~InStream(t) /\ verdict[t] = "none"
  BY <1>1, <1>4 DEF Phase, Unanswered, Live
<1>. QED BY <1>2, <1>3, <1>4

LEMMA EnqueueMoves ==
    ASSUME StateTyped, NEW c \in Tasks, NEW o \in Outcomes, Enqueue(c, o)
    PROVE  \A t \in Tasks : InStream(t)' <=> InStream(t) \/ (t = c /\ Effect(o))
<1>. DEFINE q == Priority(c)
<1>1. q \in Streams
  BY DEF Priority, Streams
<1>2. stream' = IF Effect(o) THEN [stream EXCEPT ![q] = Append(@, c)] ELSE stream
  BY DEF Enqueue, Add
<1>3. /\ stream \in [Streams -> Seq(Tasks)]
      /\ \A st \in Streams : DOMAIN stream[st] = 1 .. Len(stream[st]) /\ Len(stream[st]) \in Nat
  BY DEF StateTyped, StreamTypeOK
<1>. HIDE DEF q
<1>4. CASE ~Effect(o)
  BY <1>2, <1>4 DEF InStream
<1>5. CASE Effect(o)
  <2>1. \A st \in Streams : DOMAIN stream'[st] = IF st = q THEN 1 .. Len(stream[q]) + 1 ELSE DOMAIN stream[st]
    BY <1>1, <1>2, <1>3, <1>5
  <2>2. \A st \in Streams : \A i \in DOMAIN stream'[st] :
           IF st = q /\ i = Len(stream[q]) + 1 THEN stream'[st][i] = c
           ELSE i \in DOMAIN stream[st] /\ stream'[st][i] = stream[st][i]
    BY <1>1, <1>2, <1>3, <1>5, <2>1
  <2>3. \A st \in Streams : \A i \in DOMAIN stream[st] :
           i \in DOMAIN stream'[st] /\ stream'[st][i] = stream[st][i]
    BY <1>1, <1>2, <1>3, <1>5, <2>1
  <2>4. Len(stream[q]) + 1 \in DOMAIN stream'[q] /\ stream'[q][Len(stream[q]) + 1] = c
    BY <1>1, <1>3, <2>1, <2>2
  <2>5. ASSUME NEW t \in Tasks PROVE InStream(t)' <=> InStream(t) \/ t = c
    BY <1>1, <2>2, <2>3, <2>4 DEF InStream
  <2>. QED BY <1>5, <2>5
<1>. QED BY <1>4, <1>5

\* Every step of the queue, the workers and the calls is one of the life of tasks, or none.
LEMMA PhaseStep ==
    ASSUME StateTyped, IntentOK, Places, Places', StateTyped', Next
    PROVE  Lifecycle!Once \/ SameLife
<1>. USE DEF phases, hands, SameLife
<1>1. luck' = luck \/ luck' = luck - 1
  BY LuckStep
<1>0. ASSUME NEW t \in Tasks, run'[t] = "none" <=> run[t] = "none"
      PROVE  Handed(t)' = Handed(t)
  BY <1>0 DEF Handed, Deliveries
<1>2. ASSUME \A t \in Tasks : Phase(t)' = Phase(t), \A t \in Tasks : Handed(t)' = Handed(t)
      PROVE  Lifecycle!Once \/ SameLife
  BY <1>1, <1>2 DEF Lifecycle!Once, Lifecycle!Mishap, Lifecycle!Misfortune
<1>3. ASSUME NEW t \in Tasks, InStream(t)' <=> InStream(t), run'[t] = run[t], verdict'[t] = verdict[t],
             t \in dead' <=> t \in dead
      PROVE  Phase(t)' = Phase(t)
  BY <1>3 DEF Phase, Unanswered
<1>4. CASE Quiet
  BY <1>0, <1>2, <1>3, <1>4 DEF Quiet, InStream
<1>5. ASSUME NEW c \in Tasks, NEW o \in Outcomes, Enqueue(c, o)
      PROVE  Lifecycle!Once \/ SameLife
  <2>1. UNCHANGED <<run, verdict, dead>> /\ ~Enqueued(c)
    BY <1>5 DEF Enqueue, Places, Step, Early
  <2>2. \A t \in Tasks : InStream(t)' <=> InStream(t) \/ (t = c /\ Effect(o))
    BY <1>5, EnqueueMoves
  <2>3. \A t \in Tasks \ {c} : Phase(t)' = Phase(t)
    BY <1>3, <2>1, <2>2
  <2>6. \A t \in Tasks : Handed(t)' = Handed(t)
    BY <1>0, <2>1
  <2>4. CASE Effect(o)
    <3>1. Phase(c) = "unsent"
      BY <2>1, PhaseValues DEF Enqueued
    <3>2. run'[c] = "none" /\ verdict'[c] = "none"
      BY <2>1 DEF Enqueued, Places
    <3>3. InStream(c)'
      BY <2>2, <2>4
    <3>4. Phase(c)' = "waiting"
      BY <3>2, <3>3 DEF Phase, Unanswered
    <3>. QED BY <1>1, <2>3, <2>6, <3>1, <3>4 DEF Lifecycle!Once, Lifecycle!Accept, Lifecycle!Move
  <2>5. CASE ~Effect(o)
    BY <1>2, <1>3, <2>1, <2>2, <2>5, <2>6
  <2>. QED BY <2>4, <2>5
<1>6. ASSUME NEW w \in Workers, NEW o \in Outcomes, Take(w, o)
      PROVE  Lifecycle!Once \/ SameLife
  <2>. DEFINE S == {t \in Tasks : t \in Read(FreeSlots(w))}
  <2>1. UNCHANGED <<verdict, dead>>
    BY <1>6 DEF Take
  <2>2. \A t \in Tasks :
            IF t \in S
            THEN /\ InStream(t) /\ ~InStream(t)' /\ run'[t] = IF Ok(o) THEN "taken" ELSE "lost"
            ELSE (InStream(t)' <=> InStream(t)) /\ run'[t] = run[t]
    BY <1>6, TakeMoves DEF Places, StateTyped
  <2>3. S # {}
    <3>1. FreeSlots(w) \in Nat
      BY FreeSlotsType DEF StateTyped
    <3>2. Read(FreeSlots(w)) # {} /\ Read(FreeSlots(w)) \subseteq Tasks
      BY <1>6, <3>1, ReadSplits DEF Take, Read, Streams, StateTyped
    <3>. QED BY <3>2
  <2>4. IF Ok(o) THEN luck' = luck ELSE luck' = luck - 1
    BY <1>6 DEF Take, Call, Mishap
  <2>. HIDE DEF S
  <2>5. \A t \in Tasks : t \in S => /\ verdict[t] = "none" /\ Phase(t) = "waiting"
                                      /\ run[t] = "none" /\ t \notin dead
    BY <2>2, PhaseValues DEF Places
  <2>6. \A t \in Tasks \ S : Phase(t)' = Phase(t)
    BY <1>3, <2>1, <2>2
  <2>7. S \in SUBSET Tasks
    BY DEF S
  <2>10. Lifecycle!Deliver(S)
    <3>1. \A t \in Tasks : t \in S => Handed(t) = 0 /\ Handed(t)' = 1
      BY <2>2, <2>5 DEF Handed, Deliveries
    <3>2. \A t \in Tasks \ S : Handed(t)' = Handed(t)
      BY <1>0, <2>2
    <3>. QED BY <3>1, <3>2 DEF Lifecycle!Deliver
  <2>8. CASE Ok(o)
    <3>1. \A t \in Tasks : t \in S => Phase(t)' = "held"
      BY <2>1, <2>2, <2>5, <2>8 DEF Phase, Unanswered
    <3>2. Lifecycle!Hold(S)
      BY <2>3, <2>4, <2>5, <2>6, <2>7, <2>8, <2>10, <3>1 DEF Lifecycle!Hold, Lifecycle!Move
    <3>. QED BY <2>7, <3>2 DEF Lifecycle!Once
  <2>9. CASE ~Ok(o)
    <3>1. \A t \in Tasks : t \in S => Phase(t)' = "stranded"
      BY <2>1, <2>2, <2>5, <2>9 DEF Phase, Unanswered
    <3>2. Lifecycle!Lose(S)
      BY <2>3, <2>4, <2>5, <2>6, <2>7, <2>9, <2>10, <3>1
      DEF Lifecycle!Lose, Lifecycle!Move, Lifecycle!Misfortune
    <3>. QED BY <2>7, <3>2 DEF Lifecycle!Once
  <2>. QED BY <2>8, <2>9
<1>7. ASSUME NEW w \in Workers, Crash(w)
      PROVE  Lifecycle!Once \/ SameLife
  <2>. DEFINE S == {t \in Tasks : t \in slots[w] /\ Live(t) /\ verdict[t] = "none"}
  <2>1. UNCHANGED <<stream, verdict, dead>> /\ luck' = luck - 1
    BY <1>7 DEF Crash, Mishap
  <2>2. \A t \in Tasks : InStream(t)' <=> InStream(t)
    BY <2>1 DEF InStream
  <2>3. \A t \in Tasks : run'[t] = IF t \in slots[w] /\ Live(t) THEN "lost" ELSE run[t]
    BY <1>7 DEF Crash
  <2>4. ASSUME NEW t \in Tasks, t \in S
        PROVE  Phase(t) = "held" /\ Phase(t)' = "stranded"
    <3>1. ~InStream(t) /\ run'[t] = "lost" /\ verdict'[t] = "none"
      BY <2>1, <2>3, <2>4 DEF Places, Live
    <3>. QED BY <2>2, <2>4, <3>1, PhaseValues DEF Phase, Unanswered
  <2>5. ASSUME NEW t \in Tasks, t \notin S
        PROVE  Phase(t)' = Phase(t)
    <3>1. CASE run'[t] = run[t]
      BY <1>3, <2>1, <2>2, <3>1
    <3>2. CASE run'[t] # run[t]
      <4>1. verdict[t] # "none" /\ ~InStream(t)
        BY <2>3, <2>5, <3>2 DEF Places, Live
      <4>. QED BY <2>1, <2>2, <4>1 DEF Phase, Unanswered
    <3>. QED BY <3>1, <3>2
  <2>6. S \in SUBSET Tasks
    OBVIOUS
  <2>9. \A t \in Tasks : Handed(t)' = Handed(t)
    BY <1>0, <2>3 DEF Live
  <2>. HIDE DEF S
  <2>7. CASE S = {}
    BY <1>2, <2>5, <2>7, <2>9
  <2>8. CASE S # {}
    <3>1. Lifecycle!Strand(S)
      BY <2>1, <2>4, <2>5, <2>6, <2>8, <2>9
      DEF Lifecycle!Strand, Lifecycle!Move, Lifecycle!Misfortune
    <3>. QED BY <2>6, <3>1 DEF Lifecycle!Once
  <2>. QED BY <2>7, <2>8
<1>8. ASSUME NEW w \in Workers, NEW t \in Tasks, Handling(w, t)
      PROVE  Lifecycle!Once \/ SameLife
  <2>1. UNCHANGED stream
    BY <1>8 DEF Handling, Begin, SetDone, SetFailed, Ack, AckRefused, HandleIntent
  <2>2. \A u \in Tasks : InStream(u)' <=> InStream(u)
    BY <2>1 DEF InStream
  <2>3. \A u \in Tasks \ {t} : Phase(u)' = Phase(u)
    <3>1. \A u \in Tasks \ {t} : /\ run'[u] = run[u] /\ verdict'[u] = verdict[u]
                                 /\ u \in dead' <=> u \in dead
      BY <1>8 DEF Handling, Begin, SetDone, SetFailed, Ack, AckRefused, HandleIntent, Excepted, Goto,
           StateTyped, StreamTypeOK
    <3>. QED BY <1>3, <2>2, <3>1
  <2>4. Live(t) /\ ~InStream(t)
    BY <1>8 DEF Handling, Begin, SetDone, SetFailed, Ack, AckRefused, HandleIntent, At, Live, Places
  <2>7. \A u \in Tasks : Handed(u)' = Handed(u)
    <3>1. \A u \in Tasks : run'[u] = "none" <=> run[u] = "none"
      BY <1>8, <2>4
      DEF Handling, Begin, SetDone, SetFailed, Ack, AckRefused, HandleIntent, Excepted, Goto,
          StateTyped, StreamTypeOK, Live
    <3>. QED BY <1>0, <3>1
  <2>5. CASE verdict[t] # "none"
    <3>1. verdict'[t] # "none"
      BY <2>5, VerdictStays
    <3>2. Phase(t)' = Phase(t)
      BY <2>2, <2>4, <2>5, <3>1 DEF Phase, Unanswered
    <3>. QED BY <1>2, <2>3, <2>7, <3>2
  <2>6. CASE verdict[t] = "none"
    <3>1. Phase(t) = "held" /\ run[t] \in {"taken", "running"}
      BY <2>4, <2>6, PhaseValues DEF Places, Live
    <3>2. ASSUME NEW o \in Outcomes, Begin(w, t, o), Ok(o)
          PROVE  Phase(t)' = "held"
      <4>1. run'[t] = "running" /\ UNCHANGED verdict
        BY <3>2 DEF Begin, Goto, StateTyped, StreamTypeOK
      <4>. QED BY <2>2, <2>4, <2>6, <4>1 DEF Phase, Unanswered
    <3>3. ASSUME NEW o \in Outcomes, Begin(w, t, o), ~Ok(o)
          PROVE  /\ luck' = luck - 1
                 /\ \/ Phase(t)' = "stranded"
                    \/ Phase(t)' = "dead" /\ Handed(t) >= MaxDeliveries
      <4>1. run'[t] = "over" /\ UNCHANGED verdict /\ luck' = luck - 1
        BY <3>3 DEF Begin, Excepted, Goto, Call, Mishap, StateTyped, StreamTypeOK
      <4>2. ~InStream(t)' /\ verdict'[t] = "none"
        BY <2>2, <2>4, <2>6, <4>1
      <4>3. CASE Deliveries(t) >= MaxDeliveries
        <5>1. t \in dead'
          BY <3>3, <4>3 DEF Begin, Excepted
        <5>2. Phase(t)' = "dead"
          BY <4>1, <4>2, <5>1 DEF Phase, Unanswered
        <5>3. Handed(t) >= MaxDeliveries
          BY <3>1, <4>3 DEF Handed
        <5>. QED BY <4>1, <5>2, <5>3
      <4>4. CASE ~(Deliveries(t) >= MaxDeliveries)
        <5>1. t \notin dead'
          BY <3>1, <3>3, <4>4 DEF Begin, Excepted, Places
        <5>. QED BY <4>1, <4>2, <5>1 DEF Phase, Unanswered
      <4>. QED BY <4>3, <4>4
    <3>4. ASSUME NEW said \in {"reply", "apology"}, HandleIntent(w, t, said)
          PROVE  Phase(t)' = "answered" /\ luck' = luck
      <4>1. verdict'[t] # "none" /\ luck' = luck
        BY <3>4 DEF HandleIntent, StateTyped, StreamTypeOK
      <4>. QED BY <2>2, <2>4, <4>1 DEF Phase, Unanswered
    <3>5. \/ \E o \in Outcomes : Begin(w, t, o)
          \/ \E said \in {"reply", "apology"} : HandleIntent(w, t, said)
      BY <1>8, <3>1 DEF Handling, SetDone, SetFailed, Ack, AckRefused, At
    <3>6. CASE Phase(t)' = "held"
      BY <1>2, <2>3, <2>7, <3>1, <3>6
    <3>7. CASE Phase(t)' = "stranded" /\ luck' = luck - 1
      <4>1. Lifecycle!Strand({t})
        BY <2>3, <2>7, <3>1, <3>7 DEF Lifecycle!Strand, Lifecycle!Move, Lifecycle!Misfortune
      <4>. QED BY <4>1 DEF Lifecycle!Once
    <3>8. CASE Phase(t)' = "answered" /\ luck' = luck
      BY <2>3, <2>7, <3>1, <3>8 DEF Lifecycle!Once, Lifecycle!Answer, Lifecycle!Move
    <3>9. CASE Phase(t)' = "dead" /\ Handed(t) >= MaxDeliveries /\ luck' = luck - 1
      <4>1. Lifecycle!Bury(t)
        BY <2>3, <2>7, <3>1, <3>9 DEF Lifecycle!Bury, Lifecycle!Move, Lifecycle!Misfortune
      <4>. QED BY <4>1 DEF Lifecycle!Once
    <3>. QED BY <3>2, <3>3, <3>4, <3>5, <3>6, <3>7, <3>8, <3>9
  <2>. QED BY <2>5, <2>6
<1>. QED BY <1>4, <1>5, <1>6, <1>7, <1>8, StepKinds

-----------------------------------------------------------------------------
(* The theorems *)

IInv == TypeOK /\ Places /\ KeyOwned /\ SubscribersAccounted /\ ResultsTrue

LEMMA InvInit == Init => IInv
<1>1. Init => KeyOwned
  BY DEF Init, StreamInit, KeyOwned, Enqueued, InStream, Streams
<1>. QED BY <1>1, InitTypes, PlacesInit, SubscribersInit, ResultsInit DEF IInv

LEMMA InvStep == IInv /\ [Next]_vars => IInv'
<1>. SUFFICES ASSUME IInv, [Next]_vars PROVE IInv'
  OBVIOUS
<1>1. TypeOK'
  BY TypeStep DEF IInv
<1>2. CASE Next
  <2>1. StateTyped /\ IntentOK
    BY IntentTyped DEF IInv, TypeOK, StateTyped
  <2>. QED BY <1>1, <1>2, <2>1, PlacesStep, KeyOwnedStep, SubscribersStep, ResultsStep DEF IInv
<1>3. CASE UNCHANGED vars
  <2>1. Places' /\ KeyOwned'
    BY <1>3 DEF vars, streamVars, apiVars, IInv, Places, OnePlace, KeyOwned, Enqueued, InStream, Live, Stuck,
         Fingerprint, Session
  <2>2. SubscribersAccounted' /\ ResultsTrue'
    BY <1>3 DEF vars, busVars, streamVars, apiVars, IInv, SubscribersAccounted, ResultsTrue, TrueResult,
         AnswerWithinSession, Session
  <2>. QED BY <1>1, <2>1, <2>2 DEF IInv
<1>. QED BY <1>2, <1>3

LEMMA InvSafe == Spec => []IInv
BY InvInit, InvStep, PTL DEF Spec

(* Every variable of the bus, the streams, the workers and the calls keeps *)
(* its type (server.py, redis_stream_queue.py, eventbus.py, worker.py).    *)
THEOREM IntentTypesSafe == Spec => []TypeOK
<1>1. IInv => TypeOK
  BY DEF IInv
<1>. QED BY <1>1, InvSafe, PTL

(* Whatever ends a call, its queue is off the bus afterwards, and on it    *)
(* while it waits (eventbus.py subscribe and unsubscribe).                 *)
THEOREM SubscribersSafe == Spec => []SubscribersAccounted
<1>1. IInv => SubscribersAccounted
  BY DEF IInv
<1>. QED BY <1>1, InvSafe, PTL

(* A waiting call is only ever told a reply of its own session, by any     *)
(* number of workers over a channel that loses and reorders.               *)
THEOREM AnswersSafe == Spec => []AnswerWithinSession
<1>1. IInv => AnswerWithinSession
  BY DEF IInv, ResultsTrue
<1>. QED BY <1>1, InvSafe, PTL

(* The idempotency keys of server.py keep a repeated intent from becoming  *)
(* a second task, unless one of them expired or a command on it failed.    *)
THEOREM RepeatsSafe == Spec => []RepeatsRunOnce
<1>1. IInv => RepeatsRunOnce
  BY KeyOwnedGivesRepeats DEF IInv
<1>. QED BY <1>1, InvSafe, PTL

(* A task whose handler ended has a final status, or a named reason why    *)
(* not, when more than one delivery is allowed (max_deliveries is 3).      *)
THEOREM FinishedSafe == ASSUME MaxDeliveries > 1 PROVE Spec => []FinishedIsRecorded
<1>1. Init => Records
  BY DEF Init, StreamInit, Records, Finished
<1>2. IInv /\ Records /\ [Next]_vars => Records'
  <2>. SUFFICES ASSUME IInv, Records, [Next]_vars PROVE Records'
    OBVIOUS
  <2>1. CASE Next
    BY <2>1, RecordsStep DEF IInv, TypeOK, StateTyped
  <2>2. CASE UNCHANGED vars
    BY <2>2 DEF vars, streamVars, apiVars, Records, Explained, Finished, Stuck
  <2>. QED BY <2>1, <2>2
<1>3. Records => FinishedIsRecorded
  BY RecordsGivesFinished
<1>. QED BY <1>1, <1>2, <1>3, InvSafe, PTL DEF Spec

\* The first state and every step of streams, workers and calls, as TaskLifecycle sees them.
LEMMA LivesOnce == Spec => Lifecycle!Init /\ [][Lifecycle!Once]_<<phases, hands, luck>>
<1>1. Init => Lifecycle!Init
  <2>. SUFFICES ASSUME Init PROVE Lifecycle!Init
    OBVIOUS
  <2>1. luck \in Nat
    BY InitTypes, IntentTyped DEF IntentOK
  <2>2. \A t \in Tasks : Phase(t) = "unsent" /\ Handed(t) = 0
    BY DEF Init, StreamInit, Phase, Handed, Unanswered, InStream, Streams
  <2>. QED BY <2>1, <2>2 DEF Lifecycle!Init
<1>2. IInv /\ IInv' /\ [Next]_vars => [Lifecycle!Once]_<<phases, hands, luck>>
  <2>. SUFFICES ASSUME IInv, IInv', [Next]_vars
                PROVE  Lifecycle!Once \/ UNCHANGED <<phases, hands, luck>>
    OBVIOUS
  <2>1. CASE Next
    BY <2>1, PhaseStep, IntentTyped DEF IInv, TypeOK, StateTyped, SameLife
  <2>2. CASE UNCHANGED vars
    BY <2>2 DEF vars, streamVars, phases, hands, Phase, Handed, Deliveries, Unanswered, InStream
  <2>. QED BY <2>1, <2>2
<1>. QED
  BY <1>1, <1>2, InvSafe, PTL DEF Spec

\* Streams, pending lists, handlers, crashes and restarts together move a task as the safety
\* half of TaskLifecycle allows: accepted and answered at most once, stranded by a failed
\* call or a crash only, dead only after MaxDeliveries deliveries.
THEOREM LifecycleImplemented == Spec => ImplementsLifecycle
<1>1. Lifecycle!Once => Lifecycle!Next
  BY DEF Lifecycle!Next
<1>. QED
  BY <1>1, LivesOnce, PTL DEF ImplementsLifecycle, Lifecycle!Spec, Lifecycle!life, phases, hands

\* The promised redelivery does not happen: no step, of any worker, process or call, hands
\* a stranded task out again, whatever max_deliveries is (claim_stale, the reader of pending
\* messages in redis_stream_queue.py, has no caller).
THEOREM NeverRedelivered ==
    Spec => [][\A S \in SUBSET Tasks : ~Lifecycle!Redeliver(S)]_<<phases, hands, luck>>
<1>1. ASSUME Lifecycle!Once, NEW S \in SUBSET Tasks, Lifecycle!Redeliver(S)
      PROVE  FALSE
  <2>1. PICK t \in S : phases[t] = "stranded" /\ phases'[t] = "held"
    BY <1>1 DEF Lifecycle!Redeliver, Lifecycle!Move, phases
  <2>. QED
    BY <1>1, <2>1
    DEF Lifecycle!Once, Lifecycle!Accept, Lifecycle!Answer, Lifecycle!Bury, Lifecycle!Hold,
        Lifecycle!Lose, Lifecycle!Strand, Lifecycle!Mishap, Lifecycle!Move, phases
<1>2. [Lifecycle!Once]_<<phases, hands, luck>>
        => [\A S \in SUBSET Tasks : ~Lifecycle!Redeliver(S)]_<<phases, hands, luck>>
  BY <1>1
<1>. QED BY <1>2, LivesOnce, PTL

-----------------------------------------------------------------------------
(* Events reach a queue once *)

BeforeAnnounce == Early \cup {"mark", "announce"}

\* Nobody has found event e in a queue.
Fresh(e) == \A q \in Queues : \A i \in DOMAIN inbox[q] : inbox[q][i] # e

\* What announces a task comes after the announcement.
Announced(e) == e.type = "task.queued" => at[e.task] \notin BeforeAnnounce

Once ==
    /\ DeliveredOnce
    /\ \A m, n \in wire : m.event = n.event => m = n
    /\ \A m \in wire : Foreign(m) => m.event.type = "final.result" /\ Fresh(m.event)
    /\ \A m \in wire : Announced(m.event)
    /\ \A q \in Queues : \A i \in DOMAIN inbox[q] : Announced(inbox[q][i])

LEMMA OnceInit == Init => Once
BY DEF Init, BusInit, Once, DeliveredOnce

\* No call goes back before its announcement.
LEMMA NeverBack ==
    ASSUME StateTyped, IntentOK, Next, NEW c \in Tasks, at'[c] \in BeforeAnnounce
    PROVE  at[c] \in BeforeAnnounce
<1>. at \in [Tasks -> Steps]
  BY DEF StateTyped
<1>1. CASE Request(c)
  <2>. USE DEF Step, End, BeforeAnnounce, Early
  <2>1. ASSUME NEW o \in Outcomes,
               \/ Reserve(c, o) \/ EnqueueAnyway(c, o) \/ CountTurn(c, o) \/ KeepTurn(c, o)
               \/ Enqueue(c, o) \/ MarkQueued(c, o)
        PROVE  at[c] \in BeforeAnnounce
    BY <2>1 DEF Reserve, EnqueueAnyway, CountTurn, KeepTurn, Enqueue, MarkQueued
  <2>2. ASSUME NEW o \in Outcomes, Poll(c, o) \/ Ask(c, o)
        PROVE  FALSE
    BY <2>2 DEF Poll, Ask, Return
  <2>3. CASE Reuse(c) \/ Announce(c)
    BY <2>3 DEF Reuse, Announce, WaitFor
  <2>4. CASE Receive(c) \/ Deadline(c) \/ Connect(c) \/ Hangup(c) \/ Push(c)
    BY <2>4 DEF Receive, Deadline, Connect, Hangup, Push, Return
  <2>. QED BY <1>1, <2>1, <2>2, <2>3, <2>4 DEF Request
<1>2. ASSUME NEW d \in Tasks, d # c, Request(d)
      PROVE  at'[c] = at[c]
  BY <1>2, RequestKinds
<1>3. CASE (\E w \in Workers : Working(w)) \/ Listening
  BY <1>3 DEF Working, Listening, apiVars
<1>4. CASE ApiRestart
  BY <1>4 DEF ApiRestart, BeforeAnnounce, Early
<1>5. CASE (\E f \in Fingerprints : KeyExpires(f)) \/ (\E t \in Tasks : StatusExpires(t))
  BY <1>5 DEF KeyExpires, StatusExpires
<1>. QED BY <1>1, <1>2, <1>3, <1>4, <1>5 DEF Next

\* Nothing is put into a queue or on the channel, though a queue may lose its first
\* event or all of them.
Taken ==
    /\ wire' \subseteq wire
    /\ \A q \in Queues :
          \/ inbox'[q] \in {inbox[q], << >>}
          \/ inbox[q] # << >> /\ inbox'[q] = Tail(inbox[q])

LEMMA NothingTaken == ASSUME UNCHANGED <<inbox, wire>> PROVE Taken
BY DEF Taken

LEMMA UnsubscribeTakes == ASSUME NEW q \in Queues, BusTypeOK, Unsubscribe(q), UNCHANGED wire PROVE Taken
BY DEF Taken, Unsubscribe, BusTypeOK

LEMMA HeadTakes ==
    ASSUME NEW q \in Queues, BusTypeOK, inbox[q] # << >>, inbox' = [inbox EXCEPT ![q] = Tail(@)],
           UNCHANGED wire
    PROVE  Taken
<1>1. \A p \in Queues : inbox'[p] = IF p = q THEN Tail(inbox[p]) ELSE inbox[p]
  BY DEF BusTypeOK
<1>. QED BY <1>1 DEF Taken

\* What a step may do to the bus.
LEMMA BusKinds ==
    ASSUME StateTyped, Next
    PROVE  \/ Taken
           \/ \E c \in Tasks : Announce(c)
           \/ \E m \in wire : Forward(m) /\ UNCHANGED apiVars
           \/ \E w \in Workers, t \in Tasks : HandleIntent(w, t, "reply") /\ UNCHANGED apiVars
<1>. BusTypeOK /\ Queues = Tasks
  BY ServiceAssumption DEF StateTyped
<1>1. ASSUME NEW c \in Tasks, Request(c)
      PROVE  Taken \/ Announce(c)
  <2>1. ASSUME NEW o \in Outcomes,
               \/ Reserve(c, o) \/ EnqueueAnyway(c, o) \/ CountTurn(c, o) \/ KeepTurn(c, o)
               \/ Enqueue(c, o) \/ MarkQueued(c, o) \/ Ask(c, o)
        PROVE  UNCHANGED <<inbox, wire>>
    BY <2>1 DEF Reserve, EnqueueAnyway, CountTurn, KeepTurn, Enqueue, MarkQueued, Ask, ApiOnly, busVars
  <2>2. ASSUME NEW o \in Outcomes, Poll(c, o)
        PROVE  Taken
    BY <2>2, UnsubscribeTakes DEF Poll, Return
  <2>3. CASE Reuse(c) \/ Connect(c) \/ Hangup(c)
    BY <2>3, NothingTaken DEF Reuse, Connect, Hangup, busVars
  <2>4. CASE Deadline(c)
    BY <2>4, UnsubscribeTakes DEF Deadline, Return
  <2>5. CASE Receive(c)
    BY <2>5, UnsubscribeTakes, HeadTakes DEF Receive
  <2>6. CASE Push(c)
    BY <2>6, UnsubscribeTakes, HeadTakes DEF Push, Return
  <2>. QED BY <1>1, <2>1, <2>2, <2>3, <2>4, <2>5, <2>6, NothingTaken DEF Request
<1>2. ASSUME NEW w \in Workers, Working(w)
      PROVE  Taken \/ \E t \in Tasks : HandleIntent(w, t, "reply") /\ UNCHANGED apiVars
  <2>1. UNCHANGED apiVars
    BY <1>2 DEF Working
  <2>2. UNCHANGED <<inbox, wire>> \/ \E t \in Tasks : HandleIntent(w, t, "reply")
    BY <1>2
    DEF Working, Take, Reap, RequestStop, Exit, Crash, Restart, Handling, Begin, SetDone,
        SetFailed, Ack, HandleIntent, AckRefused, busVars
  <2>. QED BY <2>1, <2>2, NothingTaken
<1>3. CASE Listening
  <2>1. UNCHANGED apiVars
    BY <1>3 DEF Listening
  <2>2. (\E m \in wire : Forward(m)) \/ (UNCHANGED inbox /\ wire' \subseteq wire)
    BY <1>3 DEF Listening, LoseBroadcast, ListenerFails
  <2>. QED BY <2>1, <2>2 DEF Taken
<1>4. CASE ApiRestart
  BY <1>4 DEF ApiRestart, BusRestarts, Taken
<1>5. CASE (\E f \in Fingerprints : KeyExpires(f)) \/ (\E t \in Tasks : StatusExpires(t))
  BY <1>5, NothingTaken DEF KeyExpires, StatusExpires, busVars
<1>. QED BY <1>1, <1>2, <1>3, <1>4, <1>5 DEF Next

\* An event nobody has found can be delivered.
LEMMA DeliverOnce ==
    ASSUME BusTypeOK, DeliveredOnce, NEW e \in Event, Fresh(e), NEW q \in Queues
    PROVE  LET s == Delivered(e, subscribers)[q] IN
           /\ \A i, j \in DOMAIN s : s[i] = s[j] => i = j
           /\ \A i \in DOMAIN s : s[i] = e \/ \E j \in DOMAIN inbox[q] : s[i] = inbox[q][j]
<1>1. /\ inbox[q] \in Seq(Event) /\ DOMAIN inbox[q] = 1 .. Len(inbox[q]) /\ Len(inbox[q]) \in Nat
      /\ \A i \in DOMAIN inbox[q] : inbox[q][i] # e
  BY DEF BusTypeOK, Fresh
<1>2. \A i, j \in DOMAIN inbox[q] : inbox[q][i] = inbox[q][j] => i = j
  BY DEF DeliveredOnce
<1> DEFINE a == Append(inbox[q], e)
<1>3. \A i \in DOMAIN a :
          \/ i \in DOMAIN inbox[q] /\ a[i] = inbox[q][i]
          \/ i = Len(inbox[q]) + 1 /\ a[i] = e
  BY <1>1
<1>4. Delivered(e, subscribers)[q] \in {inbox[q], a}
  BY DEF Delivered
<1>. HIDE DEF a
<1>. QED BY <1>1, <1>2, <1>3, <1>4

LEMMA OnceStep ==
    ASSUME StateTyped, IntentOK, Places, ResultsTrue, Once, Next
    PROVE  Once'
<1>1. \A c \in Tasks : at'[c] \in BeforeAnnounce => at[c] \in BeforeAnnounce
  BY NeverBack
<1>2. /\ \A q \in Queues : inbox[q] \in Seq(Event)
      /\ \A m \in wire : m.event \in Event /\ m = [origin |-> m.origin, event |-> m.event]
      /\ \A q \in Queues : \A i \in DOMAIN inbox[q] : inbox[q][i] \in Event
      /\ Queues = Tasks
  BY ServiceAssumption DEF StateTyped, BusTypeOK
<1>3. \A e \in Event : Announced(e) => (e.type = "task.queued" => at'[e.task] \notin BeforeAnnounce)
  BY <1>1 DEF Announced, Event
<1>4. CASE Taken
  <2>1. \A q \in Queues :
           \E k \in {0, 1} : \A i \in DOMAIN inbox'[q] :
              i + k \in DOMAIN inbox[q] /\ inbox'[q][i] = inbox[q][i + k]
    <3>. SUFFICES ASSUME NEW q \in Queues
                  PROVE  \E k \in {0, 1} : \A i \in DOMAIN inbox'[q] :
                            i + k \in DOMAIN inbox[q] /\ inbox'[q][i] = inbox[q][i + k]
      OBVIOUS
    <3>1. CASE inbox'[q] \in {inbox[q], << >>}
      BY <1>2, <3>1
    <3>2. CASE inbox[q] # << >> /\ inbox'[q] = Tail(inbox[q])
      BY <1>2, <3>2
    <3>. QED BY <1>4, <3>1, <3>2 DEF Taken
  <2>2. \A q \in Queues : \A i, j \in DOMAIN inbox'[q] : inbox'[q][i] = inbox'[q][j] => i = j
    <3>. SUFFICES ASSUME NEW q \in Queues, NEW i \in DOMAIN inbox'[q], NEW j \in DOMAIN inbox'[q],
                         inbox'[q][i] = inbox'[q][j]
                  PROVE  i = j
      OBVIOUS
    <3>1. PICK k \in {0, 1} : \A n \in DOMAIN inbox'[q] :
             n + k \in DOMAIN inbox[q] /\ inbox'[q][n] = inbox[q][n + k]
      BY <2>1
    <3>2. i + k = j + k
      BY <3>1 DEF Once, DeliveredOnce
    <3>3. inbox'[q] \in Seq(Event)
      <4>1. inbox[q] # << >> => Tail(inbox[q]) \in Seq(Event)
        BY <1>2
      <4>2. inbox[q] \in Seq(Event) /\ << >> \in Seq(Event)
        BY <1>2
      <4>3. \/ inbox'[q] = inbox[q] \/ inbox'[q] = << >>
            \/ inbox[q] # << >> /\ inbox'[q] = Tail(inbox[q])
        BY <1>4 DEF Taken
      <4>. QED BY <4>1, <4>2, <4>3
    <3>. QED BY <3>1, <3>2, <3>3
  <2>3. \A q \in Queues : \A i \in DOMAIN inbox'[q] : \E j \in DOMAIN inbox[q] : inbox'[q][i] = inbox[q][j]
    BY <2>1
  <2>. QED BY <1>2, <1>3, <1>4, <2>2, <2>3 DEF Taken, Once, DeliveredOnce, Fresh, Announced
<1>5. ASSUME NEW c \in Tasks, Announce(c)
      PROVE  Once'
  <2> DEFINE e == TradeEvent(Session(c), "task.queued", c)
             m == [origin |-> Api, event |-> e]
  <2>1. /\ e \in Event /\ e.type = "task.queued" /\ e.task = c /\ m.event = e /\ ~Foreign(m)
    BY SessionTyped DEF TradeEvent, Event, EventTypes, Foreign
  <2>2. inbox' = Delivered(e, subscribers) /\ wire' = wire \cup {m}
    BY <1>5 DEF Announce, Broadcast
  <2>3. at[c] \in BeforeAnnounce /\ at'[c] \notin BeforeAnnounce
    BY <1>5 DEF Announce, WaitFor, StateTyped, BeforeAnnounce, Early
  <2>. HIDE DEF e, m
  <2>4. Fresh(e) /\ \A n \in wire : n.event # e
    BY <2>1, <2>3 DEF Once, Fresh, Announced
  <2>5. \A q \in Queues :
           /\ \A i, j \in DOMAIN inbox'[q] : inbox'[q][i] = inbox'[q][j] => i = j
           /\ \A i \in DOMAIN inbox'[q] :
                 inbox'[q][i] = e \/ \E j \in DOMAIN inbox[q] : inbox'[q][i] = inbox[q][j]
    BY <2>1, <2>2, <2>4, DeliverOnce DEF Once, StateTyped
  <2>6. \A n \in wire : Foreign(n) => \A q \in Queues : \A i \in DOMAIN inbox'[q] : inbox'[q][i] # n.event
    BY <2>4, <2>5 DEF Once, Fresh
  <2>. QED BY <1>2, <1>3, <2>1, <2>2, <2>3, <2>4, <2>5, <2>6 DEF Once, DeliveredOnce, Fresh, Announced
<1>6. ASSUME NEW m \in wire, Forward(m), UNCHANGED apiVars
      PROVE  Once'
  <2>1. wire' = wire \ {m} /\ m.event \in Event /\ inbox' \in {inbox, Delivered(m.event, subscribers)}
    BY <1>2, <1>6 DEF Forward
  <2>2. CASE inbox' = inbox
    BY <1>2, <1>3, <2>1, <2>2 DEF Once, DeliveredOnce, Fresh, Announced
  <2>3. CASE Foreign(m) /\ inbox' = Delivered(m.event, subscribers)
    <3>1. Fresh(m.event) /\ Announced(m.event)
      BY <2>3 DEF Once
    <3>2. \A q \in Queues :
             /\ \A i, j \in DOMAIN inbox'[q] : inbox'[q][i] = inbox'[q][j] => i = j
             /\ \A i \in DOMAIN inbox'[q] :
                  inbox'[q][i] = m.event \/ \E j \in DOMAIN inbox[q] : inbox'[q][i] = inbox[q][j]
      BY <2>1, <2>3, <3>1, DeliverOnce DEF Once, StateTyped
    <3>3. \A n \in wire' : n \in wire /\ n.event # m.event
      BY <2>1 DEF Once
    <3>. QED BY <1>2, <1>3, <2>1, <3>1, <3>2, <3>3 DEF Once, DeliveredOnce, Fresh, Announced
  <2>. QED BY <1>6, <2>2, <2>3 DEF Forward
<1>7. ASSUME NEW w \in Workers, NEW t \in Tasks, HandleIntent(w, t, "reply"), UNCHANGED apiVars
      PROVE  Once'
  <2> DEFINE e == TradeEvent(intent[t].session, "final.result", t)
             m == [origin |-> w, event |-> e]
  <2>1. e \in Event /\ e.type = "final.result" /\ e.task = t /\ m.event = e
    BY EventTyped DEF TradeEvent, EventTypes
  <2>2. inbox' = inbox /\ wire' = wire \cup {m}
    BY <1>7 DEF HandleIntent, Broadcast
  <2>3. verdict[t] = "none"
    BY <1>7 DEF HandleIntent, At, Places
  <2>. HIDE DEF e, m
  <2>4. Fresh(e) /\ \A n \in wire : n.event # e
    BY <1>2, <2>1, <2>3 DEF ResultsTrue, TrueResult, Fresh
  <2>. QED BY <1>2, <1>3, <2>1, <2>2, <2>4 DEF Once, DeliveredOnce, Fresh, Announced
<1>. QED BY <1>4, <1>5, <1>6, <1>7, BusKinds

-----------------------------------------------------------------------------
(* Slots *)

\* Only what has left its stream is pending or in a slot.
SlotsRead ==
    \A t \in Tasks : run[t] = "none" => ~Stuck(t) /\ \A w \in Workers : t \notin slots[w]

LEMMA SlotsInit == Init => SlotsRead /\ ConcurrencyBound
<1>1. Init => \A w \in Workers, st \in Streams : {t \in slots[w] \cap pending[st] : Live(t)} = {}
  BY DEF Init, StreamInit
<1>. QED
  BY <1>1, FS_EmptySet, StreamAssumption
  DEF Init, StreamInit, SlotsRead, Stuck, ConcurrencyBound

Shrinks ==
    /\ \A w \in Workers : slots'[w] \subseteq slots[w]
    /\ \A st \in Streams : pending'[st] \subseteq pending[st]
    /\ \A t \in Tasks : (Live(t)' => Live(t)) /\ (run'[t] = "none" => run[t] = "none")

\* Only a read adds to slots and pending, and only what it returns comes alive.
LEMMA SlotKinds ==
    ASSUME StateTyped, Next
    PROVE  \/ \E w \in Workers, o \in Outcomes : Take(w, o)
           \/ Shrinks
<1>. USE DEF StateTyped, StreamTypeOK
<1>1. ASSUME UNCHANGED <<slots, pending, run>>
      PROVE  Shrinks
  BY <1>1 DEF Live, Shrinks
<1>2. ASSUME NEW c \in Tasks, Request(c)
      PROVE  UNCHANGED <<slots, pending, run>>
  BY <1>2
  DEF Request, Reserve, EnqueueAnyway, CountTurn, KeepTurn, Enqueue, MarkQueued, Poll, Ask,
      Reuse, Announce, Receive, Deadline, Connect, Hangup, Push, ApiOnly, streamVars
<1>3. ASSUME NEW w \in Workers, Reap(w) \/ RequestStop(w) \/ Exit(w) \/ Restart(w) \/ Crash(w)
      PROVE  Shrinks
  BY <1>3 DEF Reap, RequestStop, Exit, Restart, Crash, Live, Shrinks
<1>4. ASSUME NEW w \in Workers, NEW t \in Tasks, Handling(w, t)
      PROVE  Shrinks
  <2>1. UNCHANGED slots /\ \A st \in Streams : pending'[st] \subseteq pending[st]
    BY <1>4 DEF Handling, Begin, SetDone, SetFailed, Ack, AckRefused, HandleIntent, Excepted, Acked
  <2>2. Live(t) /\ run'[t] # "none" /\ \A u \in Tasks \ {t} : run'[u] = run[u]
    BY <1>4
    DEF Handling, Begin, SetDone, SetFailed, Ack, AckRefused, HandleIntent, Excepted, Goto, At, Live
  <2>. QED BY <2>1, <2>2 DEF Live, Shrinks
<1>5. CASE Listening \/ ApiRestart
  BY <1>1, <1>5 DEF Listening, ApiRestart, streamVars
<1>6. CASE (\E f \in Fingerprints : KeyExpires(f)) \/ (\E t \in Tasks : StatusExpires(t))
  BY <1>1, <1>6 DEF KeyExpires, StatusExpires, streamVars
<1>. QED BY <1>1, <1>2, <1>3, <1>4, <1>5, <1>6 DEF Next, Working

\* A read returns no more of a stream than it asked for.
LEMMA BatchBound ==
    ASSUME StreamTypeOK, NEW S, IsFiniteSet(S), NEW st \in Streams, NEW n \in Nat
    PROVE  /\ IsFiniteSet(S \cup Batch(st, n))
           /\ Cardinality(S \cup Batch(st, n)) <= Cardinality(S) + n
<1> DEFINE s == stream[st]
           c == Cardinality(S)
           k == Count(st, n)
           T == S \cup Batch(st, n)
<1>1. c \in Nat /\ ExistsBijection(1 .. c, S)
  BY FS_CardinalityType
<1>2. PICK f \in Bijection(1 .. c, S) : TRUE
  BY <1>1 DEF ExistsBijection
<1>3. f \in [1 .. c -> S] /\ \A x \in S : \E i \in 1 .. c : f[i] = x
  BY <1>2 DEF Bijection, Surjection
<1>4. k \in Nat /\ k <= n
  BY DEF StreamTypeOK, Count
<1>5. Batch(st, n) = {s[i] : i \in 1 .. k}
  BY DEF Batch
<1> DEFINE g == [i \in 1 .. c + k |-> IF i <= c THEN f[i] ELSE s[i - c]]
<1>. HIDE DEF s, c, k, T
<1>6. g \in [1 .. c + k -> T]
  <2>. SUFFICES ASSUME NEW i \in 1 .. c + k PROVE g[i] \in T
    OBVIOUS
  <2>1. CASE i <= c
    BY <1>1, <1>3, <2>1 DEF T
  <2>2. CASE ~(i <= c)
    <3>1. i - c \in 1 .. k
      BY <1>1, <1>4, <2>2
    <3>. QED BY <1>5, <2>2, <3>1 DEF T
  <2>. QED BY <2>1, <2>2
<1>7. ASSUME NEW x \in T
      PROVE  \E i \in 1 .. c + k : g[i] = x
  <2>1. CASE x \in S
    <3>1. PICK i \in 1 .. c : f[i] = x
      BY <1>3, <2>1
    <3>. QED BY <1>1, <1>4, <3>1
  <2>2. CASE x \in Batch(st, n)
    <3>1. PICK i \in 1 .. k : s[i] = x
      BY <1>5, <2>2
    <3>2. c + i \in 1 .. c + k /\ ~(c + i <= c) /\ (c + i) - c = i
      BY <1>1, <1>4, <3>1
    <3>. QED BY <3>1, <3>2
  <2>. QED BY <1>7, <2>1, <2>2 DEF T
<1>8. g \in Surjection(1 .. c + k, T)
  BY <1>6, <1>7 DEF Surjection
<1>9. IsFiniteSet(1 .. c + k) /\ Cardinality(1 .. c + k) = c + k
  BY <1>1, <1>4, FS_Interval
<1>10. IsFiniteSet(T) /\ Cardinality(T) <= c + k
  <2>. HIDE DEF g
  <2>. QED BY <1>8, <1>9, FS_Surjection
<1>. QED BY <1>1, <1>4, <1>10, FS_CardinalityType DEF T, c

LEMMA SlotsStep ==
    ASSUME StateTyped, Places, SlotsRead, ConcurrencyBound, Next
    PROVE  SlotsRead' /\ ConcurrencyBound'
<1> DEFINE Held(w, st) == {t \in slots[w] \cap pending[st] : Live(t)}
<1>. /\ StreamTypeOK /\ IsFiniteSet(Tasks) /\ Concurrency \in Nat
     /\ \A w \in Workers : slots[w] \subseteq Tasks
  BY ServiceAssumption, StreamAssumption DEF StateTyped, StreamTypeOK
<1>1. ASSUME NEW w \in Workers, NEW st \in Streams, NEW S \in SUBSET Held(w, st)
      PROVE  Cardinality(S) <= Concurrency
  <2>1. Held(w, st) \in SUBSET Tasks
    OBVIOUS
  <2>2. IsFiniteSet(Held(w, st)) /\ Cardinality(Held(w, st)) <= Concurrency
    BY <2>1, FS_Subset DEF ConcurrencyBound
  <2>. HIDE DEF Held
  <2>3. IsFiniteSet(S) /\ Cardinality(S) <= Cardinality(Held(w, st))
    BY <2>2, FS_Subset
  <2>. QED BY <2>2, <2>3, FS_CardinalityType
<1>2. CASE Shrinks
  <2>1. SlotsRead'
    BY <1>2 DEF Shrinks, SlotsRead, Stuck
  <2>2. ASSUME NEW w \in Workers, NEW st \in Streams
        PROVE  Held(w, st)' \subseteq Held(w, st)
    BY <1>2 DEF Shrinks
  <2>. QED BY <1>1, <2>1, <2>2 DEF ConcurrencyBound
<1>3. ASSUME NEW w \in Workers, NEW o \in Outcomes, Take(w, o)
      PROVE  SlotsRead' /\ ConcurrencyBound'
  <2> DEFINE n == FreeSlots(w)
  <2>1. n \in Nat
    BY FreeSlotsType
  <2>2. \A t \in Tasks : IF t \in Read(n) THEN InStream(t) /\ run'[t] # "none" ELSE run'[t] = run[t]
    BY <1>3, TakeMoves DEF Places
  <2>3. \A t \in Read(n) : t \in Tasks /\ run[t] = "none"
    <3>1. \A st \in Streams : Batch(st, n) \subseteq Tasks
      BY <2>1, ReadSplits
    <3>2. Read(n) \subseteq Tasks
      BY <3>1 DEF Read, Streams
    <3>. QED BY <2>2, <3>2 DEF Places
  <2>4. /\ \A st \in Streams : pending'[st] = pending[st] \cup Batch(st, n) /\ Batch(st, n) \subseteq Read(n)
        /\ \A v \in Workers \ {w} : slots'[v] = slots[v]
        /\ slots'[w] = IF Ok(o) THEN slots[w] \cup Read(n) ELSE slots[w]
    BY <1>3 DEF Take, Read, Streams, StreamTypeOK
  <2>. HIDE DEF n
  <2>5. SlotsRead'
    BY <2>2, <2>4 DEF SlotsRead, Stuck
  <2>6. ASSUME NEW v \in Workers, NEW st \in Streams, v # w \/ ~Ok(o)
        PROVE  Cardinality(Held(v, st)') <= Concurrency
    <3>1. Held(v, st)' \subseteq Held(v, st)
      BY <2>2, <2>3, <2>4, <2>6 DEF SlotsRead, Live
    <3>. QED BY <1>1, <3>1
  <2>7. ASSUME NEW st \in Streams, Ok(o)
        PROVE  Cardinality(Held(w, st)') <= Concurrency
    <3> DEFINE H == slots[w] \cup Batch(st, n)
    <3>1. \A t \in Batch(st, n) \cup Read(n) : t \notin pending[st]
      BY <2>3, <2>4 DEF SlotsRead, Stuck
    <3>2. Held(w, st)' \in SUBSET H
      BY <2>4, <2>7, <3>1
    <3>3. IsFiniteSet(slots[w]) /\ Cardinality(slots[w]) \in Nat
      BY FS_Subset, FS_CardinalityType
    <3>4. IsFiniteSet(H) /\ Cardinality(H) <= Cardinality(slots[w]) + n
      BY <2>1, <3>3, BatchBound
    <3>5. Read(0) = {}
      BY DEF Read, Batch, Count, StreamTypeOK, Streams
    <3>6. n # 0
      BY <1>3, <3>5 DEF Take, n
    <3>7. Cardinality(slots[w]) + n = Concurrency
      BY <3>3, <3>6 DEF n, FreeSlots
    <3>. HIDE DEF H, Held
    <3>8. IsFiniteSet(Held(w, st)') /\ Cardinality(Held(w, st)') <= Cardinality(H)
      BY <3>2, <3>4, FS_Subset
    <3>. QED BY <3>4, <3>7, <3>8, FS_CardinalityType
  <2>. QED BY <2>5, <2>6, <2>7 DEF ConcurrencyBound
<1>. QED BY <1>2, <1>3, SlotKinds

-----------------------------------------------------------------------------
(* The theorems *)

\* No call and no socket finds an event in its queue twice, although the API process
\* publishes to the channel it listens to, and any number of workers publish with it.
THEOREM DeliverySafe == Spec => []DeliveredOnce
<1>1. IInv /\ Once /\ [Next]_vars => Once'
  <2>. SUFFICES ASSUME IInv, Once, [Next]_vars PROVE Once'
    OBVIOUS
  <2>1. CASE Next
    BY <2>1, OnceStep, IntentTyped DEF IInv, TypeOK, StateTyped
  <2>2. CASE UNCHANGED vars
    BY <2>2 DEF vars, busVars, apiVars, Once, DeliveredOnce, Fresh, Announced
  <2>. QED BY <2>1, <2>2
<1>2. Once => DeliveredOnce
  BY DEF Once
<1>. QED BY <1>1, <1>2, OnceInit, InvSafe, PTL DEF Spec

\* Whatever it reads, crashes with or is told to stop in, a worker runs at most
\* WORKER_CONCURRENCY tasks of each stream at a time.
THEOREM ConcurrencySafe == Spec => []ConcurrencyBound
<1>1. IInv /\ SlotsRead /\ ConcurrencyBound /\ [Next]_vars => SlotsRead' /\ ConcurrencyBound'
  <2>. SUFFICES ASSUME IInv, SlotsRead, ConcurrencyBound, [Next]_vars
                PROVE  SlotsRead' /\ ConcurrencyBound'
    OBVIOUS
  <2>1. CASE Next
    BY <2>1, SlotsStep DEF IInv, TypeOK, StateTyped
  <2>2. CASE UNCHANGED vars
    BY <2>2 DEF vars, streamVars, SlotsRead, ConcurrencyBound, Stuck, Live
  <2>. QED BY <2>1, <2>2
<1>. QED BY <1>1, SlotsInit, InvSafe, PTL DEF Spec
=============================================================================
