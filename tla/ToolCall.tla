------------------------------ MODULE ToolCall -------------------------------
(***************************************************************************)
(* ToolResilienceMiddleware around a tool, and the two registries of its   *)
(* circuit breaker: a table in each process, or one in Redis that every    *)
(* process loads, changes and saves with other calls in between.           *)
(*                                                                         *)
(* A call is an agent's call of a tool, or a REST request that reaches the *)
(* use case without the middleware.  The body of the tool is module        *)
(* Orders; it ends with Leave.                                             *)
(***************************************************************************)
EXTENDS RemoteCall, FiniteSets, Sequences

CONSTANTS Calls, Processes, Tools,
          Threshold, ResetSeconds,
          MaxClock        \* bound of the model on time

ASSUME BreakerAssumption ==
    Threshold \in Nat \ {0} /\ ResetSeconds \in Nat \ {0} /\ MaxClock \in Nat \ {0}

ASSUME PlacesAssumption == "redis" \notin Processes

Steps == {"idle", "marking", "running", "numbering", "saving", "writing",
          "recording", "counting", "end"}

VARIABLES setup,      \* [breaker, storage]: what composition.py chose at the start
          ask,        \* [Calls -> the request], fixed by Init
          at,         \* [Calls -> Steps]
          answer,     \* [Calls -> {"none", "ok", "error", "refused", "lost"}]
          clock,
          circuit,    \* [Places -> [Tools -> Circuit]]
          copy,       \* [Calls -> Circuit], loaded from Redis and not yet saved
          streak,     \* history: failures recorded since the last success
          stale       \* history: a loaded copy outlived a recorded success

toolVars == <<at, answer, clock, circuit, copy, streak, stale>>

Places == Processes \cup {"redis"}
Circuit == [failures : Nat, opened : 0 .. MaxClock, half : BOOLEAN]
Closed == [failures |-> 0, opened |-> 0, half |-> FALSE]

Process(c) == ask[c].process
Tool(c) == ask[c].kind
Guarded(c) == ask[c].guarded
Shared == setup.breaker = "shared"
Place(c) == IF Shared THEN "redis" ELSE Process(c)
State(c) == circuit[Place(c)][Tool(c)]

Cooling(s) == s.opened # 0 /\ clock - s.opened < ResetSeconds
Probing(s) == IF s.opened = 0 THEN s ELSE [s EXCEPT !.half = TRUE]

\* record_failure on one state.
Counted(s) ==
    IF s.half
    THEN [s EXCEPT !.opened = clock, !.half = FALSE]
    ELSE [s EXCEPT !.failures = @ + 1, !.opened = IF s.failures + 1 >= Threshold THEN clock ELSE @]

Set(c, s) == circuit' = [circuit EXCEPT ![Place(c)][Tool(c)] = s]
End(c, verdict) == at' = [at EXCEPT ![c] = "end"] /\ answer' = [answer EXCEPT ![c] = verdict]

\* on_tool_call up to the tool.  A load from Redis that fails counts as no state.
Admit(c, o) ==
    LET s == IF o = "ok" THEN State(c) ELSE Closed
    IN  /\ at[c] = "idle" /\ Guarded(c)
        /\ o = "ok" \/ (o = "refused" /\ Shared)
        /\ Call(o)
        /\ IF Cooling(s) THEN End(c, "refused") /\ UNCHANGED <<circuit, copy>>
           ELSE /\ UNCHANGED answer
                /\ IF Shared /\ s.opened # 0
                   THEN /\ copy' = [copy EXCEPT ![c] = Probing(s)]
                        /\ at' = [at EXCEPT ![c] = "marking"]
                        /\ UNCHANGED circuit
                   ELSE /\ at' = [at EXCEPT ![c] = "running"]
                        /\ IF Shared THEN UNCHANGED circuit ELSE Set(c, Probing(s))
                        /\ UNCHANGED copy
        /\ UNCHANGED <<clock, streak, stale>>

\* allow_async saves the half-open mark.
Mark(c, o) ==
    /\ at[c] = "marking" /\ Call(o)
    /\ IF Effect(o) THEN Set(c, copy[c]) ELSE UNCHANGED circuit
    /\ at' = [at EXCEPT ![c] = "running"]
    /\ copy' = [copy EXCEPT ![c] = Closed]
    /\ UNCHANGED <<answer, clock, streak, stale>>

\* A REST request starts in the use case at once.
Enter(c) ==
    /\ at[c] = "idle" /\ ~Guarded(c)
    /\ at' = [at EXCEPT ![c] = "running"]
    /\ UNCHANGED <<answer, clock, circuit, copy, streak, stale, luck>>

Succeeds(c) == streak' = [streak EXCEPT ![Place(c)][Tool(c)] = 0]
Fails(c) == streak' = [streak EXCEPT ![Place(c)][Tool(c)] = @ + 1]

\* wrong: a success is not recorded
SuccessIgnored(s, verdict) == IF verdict = "ok" THEN s ELSE Counted(s)

Recorded(s, verdict) == IF verdict = "ok" THEN Closed ELSE Counted(s)

\* The body of the tool is over; an "error" is anything but a chunk of success.
Leave(c, verdict) ==
    /\ IF Guarded(c) /\ Shared
       THEN /\ at' = [at EXCEPT ![c] = "recording"] /\ answer' = [answer EXCEPT ![c] = verdict]
            /\ UNCHANGED <<circuit, streak>>
       ELSE /\ End(c, verdict)
            /\ IF Guarded(c)
               THEN /\ Set(c, Recorded(State(c), verdict))
                    /\ IF verdict = "ok" THEN Succeeds(c) ELSE Fails(c)
               ELSE UNCHANGED <<circuit, streak>>
    /\ UNCHANGED <<clock, copy, stale>>

\* record_success_async deletes the state.
RecordSuccess(c, o) ==
    /\ at[c] = "recording" /\ answer[c] = "ok" /\ Call(o)
    /\ End(c, "ok")
    /\ IF Effect(o)
       THEN /\ Set(c, Closed) /\ Succeeds(c)
            /\ stale' = (stale \/ \E d \in Calls \ {c} : Tool(d) = Tool(c) /\ at[d] \in {"marking", "counting"})
       ELSE UNCHANGED <<circuit, streak, stale>>
    /\ UNCHANGED <<clock, copy>>

\* record_failure_async loads the state, and saves it counted.
LoadFailure(c, o) ==
    /\ at[c] = "recording" /\ answer[c] = "error"
    /\ o \in {"ok", "refused"} /\ Call(o)
    /\ at' = [at EXCEPT ![c] = "counting"]
    /\ copy' = [copy EXCEPT ![c] = Counted(IF o = "ok" THEN State(c) ELSE Closed)]
    /\ UNCHANGED <<answer, clock, circuit, streak, stale>>

SaveFailure(c, o) ==
    /\ at[c] = "counting" /\ Call(o)
    /\ End(c, "error")
    /\ IF Effect(o) THEN Set(c, copy[c]) /\ Fails(c) ELSE UNCHANGED <<circuit, streak>>
    /\ copy' = [copy EXCEPT ![c] = Closed]
    /\ UNCHANGED <<clock, stale>>

Tick ==
    /\ clock < MaxClock
    /\ clock' = clock + 1
    /\ UNCHANGED <<at, answer, circuit, copy, streak, stale, luck>>

ToolInit ==
    /\ at = [c \in Calls |-> "idle"]
    /\ answer = [c \in Calls |-> "none"]
    /\ clock = 1
    /\ circuit = [x \in Places |-> [t \in Tools |-> Closed]]
    /\ copy = [c \in Calls |-> Closed]
    /\ streak = [x \in Places |-> [t \in Tools |-> 0]]
    /\ stale = FALSE

ToolTypeOK ==
    /\ at \in [Calls -> Steps]
    /\ answer \in [Calls -> {"none", "ok", "error", "refused", "lost"}]
    /\ clock \in 1 .. MaxClock
    /\ circuit \in [Places -> [Tools -> Circuit]]
    /\ copy \in [Calls -> Circuit]
    /\ streak \in [Places -> [Tools -> Nat]]
    /\ stale \in BOOLEAN
=============================================================================
