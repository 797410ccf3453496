-------------------------------- MODULE Turns --------------------------------
(***************************************************************************)
(* MainAgentOrchestrator.handle_intent with what it shares between turns:  *)
(* the agents SessionRegistry keeps in a process, the snapshots it saves,  *)
(* the preferences, the semantic cache, the hints already injected, the    *)
(* windows of the loop detector and the conversation rows.  Every await    *)
(* ends a step, so other turns of the process and of other processes get   *)
(* in between.  What the model decides, which tools to call in which       *)
(* order, is the script of the turn.                                       *)
(*                                                                         *)
(* An agent is named by the turn that built it; its context is a sequence  *)
(* of <<"hint", preferences>>, <<"asked", turn>> and <<"told", turn>>.     *)
(***************************************************************************)
EXTENDS ModelCall, Preferences, FiniteSets, FiniteSetsExt

CONSTANTS Sessions, Buyers, Queries,
          Cases,              \* what to look at: intents, preferences and a number of mishaps
          TurnRetries,        \* _MAX_TURN_RETRIES
          BucketLimit,        \* entries kept of one bucket of the semantic cache
          Window,             \* of the loop detector
          RepeatThreshold,
          CheckInterval,      \* of the drift detector
          NoTurn

Intent == [session : Sessions, process : Processes, buyer : Buyers, query : Queries,
           after : SUBSET Turns, cacheable : BOOLEAN, budget : Nat,
           script : Seq([tool : {"remember", "forget", "dispatch"}, pref : Preference])]

ASSUME TurnAssumption ==
    /\ IsFiniteSet(Turns)
    /\ \A case \in Cases :
           /\ case.calls \in [Turns -> Intent] /\ case.prefs \in [Buyers -> Seq(Preference)]
           /\ \A b \in Buyers : IsInjective(case.prefs[b])
           /\ case.luck \in Nat /\ case.storage \in {"sql", "file"}
    /\ TurnRetries \in Nat /\ BucketLimit \in Nat \ {0}
    /\ Window \in Nat /\ RepeatThreshold \in 1 .. Window /\ CheckInterval \in Nat \ {0} /\ NoTurn \notin Turns

Session(t) == ask[t].session
Buyer(t) == ask[t].buyer

VARIABLES storage,    \* "sql" or "file", fixed: where preferences, snapshots and rows are
          prefs,      \* [Buyers -> Seq(Preference)]
          draft,      \* [Turns -> Seq(Preference)], what a tool is writing into the file
          promised,   \* history: [Buyers -> SUBSET Preference], what the tools were to leave
          bucket,     \* the semantic cache: <<buyer, scope>> :> Seq([query, by])
          saved,      \* [Sessions -> context], the snapshots
          kept,       \* SUBSET Sessions, those with a row in the table of snapshots
          dump,       \* [Turns -> [of, state]], what SqlSessionStore.save was given, and of which agent
          rows,       \* [Sessions -> SUBSET [by, role, no]], the conversation
          agents,     \* [Processes -> [Sessions -> Turns \cup {NoTurn}]]
          context,    \* [Turns -> the context of the agent the turn built]
          injected,   \* [Processes -> [Sessions -> Seq(Preference)]]
          window,     \* [Processes -> [Sessions -> Seq(tools)]]
          trace,      \* [Processes -> [Sessions -> [by, rounds]]], of the drift detector
          agent,      \* [Turns -> Turns \cup {NoTurn}], the agent of the turn
          history,    \* [Turns -> BOOLEAN], has_history
          scope,      \* [Turns -> Seq(Preference)], the fingerprint read last
          entries,    \* [Turns -> Seq([query, by])], the bucket as remember loaded it
          number,     \* [Turns -> Nat], the row number read
          tried,      \* [Turns -> Nat], failed attempts of the turn
          used,       \* [Turns -> Nat], tool calls so far
          answer,     \* [Turns -> {"none", "reply", "cached", "error"}]
          source,     \* [Turns -> Turns \cup {NoTurn}], the turn whose reply was told
          under,      \* history: the preferences the turn was answered under
          hinted,     \* history: tool calls that got a convergence hint
          judged,     \* history: [Turns -> SUBSET traces], what drift was judged by
          based,      \* history: [Turns -> context], the snapshot an agent knows of
          excuse      \* history: what explains a broken promise

prefVars == <<prefs, draft, promised>>
stores == <<prefVars, bucket, saved, kept, dump, rows>>
shared == <<agents, context, injected, window, trace>>
own == <<agent, history, scope, entries, number, tried, used, answer, source>>
ghosts == <<under, hinted, judged, based, excuse>>
vars == <<ask, storage, at, luck, modelVars, stores, shared, own, ghosts>>

Steps == {"idle", "restoring", "scoping", "looking", "building", "asking", "calling", "falling",
          "checking", "acting", "opening", "filling", "rescoping", "loading", "storing",
          "persisting", "merging", "inserting", "updating", "saving",
          "question", "question row", "reply", "reply row", "end", "down"}

Step(t, from, to) == at[t] = from /\ at' = [at EXCEPT ![t] = to]
Excused(why, x) == excuse' = excuse \cup {<<why, x>>}
Open(t) == at[t] \notin {"idle", "end", "down"}

\* wrong: the event loop goes on with other turns while a file is rewritten
WritingNothing(t) == FALSE

\* Nothing else of the process runs before an access to a file is done, for it is synchronous,
\* nor between the end of a reply and the dump of the agent's state, for nothing is awaited.
Writing(t) == at[t] \in {"opening", "filling", "persisting", "saving"} \/ (at[t] = "reply" /\ storage = "file")
Runs(t) == \A d \in Turns \ {t} : Process(d) = Process(t) => ~Writing(d)
Here(t) == {d \in Turns \ {t} : Open(d) /\ Session(d) = Session(t) /\ Process(d) = Process(t)}

-----------------------------------------------------------------------------
(* DriftDetector: the first query of a session's trace stays until the trace *)
(* is reset; what it makes of query and actions is data.                     *)

NoTrace == [by |-> NoTurn, rounds |-> 0]
Trace(t) == trace[Process(t)][Session(t)]
SetTrace(t, x) == trace' = [trace EXCEPT ![Process(t)][Session(t)] = x]

StartTrace(t) == SetTrace(t, IF Trace(t).by = NoTurn THEN [Trace(t) EXCEPT !.by = t] ELSE Trace(t))
Observe(t) == SetTrace(t, [Trace(t) EXCEPT !.rounds = @ + 1])
Due(t) == Trace(t).rounds > 0 /\ Trace(t).rounds % CheckInterval = 0

-----------------------------------------------------------------------------
(* SessionRegistry.get_or_create                                             *)

\* The turn starts: the agent of the session is in the process, or has to be restored.
Start(t) ==
    LET a == agents[Process(t)][Session(t)] IN
    /\ \A d \in ask[t].after : at[d] \in {"end", "down"}
    /\ Step(t, "idle", IF a = NoTurn THEN "restoring" ELSE "scoping")
    /\ agent' = [agent EXCEPT ![t] = a]
    /\ history' = [history EXCEPT ![t] = a # NoTurn /\ context[a] # << >>]
    /\ excuse' = excuse \cup (IF Here(t) = {} THEN {} ELSE {"overlap"} \X ({t} \cup Here(t)))
    /\ StartTrace(t)
    /\ UNCHANGED <<luck, modelVars, stores, agents, context, injected, window, scope, entries, number, tried,
                   used, answer, source, under, hinted, judged, based>>

\* wrong: the agent is built without the saved state
RestoredEmpty(t, o) == << >>

Restored(t, o) == IF Ok(o) THEN saved[Session(t)] ELSE << >>

\* The new agent is kept even when an overlapping turn built one meanwhile.
Restore(t, o) ==
    LET p == Process(t)
        s == Session(t)
        state == Restored(t, o)
    IN  /\ Step(t, "restoring", "scoping") /\ Call(o)
        /\ IF agents[p][s] = NoTurn THEN UNCHANGED excuse ELSE Excused("twin", s)
        /\ agents' = [agents EXCEPT ![p][s] = t]
        /\ context' = [context EXCEPT ![t] = state]
        /\ based' = [based EXCEPT ![t] = IF Ok(o) THEN saved[s] ELSE << >>]
        /\ agent' = [agent EXCEPT ![t] = t]
        /\ history' = [history EXCEPT ![t] = state # << >>]
        /\ UNCHANGED <<modelVars, stores, injected, window, trace, scope, entries, number, tried, used,
                       answer, source, under, hinted, judged>>

-----------------------------------------------------------------------------
(* The preferences: a read that fails counts as none.                        *)

Listed(t, o) == IF Ok(o) THEN prefs[Buyer(t)] ELSE << >>
MisreadIf(t, o) == IF Ok(o) THEN UNCHANGED excuse ELSE Excused("misread", t)

\* wrong: the bucket is chosen without the preferences
ScopeOfBuyer(t, o) == << >>

\* _preference_scope
Scope(t, o) == Listed(t, o)

Cacheable(t) == ask[t].cacheable /\ ~history[t]

ReadScope(t, o) ==
    /\ \/ Step(t, "scoping", IF Cacheable(t) THEN "looking" ELSE "building")
       \/ Step(t, "rescoping", IF Cacheable(t) THEN "loading" ELSE "persisting")
    /\ scope' = [scope EXCEPT ![t] = Scope(t, o)]
    /\ Call(o) /\ MisreadIf(t, o)
    /\ UNCHANGED <<modelVars, stores, shared, agent, history, entries, number, tried, used, answer, source,
                   under, hinted, judged, based>>

\* wrong: a preference told in one session counts as told in all
AlreadyInjectedAnywhere(t, chosen) == \E s \in Sessions : injected[Process(t)][s] = chosen

AlreadyInjected(t, chosen) == injected[Process(t)][Session(t)] = chosen

HintOf(chosen) == <<"hint", chosen>>

\* _build_inputs, and the inputs enter the context of the agent.
BuildInputs(t, o) ==
    LET list == Listed(t, o)
        chosen == Selected(list)
        told == chosen # << >> /\ ~AlreadyInjected(t, chosen)
    IN  /\ Step(t, "building", "asking")
        /\ under' = [under EXCEPT ![t] = list]
        /\ injected' = IF told THEN [injected EXCEPT ![Process(t)][Session(t)] = chosen] ELSE injected
        /\ context' = [context EXCEPT ![agent[t]] =
                          @ \o (IF told THEN <<HintOf(chosen)>> ELSE << >>) \o <<<<"asked", t>>>>]
        /\ Call(o) /\ MisreadIf(t, o)
        /\ UNCHANGED <<modelVars, stores, agents, window, trace, own, hinted, judged, based>>

-----------------------------------------------------------------------------
(* SemanticCache                                                             *)

Bucket(t) == <<Buyer(t), scope[t]>>
Entries(k) == IF k \in DOMAIN bucket THEN bucket[k] ELSE << >>

\* The similarity of two questions reaches the threshold.
SameQuestion(e, t) == e.query = ask[t].query

\* lookup; Redis or the embedding failing is a miss, and of equals any may be the best.
Lookup(t, o) ==
    LET hits == {e \in Range(Entries(Bucket(t))) : SameQuestion(e, t)} IN
    /\ at[t] = "looking" /\ o \in {"ok", "refused"} /\ Call(o)
    /\ IF o = "ok" /\ hits # {}
       THEN /\ \E e \in hits : source' = [source EXCEPT ![t] = e.by]
            /\ at' = [at EXCEPT ![t] = "persisting"]
            /\ answer' = [answer EXCEPT ![t] = "cached"]
       ELSE at' = [at EXCEPT ![t] = "building"] /\ UNCHANGED <<answer, source>>
    /\ UNCHANGED <<modelVars, stores, shared, agent, history, scope, entries, number, tried, used, ghosts>>

\* remember, up to the entries it adds to.
LoadEntries(t, o) ==
    /\ Step(t, "loading", "storing") /\ o \in {"ok", "refused"} /\ Call(o)
    /\ entries' = [entries EXCEPT ![t] = IF o = "ok" THEN Entries(Bucket(t)) ELSE << >>]
    /\ UNCHANGED <<modelVars, stores, shared, agent, history, scope, number, tried, used, answer, source, ghosts>>

LastEntries(list) == SubSeq(list, Max({1, Len(list) - BucketLimit + 1}), Len(list))

\* An embedding that fails before it leaves the bucket as it was, like a refused write.
StoreEntries(t, o) ==
    LET list == LastEntries(Append(entries[t], [query |-> ask[t].query, by |-> t])) IN
    /\ Step(t, "storing", "persisting") /\ Call(o)
    /\ bucket' = IF Effect(o)
                  THEN [k \in DOMAIN bucket \cup {Bucket(t)} |-> IF k = Bucket(t) THEN list ELSE bucket[k]]
                  ELSE bucket
    /\ entries' = [entries EXCEPT ![t] = << >>]
    /\ UNCHANGED <<modelVars, prefVars, saved, kept, dump, rows, shared, agent, history, scope, number, tried, used,
                   answer, source, ghosts>>

-----------------------------------------------------------------------------
(* The reply: the model and its tools in turn.                               *)

Asking(t) ==
    /\ Acquire(t) \/ Retry(t)
    /\ UNCHANGED <<stores, shared, own, ghosts>>

\* The main agent's call is answered, with the next tool call or with the reply.
Replied(t) ==
    /\ Answered(t) /\ ~sub[t]
    /\ IF used[t] < Len(ask[t].script)
       THEN at' = [at EXCEPT ![t] = "checking"] /\ UNCHANGED <<context, answer, source, judged>>
       ELSE /\ at' = [at EXCEPT ![t] = "rescoping"]
            /\ context' = [context EXCEPT ![agent[t]] = Append(@, <<"told", t>>)]
            /\ answer' = [answer EXCEPT ![t] = "reply"]
            /\ source' = [source EXCEPT ![t] = t]
            /\ judged' = IF Due(t) THEN [judged EXCEPT ![t] = @ \cup {Trace(t)}] ELSE judged
    /\ UNCHANGED <<sub, stores, agents, injected, window, trace, agent, history, scope, entries, number, tried,
                   used, under, hinted, based, excuse>>

\* wrong: one attempt too many
MayRetryOnceMore(t) == tried[t] <= TurnRetries

MayRetry(t) == tried[t] < TurnRetries

\* _reply_with_retry: the whole reply again, without the inputs, or the turn is an error.
ReplyRaises(t) ==
    /\ Raises(t) /\ ~sub[t]
    /\ \/ /\ MayRetry(t)
          /\ tried' = [tried EXCEPT ![t] = @ + 1]
          /\ at' = [at EXCEPT ![t] = "asking"] /\ UNCHANGED answer
       \/ /\ at' = [at EXCEPT ![t] = "persisting"]
          /\ answer' = [answer EXCEPT ![t] = "error"] /\ UNCHANGED tried
    /\ UNCHANGED <<sub, stores, shared, agent, history, scope, entries, number, used, source, ghosts>>

Wanted(t) == ask[t].script[used[t]]
Tools(t) == window[Process(t)][Session(t)]

\* trailing_repeat
TrailingRepeat(calls) ==
    Max({n \in 0 .. Len(calls) : \A i \in Len(calls) - n + 1 .. Len(calls) : calls[i] = Last(calls)})

\* HarnessToolMiddleware before the tool: LoopDetector.check records the call and counts.
Check(t) ==
    LET tool == ask[t].script[used[t] + 1].tool
        calls == Append(Tools(t), tool)
        recent == IF Len(calls) > Window THEN Tail(calls) ELSE calls
    IN  /\ Step(t, "checking", "acting")
        /\ used' = [used EXCEPT ![t] = @ + 1]
        /\ window' = [window EXCEPT ![Process(t)][Session(t)] = recent]
        /\ hinted' = IF TrailingRepeat(recent) >= RepeatThreshold
                     THEN [hinted EXCEPT ![t] = @ \cup {used[t] + 1}] ELSE hinted
        /\ UNCHANGED <<luck, modelVars, stores, agents, context, injected, trace, agent, history, scope, entries,
                       number, tried, answer, source, under, judged, based, excuse>>

Remembered(t) == Appended(prefs[Buyer(t)], Wanted(t).pref)
Forgotten(t) == Deleted(prefs[Buyer(t)], Wanted(t).pref.statement)

Changed(t) == IF Wanted(t).tool = "remember" THEN Remembered(t) ELSE Forgotten(t)
Promise(t) ==
    promised' = [promised EXCEPT ![Buyer(t)] =
                    IF Wanted(t).tool = "remember" THEN @ \cup {Wanted(t).pref}
                    ELSE {p \in @ : p.statement # Wanted(t).pref.statement}]

Overwrite(t, list) ==
    /\ prefs' = [prefs EXCEPT ![Buyer(t)] = list]
    /\ excuse' = IF list = prefs[Buyer(t)] THEN excuse
                 ELSE excuse \cup {<<"changed", d>> : d \in {d \in Turns : Open(d) /\ Buyer(d) = Buyer(t)}}

Tooling(t) == Wanted(t).tool # "dispatch"

\* The two tools that change the preferences, while turns of the buyer are being answered.
Remembers(t, o) ==
    /\ Step(t, "acting", "asking") /\ Tooling(t) /\ storage = "sql" /\ Call(o)
    /\ IF Effect(o) THEN Overwrite(t, Changed(t)) /\ Promise(t)
                    ELSE UNCHANGED <<prefs, promised, excuse>>
    /\ Observe(t)
    /\ UNCHANGED <<modelVars, draft, bucket, saved, kept, dump, rows, agents, context, injected,
                   window, own, under, hinted, judged, based>>

Rewriting(b) == {t \in Turns : Buyer(t) = b /\ at[t] \in {"opening", "filling"}}

\* The same over a file.  Other processes read and write it between any two of the steps:
\* the list is read, the file is emptied by opening it, and the new list is written.
ReadFile(t) ==
    /\ at[t] = "acting" /\ Tooling(t) /\ storage = "file"
    /\ excuse' = IF \E d \in Rewriting(Buyer(t)) : Process(d) # Process(t)
                 THEN excuse \cup {<<"collided", Buyer(t)>>} ELSE excuse
    /\ IF Changed(t) = prefs[Buyer(t)]
       THEN at' = [at EXCEPT ![t] = "asking"] /\ Promise(t) /\ Observe(t) /\ UNCHANGED draft
       ELSE /\ at' = [at EXCEPT ![t] = "opening"]
            /\ draft' = [draft EXCEPT ![t] = Changed(t)]
            /\ UNCHANGED <<promised, trace>>
    /\ UNCHANGED <<luck, modelVars, prefs, bucket, saved, kept, dump, rows, agents, context, injected,
                   window, own, under, hinted, judged, based>>

OpenFile(t) ==
    /\ Step(t, "opening", "filling") /\ Overwrite(t, << >>)
    /\ UNCHANGED <<luck, modelVars, draft, promised, bucket, saved, kept, dump, rows, shared, own,
                   under, hinted, judged, based>>

FillFile(t) ==
    /\ Step(t, "filling", "asking") /\ Overwrite(t, draft[t]) /\ Promise(t) /\ Observe(t)
    /\ draft' = [draft EXCEPT ![t] = << >>]
    /\ UNCHANGED <<luck, modelVars, bucket, saved, kept, dump, rows, agents, context, injected,
                   window, own, under, hinted, judged, based>>

\* task_dispatch: a new agent of its own answers, with a model of the same throttle.
Dispatch(t) ==
    /\ Step(t, "acting", "asking") /\ Wanted(t).tool = "dispatch"
    /\ sub' = [sub EXCEPT ![t] = TRUE]
    /\ UNCHANGED <<luck, free, attempt, upstream, budgetVars, stores, shared, own, ghosts>>

\* The subagent answered, or raised, or ran into the timeout of the tool.
Dispatched(t) ==
    /\ sub[t]
    /\ \/ Answered(t)
       \/ Raises(t)
       \/ /\ at[t] \in Holding \cup {"asking"} /\ Mishap /\ Cancelled(t) /\ UNCHANGED <<upstream, budgetVars>>
    /\ at' = [at EXCEPT ![t] = "asking"]
    /\ sub' = [sub EXCEPT ![t] = FALSE]
    /\ Observe(t)
    /\ UNCHANGED <<stores, agents, context, injected, window, own, ghosts>>

-----------------------------------------------------------------------------
(* The finally clause of handle_intent                                       *)

SaveSnapshot(s, state) == saved' = [saved EXCEPT ![s] = state]

NoDump == [of |-> NoTurn, state |-> << >>]
Finish(t) == dump' = [dump EXCEPT ![t] = NoDump]
Known(t) == based' = [based EXCEPT ![dump[t].of] = dump[t].state]

\* SessionRegistry.persist dumps the agent that the registry holds now, and what is saved
\* over the awaits of SqlSessionStore.save is that dump.
Dump(t) ==
    LET a == agents[Process(t)][Session(t)] IN
    /\ Step(t, "persisting", "merging") /\ storage = "sql"
    /\ dump' = [dump EXCEPT ![t] = [of |-> a, state |-> context[a]]]
    /\ UNCHANGED <<luck, modelVars, prefVars, bucket, saved, kept, rows, shared, own, ghosts>>

\* merge selects the row; one that already has the dump is not written.
Merge(t, o) ==
    LET s == Session(t) IN
    /\ o \in {"ok", "refused"} /\ Call(o)
    /\ \/ /\ o = "refused" /\ Step(t, "merging", "question")
          /\ Excused("unsaved", t) /\ Finish(t) /\ UNCHANGED based
       \/ /\ o = "ok" /\ s \in kept /\ saved[s] = dump[t].state /\ Step(t, "merging", "question")
          /\ Known(t) /\ Finish(t) /\ UNCHANGED excuse
       \/ /\ o = "ok" /\ Step(t, "merging", IF s \in kept THEN "updating" ELSE "inserting")
          /\ UNCHANGED <<dump, based, excuse>>
    /\ UNCHANGED <<modelVars, prefVars, bucket, saved, kept, rows, shared, own, under, hinted, judged>>

\* A snapshot the agent has not read is lost, or one it saved itself after this dump.
Lost(t) ==
    LET s == Session(t)
        a == dump[t].of
    IN  IF based[a] # saved[s] THEN {<<"stale", s>>}
        ELSE IF Len(saved[s]) > Len(dump[t].state) THEN {<<"overtaken", s>>} ELSE {}

\* commit writes the row, or inserts it; of two inserts the second is refused by its key.
Persist(t, o) ==
    LET s == Session(t)
        written == Effect(o) /\ (at[t] = "inserting" => s \notin kept)
    IN  /\ at[t] \in {"inserting", "updating"} /\ Call(o)
        /\ at' = [at EXCEPT ![t] = "question"]
        /\ IF written THEN /\ SaveSnapshot(s, dump[t].state) /\ kept' = kept \cup {s} /\ Known(t)
                           /\ excuse' = excuse \cup Lost(t)
                      ELSE Excused("unsaved", t) /\ UNCHANGED <<saved, kept, based>>
        /\ Finish(t)
        /\ UNCHANGED <<modelVars, prefVars, bucket, rows, shared, own, under, hinted, judged>>

\* A file is emptied first, as write_text does; what a process that dies in between
\* leaves behind cannot be parsed and counts as a new session.
OpenSnapshot(t) ==
    LET a == agents[Process(t)][Session(t)]
        s == Session(t)
    IN  /\ Step(t, "persisting", "saving") /\ storage = "file"
        /\ SaveSnapshot(s, << >>)
        /\ excuse' = IF based[a] # saved[s] THEN excuse \cup {<<"stale", s>>} ELSE excuse
        /\ UNCHANGED <<luck, modelVars, prefVars, bucket, kept, dump, rows, shared, own, under, hinted, judged, based>>

FillSnapshot(t) ==
    LET a == agents[Process(t)][Session(t)]
        s == Session(t)
    IN  /\ Step(t, "saving", "question")
        /\ SaveSnapshot(s, context[a])
        /\ based' = [based EXCEPT ![a] = context[a]]
        /\ excuse' = IF saved[s] # << >> THEN excuse \cup {<<"stale", s>>} ELSE excuse
        /\ UNCHANGED <<luck, modelVars, prefVars, bucket, kept, dump, rows, shared, own, under, hinted, judged>>

LastNumber(s) == Max({0} \cup {r.no : r \in rows[s]})
Recording(t) == {d \in Turns \ {t} : Session(d) = Session(t) /\ at[d] \in {"question row", "reply row"}}

\* wrong: the window of the loop detector goes on into the next turn
KeptWindow(t) == window

Reset(t) == [window EXCEPT ![Process(t)][Session(t)] = << >>]

EndTurn(t) == at' = [at EXCEPT ![t] = "end"] /\ window' = Reset(t) /\ SetTrace(t, NoTrace)

\* append_turn reads the last number of the session, and inserts the next one.
ReadNumber(t, o) ==
    /\ at[t] \in {"question", "reply"} /\ storage = "sql" /\ o \in {"ok", "refused"} /\ Call(o)
    /\ IF o = "ok"
       THEN /\ at' = [at EXCEPT ![t] = IF @ = "question" THEN "question row" ELSE "reply row"]
            /\ number' = [number EXCEPT ![t] = LastNumber(Session(t))]
            /\ excuse' = IF Recording(t) = {} THEN excuse ELSE excuse \cup {<<"crossed", Session(t)>>}
            /\ UNCHANGED <<window, trace>>
       ELSE EndTurn(t) /\ Excused("unrecorded", t) /\ UNCHANGED number
    /\ UNCHANGED <<modelVars, stores, agents, context, injected, agent, history, scope, entries, tried, used,
                   answer, source, under, hinted, judged, based>>

Row(t, n) == [by |-> t, role |-> IF at[t] \in {"question", "question row"} THEN "buyer" ELSE "agent", no |-> n]

InsertRow(t, o) ==
    /\ at[t] \in {"question row", "reply row"} /\ Call(o)
    /\ rows' = IF Effect(o) THEN [rows EXCEPT ![Session(t)] = @ \cup {Row(t, number[t] + 1)}] ELSE rows
    /\ number' = [number EXCEPT ![t] = 0]
    /\ IF Ok(o) /\ at[t] = "question row" THEN at' = [at EXCEPT ![t] = "reply"] /\ UNCHANGED <<window, trace>>
       ELSE EndTurn(t)
    /\ IF Ok(o) THEN UNCHANGED excuse ELSE Excused("unrecorded", t)
    /\ UNCHANGED <<modelVars, prefVars, bucket, saved, kept, dump, agents, context, injected, agent, history,
                   scope, entries, tried, used, answer, source, under, hinted, judged, based>>

\* A line is appended to the file of the session; its place is its number.
AppendLine(t) ==
    /\ at[t] \in {"question", "reply"} /\ storage = "file"
    /\ rows' = [rows EXCEPT ![Session(t)] = @ \cup {Row(t, LastNumber(Session(t)) + 1)}]
    /\ IF at[t] = "question" THEN at' = [at EXCEPT ![t] = "reply"] /\ UNCHANGED <<window, trace>>
       ELSE EndTurn(t)
    /\ UNCHANGED <<luck, modelVars, prefVars, bucket, saved, kept, dump, agents, context, injected, own, ghosts>>

-----------------------------------------------------------------------------
(* A worker dies with its turns and with all it keeps in memory.             *)

Crash(p) ==
    LET dead == {t \in Turns : Process(t) = p /\ Open(t)}
        Empty(x) == [s \in Sessions |-> x]
    IN  /\ dead # {} /\ Mishap
        /\ at' = [t \in Turns |-> IF t \in dead THEN "down" ELSE at[t]]
        /\ free' = [free EXCEPT ![p] = Slots]
        /\ attempt' = [t \in Turns |-> IF t \in dead THEN 0 ELSE attempt[t]]
        /\ sub' = [t \in Turns |-> sub[t] /\ t \notin dead]
        /\ agents' = [agents EXCEPT ![p] = Empty(NoTurn)]
        /\ injected' = [injected EXCEPT ![p] = Empty(<< >>)]
        /\ window' = [window EXCEPT ![p] = Empty(<< >>)]
        /\ trace' = [trace EXCEPT ![p] = Empty(NoTrace)]
        /\ excuse' = excuse \cup {<<"torn", Buyer(t)>> : t \in {t \in dead : at[t] = "filling"}}
                            \cup {<<"torn", Session(t)>> : t \in {t \in dead : at[t] = "saving"}}
        /\ UNCHANGED <<upstream, budgetVars, stores, context, own, under, hinted, judged, based>>

Init ==
    /\ \E case \in Cases : /\ ask = case.calls /\ luck = case.luck
                            /\ prefs = case.prefs /\ storage = case.storage
    /\ draft = [t \in Turns |-> << >>] /\ promised = [b \in Buyers |-> Range(prefs[b])]
    /\ at = [t \in Turns |-> "idle"] /\ ModelInit
    /\ bucket = << >> /\ saved = [s \in Sessions |-> << >>] /\ rows = [s \in Sessions |-> {}]
    /\ kept = {} /\ dump = [t \in Turns |-> NoDump]
    /\ agents = [p \in Processes |-> [s \in Sessions |-> NoTurn]]
    /\ context = [t \in Turns |-> << >>]
    /\ injected = [p \in Processes |-> [s \in Sessions |-> << >>]]
    /\ window = [p \in Processes |-> [s \in Sessions |-> << >>]]
    /\ trace = [p \in Processes |-> [s \in Sessions |-> NoTrace]]
    /\ agent = [t \in Turns |-> NoTurn] /\ history = [t \in Turns |-> FALSE]
    /\ scope = [t \in Turns |-> << >>] /\ entries = [t \in Turns |-> << >>]
    /\ number = [t \in Turns |-> 0] /\ tried = [t \in Turns |-> 0] /\ used = [t \in Turns |-> 0]
    /\ answer = [t \in Turns |-> "none"] /\ source = [t \in Turns |-> NoTurn]
    /\ under = [t \in Turns |-> << >>] /\ hinted = [t \in Turns |-> {}]
    /\ judged = [t \in Turns |-> {}]
    /\ based = [t \in Turns |-> << >>] /\ excuse = {}

\* What an event loop does for a turn when the calls it makes answer.
Awaited(t, o) ==
    \/ Restore(t, o) \/ ReadScope(t, o) \/ Lookup(t, o) \/ BuildInputs(t, o)
    \/ Remembers(t, o) \/ LoadEntries(t, o) \/ StoreEntries(t, o)
    \/ Merge(t, o) \/ Persist(t, o) \/ ReadNumber(t, o) \/ InsertRow(t, o)

\* What it does without awaiting anything.
AtOnce(t) ==
    \/ ReadFile(t) \/ OpenFile(t) \/ FillFile(t)
    \/ Dump(t) \/ OpenSnapshot(t) \/ FillSnapshot(t) \/ AppendLine(t)

Next == /\ UNCHANGED <<ask, storage>>
        /\ \/ \E t \in Turns : /\ Runs(t)
                               /\ \/ Start(t) \/ Check(t) \/ Dispatch(t) \/ AtOnce(t)
                                  \/ Asking(t) \/ Replied(t) \/ ReplyRaises(t) \/ Dispatched(t)
                                  \/ \E o \in Outcomes : Awaited(t, o)
           \/ \E p \in Processes : Crash(p)

Spec == Init /\ [][Next]_vars
=============================================================================
