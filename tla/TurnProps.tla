----------------------------- MODULE TurnProps -------------------------------
(***************************************************************************)
(* What the turns of Turns must keep, whatever the model, the stores, the  *)
(* cache, crashes and the other turns do.                                  *)
(***************************************************************************)
EXTENDS Turns

Said == {"asked", "told"} \X Turns
Entry == [query : Queries, by : Turns]

IsContext(c) == \A i \in DOMAIN c : c[i] \in Said \/ (c[i][1] = "hint" /\ c[i][2] \in Seq(Preference))

\* Types of the state of turns, agents, stores and model calls.
TypeOK ==
    /\ luck \in Nat /\ at \in [Turns -> Steps] /\ ModelTypeOK
    /\ storage \in {"sql", "file"}
    /\ prefs \in [Buyers -> Seq(Preference)] /\ draft \in [Turns -> Seq(Preference)]
    /\ promised \in [Buyers -> SUBSET Preference]
    /\ \A k \in DOMAIN bucket : k \in Buyers \X Seq(Preference) /\ bucket[k] \in Seq(Entry)
    /\ \A s \in Sessions : IsContext(saved[s]) /\ rows[s] \subseteq [by : Turns, role : {"buyer", "agent"}, no : Nat]
    /\ kept \subseteq Sessions /\ \A t \in Turns : dump[t].of \in Turns \cup {NoTurn} /\ IsContext(dump[t].state)
    /\ \A t \in Turns : IsContext(context[t]) /\ IsContext(based[t])
    /\ agents \in [Processes -> [Sessions -> Turns \cup {NoTurn}]]
    /\ injected \in [Processes -> [Sessions -> Seq(Preference)]]
    /\ window \in [Processes -> [Sessions -> Seq({"remember", "forget", "dispatch"})]]
    /\ LET Trace1 == [by : Turns \cup {NoTurn}, rounds : Nat] IN
       trace \in [Processes -> [Sessions -> Trace1]] /\ judged \in [Turns -> SUBSET Trace1]
    /\ agent \in [Turns -> Turns \cup {NoTurn}] /\ history \in [Turns -> BOOLEAN]
    /\ scope \in [Turns -> Seq(Preference)] /\ entries \in [Turns -> Seq(Entry)]
    /\ number \in [Turns -> Nat] /\ used \in [Turns -> Nat]
    /\ tried \in [Turns -> 0 .. TurnRetries]
    /\ answer \in [Turns -> {"none", "reply", "cached", "error"}]
    /\ source \in [Turns -> Turns \cup {NoTurn}]
    /\ under \in [Turns -> Seq(Preference)] /\ hinted \in [Turns -> SUBSET Nat]
    /\ excuse \subseteq ({"overlap", "misread", "changed", "unsaved", "unrecorded"} \X Turns)
                        \cup ({"twin", "stale", "overtaken", "crossed", "torn"} \X Sessions)
                        \cup ({"collided", "torn"} \X Buyers)

Excusable(reasons, x) == \E why \in reasons : <<why, x>> \in excuse

SlotsAccounted ==
    \A p \in Processes :
        free[p] + Cardinality({t \in Turns : Process(t) = p /\ at[t] \in Holding}) = Slots

RequestsBounded ==
    \A t \in Turns :
        LET subcalls == {i \in DOMAIN ask[t].script : ask[t].script[i].tool = "dispatch"}
            calls == Len(ask[t].script) + 1 + TurnRetries + Cardinality(subcalls)
        IN  upstream[t] <= calls * (MaxRetries + 1 + (IF HasFallback THEN 1 ELSE 0))

BudgetRespected ==
    HasFallback => \A t \in Turns : Budget(t) > 0 => 2 * dear[t] < Budget(t) + 2 * Slots * CallCost

\* The slots of the gateway are given back whatever ends a call, so as many are free or
\* held as there are; two layers of retries (llm.py:141, orchestrator.py:303) send no
\* more requests than their product for every call of the model; and, if there is another
\* model to fall back on, a turn with its subagents and retries spends half its budget on the
\* main model and no more than what was under way when that half was gone (budget.py:37).
\* What the other model is charged has no bound: the last tier of budget.py:14, which calls
\* no model any more, is never asked for.
GatewayProtected == SlotsAccounted /\ RequestsBounded /\ BudgetRespected

\* What the cache tells a buyer was said to the same buyer, to the same question, without a
\* conversation before it, as a reply and no error.  It followed the preferences this turn
\* read, but not if they changed while that reply was made: orchestrator.py:245 reads them
\* again and files it under those, which is excused, as is a failed read of the turn that
\* made it.  A bucket never outgrows its limit.
CacheSound ==
    /\ \A t \in Turns : answer[t] = "cached" =>
           LET u == source[t] IN
           /\ ~history[t] /\ ask[u].query = ask[t].query /\ Buyer(u) = Buyer(t)
           /\ scope[t] = under[u] \/ Excusable({"changed", "misread"}, u)
    /\ \A k \in DOMAIN bucket :
           /\ Len(bucket[k]) <= BucketLimit
           /\ \A i \in DOMAIN bucket[k] :
                  LET u == bucket[k][i].by IN
                  /\ Buyer(u) = k[1] /\ answer[u] = "reply" /\ Cacheable(u)
                  /\ under[u] = k[2] \/ Excusable({"changed", "misread"}, u)

Saved(t) ==
    LET told == saved[Session(t)]
    IN  \E i, j \in DOMAIN told : i < j /\ told[i] = <<"asked", t>> /\ told[j] = <<"told", t>>

Recorded(t) == {r \in rows[Session(t)] : r.by = t}

SnapshotKept ==
    \A t \in Turns : at[t] = "end" /\ answer[t] = "reply" =>
        \/ Saved(t) \/ \E d \in Turns : Session(d) = Session(t) /\ at[d] = "saving"
        \/ Excusable({"unsaved"}, t) \/ Excusable({"stale", "overtaken", "twin", "torn"}, Session(t))

ConversationKept ==
    /\ \A t \in Turns : at[t] = "end" =>
           Excusable({"unrecorded"}, t) \/ Cardinality(Recorded(t)) = 2
    /\ \A s \in Sessions : Excusable({"crossed"}, s) \/ \A r, q \in rows[s] : r.no = q.no => r = q

PreferencesKept ==
    \A b \in Buyers :
        \/ Range(prefs[b]) = promised[b] /\ Len(prefs[b]) = Cardinality(promised[b])
        \/ Excusable({"collided", "torn"}, b) \/ \E t \in Rewriting(b) : at[t] = "filling"

\* What a process keeps outlives it.  A reply that ended its turn is in the snapshot of its
\* session, after its question, and stays there: unless its save failed or was cut short, an
\* agent that had not read the last snapshot was saved over it (main_agent.py:172 never
\* reads it again), of two overlapping turns the one whose dump was taken first was saved
\* last (repositories.py:97), or they built an agent each.  Both rows of a turn are
\* in the conversation unless a write failed, and no two rows of a session have one number
\* unless two turns read the last one together (repositories.py:126).  A preference told to
\* be remembered is kept once until it is withdrawn, and a withdrawn one is not; over a
\* file, unless two processes rewrote it together or one died doing so
\* (json_file_stores.py:43).
MemoryKept == SnapshotKept /\ ConversationKept /\ PreferencesKept

Hints(c) == Filtered(c, {"hint"} \X Seq(Preference))

\* What the turn read tells nothing: the list was empty, or its read failed.
ReadNothing(t) == under[t] = << >> \/ (Dislikes(under[t]) = << >> /\ TopK = 0)

\* While an agent answers a turn that read preferences, every dislike of them and the newest
\* TopK likes are in the last hint of its context, and no other like: also after other turns,
\* other sessions, a restored snapshot or a crash; unless turns of the session overlap, or two
\* of them built an agent each: what was injected is remembered by session
\* (orchestrator.py:431), and the agent that was kept may never have been told.  A turn that
\* read none is told nothing, and nothing is taken back (orchestrator.py:419): its agent still
\* has, as its last hint, what the process injected last, though a buyer who has withdrawn the
\* last preference is promised that it no longer counts (forget_preference_tool.py:24).
DislikesInjected ==
    \A t \in Turns : at[t] \in {"asking", "calling", "falling", "checking", "acting"} =>
        LET hints == Hints(context[agent[t]])
            hint == Last(hints)[2]
            before == injected[Process(t)][Session(t)]
        IN  \/ Excusable({"overlap"}, t) \/ Excusable({"twin"}, Session(t))
            \/ ReadNothing(t) /\ (before = << >> \/ (hints # << >> /\ hint = before))
            \/ /\ ~ReadNothing(t) /\ hints # << >>
               /\ Range(Dislikes(under[t])) = Range(Dislikes(hint))
               /\ LET likes == Likes(under[t]) IN
                  \A i \in DOMAIN likes : likes[i] \in Range(hint) <=> Len(likes) - i < TopK

OwnRepeat(t, i) == TrailingRepeat([j \in 1 .. i |-> ask[t].script[j].tool])

\* The hint to converge is given exactly when the turn itself has called one tool
\* RepeatThreshold times on end, and drift is judged by the turn's own query and all its
\* own actions, whatever earlier turns of the session and the turns of other sessions did
\* (the resets of orchestrator.py:192); unless turns of the session overlap in the process.
HarnessSeesOwnTurn ==
    \A t \in Turns : Excusable({"overlap"}, t) \/
        /\ \A i \in 1 .. used[t] : i \in hinted[t] <=> OwnRepeat(t, i) >= RepeatThreshold
        /\ judged[t] \subseteq {[by |-> t, rounds |-> Len(ask[t].script)]}
        /\ at[t] = "rescoping" /\ used[t] > 0 /\ used[t] % CheckInterval = 0 => judged[t] # {}

-----------------------------------------------------------------------------
(* Fairness: while some turn that was started can go on, the event loop of a *)
(* live worker goes on with one; the stores, the cache and the model answer  *)
(* in the end.  A turn takes finitely many steps, so no more is needed.      *)

Proceeds(t) ==
    /\ UNCHANGED <<ask, storage>> /\ Runs(t)
    /\ \/ Check(t) \/ Dispatch(t) \/ AtOnce(t) \/ (Acquire(t) /\ UNCHANGED <<stores, shared, own, ghosts>>)
       \/ Replied(t) \/ Dispatched(t) \/ Awaited(t, "ok")

FairSpec == Spec /\ WF_vars(\E t \in Turns : Proceeds(t))

\* Every turn that was started ends: a turn that dispatches does not hold the slot its
\* subagent waits for, and neither a timeout nor an error leaves the others without one.
TurnsEnd == <>[](\A t \in Turns : ~Open(t))
=============================================================================
