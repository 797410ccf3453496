------------------------------ MODULE ModelCall ------------------------------
(***************************************************************************)
(* ThrottledChatModel: every call of a language model in a process takes   *)
(* one of the slots of GatewayThrottle, keeps it through its retries, its  *)
(* fallback and the reading of the stream, and gives it back on every way  *)
(* out.  A turn calls the model for itself, and once more for a subagent   *)
(* that works for it (sub).  What the calls of a turn cost goes into its   *)
(* TokenBudget, which its subagents share; once half of it is gone, the    *)
(* other model is asked in place of the main one.                          *)
(***************************************************************************)
EXTENDS RemoteCall

CONSTANTS Turns, Processes,
          Slots,             \* llm_max_concurrency
          MaxRetries,        \* llm_max_retries, of one call of the model
          HasFallback,       \* whether a second model is configured
          CallCost           \* tokens of a call that was answered

ASSUME ModelAssumption ==
    Slots \in Nat \ {0} /\ MaxRetries \in Nat /\ HasFallback \in BOOLEAN /\ CallCost \in Nat

VARIABLES ask,         \* [Turns -> the intent], fixed by Init
          at,          \* [Turns -> Steps]
          free,        \* [Processes -> Nat], slots nobody holds
          attempt,     \* [Turns -> Nat], failed attempts of the call under way
          upstream,    \* history: [Turns -> Nat], requests sent to the gateway
          sub,         \* [Turns -> BOOLEAN], the call is a subagent's
          spent,       \* [Turns -> Nat], used of the turn's TokenBudget
          dear         \* history: [Turns -> Nat], what of it went to the main model

budgetVars == <<spent, dear>>
modelVars == <<free, attempt, upstream, sub, budgetVars>>

Process(t) == ask[t].process
Holding == {"calling", "falling"}

Acquire(t) ==
    /\ at[t] = "asking" /\ free[Process(t)] > 0
    /\ free' = [free EXCEPT ![Process(t)] = @ - 1]
    /\ at' = [at EXCEPT ![t] = "calling"]
    /\ UNCHANGED <<attempt, upstream, sub, budgetVars, luck>>

Budget(t) == ask[t].budget     \* token_budget_total, 0 if there is none

\* current_tier is "main"; the tiers below it all ask the other model.
Ample(t) == Budget(t) = 0 \/ 2 * (Budget(t) - spent[t]) > Budget(t)

OnMain(t) == at[t] = "calling" /\ (Ample(t) \/ ~HasFallback)

\* wrong: a subagent has a budget of its own
ChargedOnce(t) == IF sub[t] THEN 0 ELSE CallCost

\* _charge_budget, from the usage in the last chunk of the stream.
Charged(t) == CallCost

Charge(t) ==
    IF Budget(t) = 0 THEN UNCHANGED budgetVars
    ELSE /\ spent' = [spent EXCEPT ![t] = @ + Charged(t)]
         /\ dear' = [dear EXCEPT ![t] = @ + IF OnMain(t) THEN CallCost ELSE 0]

Sent(t) == upstream' = [upstream EXCEPT ![t] = @ + 1]

\* The main model fails for a moment: again after a while, or the other model's turn.
Retry(t) ==
    /\ at[t] = "calling" /\ Mishap /\ Sent(t)
    /\ \/ /\ attempt[t] < MaxRetries
          /\ attempt' = [attempt EXCEPT ![t] = @ + 1]
          /\ UNCHANGED at
       \/ /\ attempt[t] = MaxRetries /\ HasFallback
          /\ at' = [at EXCEPT ![t] = "falling"]
          /\ UNCHANGED attempt
    /\ UNCHANGED <<free, sub, budgetVars>>

\* wrong: the slot is given back only when the call succeeds
GivesBackUnlessRaised(t, raised) == IF raised THEN free ELSE [free EXCEPT ![Process(t)] = @ + 1]

GivesBack(t, raised) == [free EXCEPT ![Process(t)] = @ + 1]

Over(t, raised) == free' = GivesBack(t, raised) /\ attempt' = [attempt EXCEPT ![t] = 0]

\* The call is answered and the stream read to its end.
Answered(t) == at[t] \in Holding /\ Sent(t) /\ Over(t, FALSE) /\ Charge(t) /\ UNCHANGED luck

\* The call raises: an error that is not transient, the last attempt, or a stream that
\* breaks after it began, which this layer does not retry whatever the error says and
\* which never shows its usage.
Raises(t) == at[t] \in Holding /\ Mishap /\ Sent(t) /\ Over(t, TRUE) /\ UNCHANGED budgetVars

\* wrong: a call that is cut short by the timeout of its tool keeps the slot
CancelledHolding(t) == /\ attempt' = [attempt EXCEPT ![t] = 0]
                       /\ UNCHANGED free

\* asyncio.wait_for cancels the call at whatever it awaits.
Cancelled(t) == IF at[t] \in Holding THEN Over(t, TRUE) ELSE UNCHANGED <<free, attempt>>

ModelInit ==
    /\ free = [p \in Processes |-> Slots]
    /\ attempt = [t \in Turns |-> 0]
    /\ upstream = [t \in Turns |-> 0]
    /\ sub = [t \in Turns |-> FALSE]
    /\ spent = [t \in Turns |-> 0] /\ dear = [t \in Turns |-> 0]

ModelTypeOK ==
    /\ free \in [Processes -> 0 .. Slots]
    /\ attempt \in [Turns -> 0 .. MaxRetries]
    /\ upstream \in [Turns -> Nat]
    /\ sub \in [Turns -> BOOLEAN]
    /\ spent \in [Turns -> Nat] /\ dear \in [Turns -> Nat]
=============================================================================
