--------------------------- MODULE TaskLifecycle ----------------------------
(***************************************************************************)
(* What the queue promises of a task, with no stream, no status key and no *)
(* process in sight: at least once delivery.  A task is accepted once; a   *)
(* mishap may strand it, and a stranded one may be handed out again        *)
(* ("pending redelivery", redis_stream_queue.py:8 and 113-115, worker.py:14) *)
(* until it was delivered MaxDeliveries times, when it is dead; it is      *)
(* answered by whoever holds it, and never touched afterwards.             *)
(*                                                                         *)
(* The code keeps Spec, without ever taking Redeliver: claim_stale, the    *)
(* only reader of pending messages, has no caller.  It does not keep       *)
(* FairSpec, the promise that what was stranded does come back.            *)
(***************************************************************************)
EXTENDS Naturals

CONSTANTS Tasks, MaxDeliveries

VARIABLES phase,     \* [Tasks -> {"unsent", "waiting", "held", "answered", "stranded", "dead"}]
          handed,    \* [Tasks -> Nat], how often a task was delivered
          luck       \* mishaps that may still happen

life == <<phase, handed, luck>>

Init == /\ phase = [t \in Tasks |-> "unsent"] /\ handed = [t \in Tasks |-> 0]
        /\ luck \in Nat

Move(S, from, to) ==
    /\ S # {} /\ \A t \in S : phase[t] = from
    /\ phase' = [t \in Tasks |-> IF t \in S THEN to ELSE phase[t]]
Deliver(S) == handed' = [t \in Tasks |-> IF t \in S THEN handed[t] + 1 ELSE handed[t]]
Misfortune == luck' = luck - 1

Accept(t) == Move({t}, "unsent", "waiting") /\ UNCHANGED handed /\ luck' \in {luck, luck - 1}
Hold(S) == Move(S, "waiting", "held") /\ Deliver(S) /\ UNCHANGED luck
Lose(S) == Move(S, "waiting", "stranded") /\ Deliver(S) /\ Misfortune
Answer(t) == Move({t}, "held", "answered") /\ UNCHANGED <<handed, luck>>
Strand(S) == Move(S, "held", "stranded") /\ UNCHANGED handed /\ Misfortune
Bury(t) ==
    /\ handed[t] >= MaxDeliveries
    /\ Move({t}, "held", "dead") /\ UNCHANGED handed /\ Misfortune
Mishap == UNCHANGED <<phase, handed>> /\ Misfortune

Redeliver(S) ==
    /\ \A t \in S : handed[t] < MaxDeliveries
    /\ Move(S, "stranded", "held") /\ Deliver(S) /\ UNCHANGED luck

\* The life of a task that is delivered once.
Once == \/ \E t \in Tasks : Accept(t) \/ Answer(t) \/ Bury(t)
        \/ \E S \in SUBSET Tasks : Hold(S) \/ Lose(S) \/ Strand(S)
        \/ Mishap

Next == Once \/ \E S \in SUBSET Tasks : Redeliver(S)

Spec == Init /\ [][Next]_life
FairSpec == Spec /\ \A t \in Tasks : WF_life(Redeliver({t}))
=============================================================================
