------------------------------ MODULE EventBus ------------------------------
(***************************************************************************)
(* TradeEventBus of the API process and RedisEventBackplane behind it.     *)
(* Every subscriber has a queue of its own.  An event published in a       *)
(* process goes to the subscribers there and, by a task nobody waits for,  *)
(* to a Redis channel; the API process listens to all channels and skips   *)
(* what it sent itself.  The worker processes do not listen, and the only  *)
(* subscriber in one is the trace of a running turn (module Turns), so     *)
(* their publishing is Broadcast alone.                                    *)
(*                                                                         *)
(* Definitions marked "wrong:" are not part of the model: each is a bug    *)
(* this code could have had, kept to test that the properties notice it.   *)
(***************************************************************************)
EXTENDS RemoteCall, Sequences

CONSTANTS Sessions, Tasks,
          Queues,          \* one per request that may wait or socket that may watch
          Api, Workers     \* the processes

\* The two a subscriber of the API process can tell apart in what it does: the
\* others only pass through a queue to the screen.
EventTypes == {"task.queued", "final.result"}

Event == [session : Sessions, type : EventTypes, task : Tasks]
TradeEvent(s, ty, t) == [session |-> s, type |-> ty, task |-> t]

VARIABLES subscribers,   \* [Sessions -> SUBSET Queues], of the API process
          inbox,         \* [Queues -> Seq(Event)]
          wire,          \* [origin, event] published to Redis, not yet at the listener
          listening      \* whether the forwarding task of the API process runs

busVars == <<subscribers, inbox, wire, listening>>

Subscribe(q, s) == subscribers' = [subscribers EXCEPT ![s] = @ \cup {q}]

Unsubscribe(q) == /\ subscribers' = [s \in Sessions |-> subscribers[s] \ {q}]
                  /\ inbox' = [inbox EXCEPT ![q] = << >>]

\* wrong: every subscriber of the process gets every event
DeliveredToAll(e, subs) ==
    [q \in Queues |-> IF q \in UNION {subs[s] : s \in Sessions}
                      THEN Append(inbox[q], e) ELSE inbox[q]]

Delivered(e, subs) ==
    [q \in Queues |-> IF q \in subs[e.session] THEN Append(inbox[q], e) ELSE inbox[q]]

Broadcast(p, e) == wire' = wire \cup {[origin |-> p, event |-> e]}

\* wrong: the listener forwards what its own process sent
ForeignOrOwn(m) == TRUE

Foreign(m) == m.origin # Api

\* One message reaches the listener, in any order; without one it is gone.
Forward(m) ==
    /\ m \in wire
    /\ wire' = wire \ {m}
    /\ inbox' = IF listening /\ Foreign(m) THEN Delivered(m.event, subscribers) ELSE inbox
    /\ UNCHANGED <<subscribers, listening>>

\* RedisEventBackplane.publish swallows what the client raises.
LoseBroadcast(m) ==
    /\ m \in wire
    /\ wire' = wire \ {m}
    /\ UNCHANGED <<subscribers, inbox, listening>>

\* The connection breaks: _forward_remote_events logs it and ends for good.
ListenerFails ==
    /\ listening
    /\ listening' = FALSE
    /\ UNCHANGED <<subscribers, inbox, wire>>

\* A new API process starts with no subscriber and a new listener.
BusRestarts ==
    /\ subscribers' = [s \in Sessions |-> {}]
    /\ inbox' = [q \in Queues |-> << >>]
    /\ listening' = TRUE
    /\ UNCHANGED wire

BusInit == /\ subscribers = [s \in Sessions |-> {}]
           /\ inbox = [q \in Queues |-> << >>]
           /\ wire = {}
           /\ listening = TRUE

BusTypeOK ==
    /\ subscribers \in [Sessions -> SUBSET Queues]
    /\ inbox \in [Queues -> Seq(Event)]
    /\ wire \subseteq [origin : Workers \cup {Api}, event : Event]
    /\ listening \in BOOLEAN
=============================================================================
