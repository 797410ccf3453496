# Formal model of dev_proj

The repository holds three programs. `campus-dash` is a campus errand platform (Java,
MySQL, Redis, RocketMQ): a publisher freezes a reward, a runner grabs the errand, delivers
it and is paid. `globex-agent` is a shopping assistant (Python, Redis streams) around a
language model. `SuperBizAgent` is an operations assistant (Go) around another one.
The money and the grab protocol of `campus-dash`, and what surrounds the language model in
`globex-agent` (queue, event bus, tools, orders, turns), carry most of the logic that is hard
to test and are modelled. Paths below are relative to `src/`; `UC/` stands for
`campus-dash/campus-dash-backend/dash-application/.../usecase/`, `GA/` for
`globex-agent/app/`.

## 1. Inventory

### campus-dash

| component | state | operations | interacts with | hard behaviour |
|---|---|---|---|---|
| errand aggregate (`Errand`, `ErrandStatus`) | status, grabber, slot_taken, round, version | publish, lock, accept, transfer, revert, pick up, deliver, settle, cancel, dispute, arbitrate | every use case | 11 statuses, optimistic version |
| errand table (`JdbcErrandRepository`) | row of `errand`, status log | one conditional UPDATE per method | all use cases, worker | the SQL repeats only part of the domain checks |
| escrow, settlement, refund, arbitration | `escrow_order`, `wallet_account`, `wallet_ledger` | publish, settle, cancel, arbitrate | fund events, credit, cache | three gates, decisions made outside the transaction, crash between two transactions |
| grabbing (`GrabErrandUseCase`, `grab.lua`, `rollback_slot.lua`) | Redis slot, grabbed set, idempotency keys, candidate ZSET; `grab_record` | acquire, lock, compensate, enqueue as candidate | timeout messages | two stores without a common transaction |
| confirm timeout (`TimeoutTransferUseCase`, consumer, scan) | `local_message`, round | transfer, revert, give back | grabbing | late or duplicated messages, two handlers at once |
| local message table and retry job | PENDING / SENT / DEAD, retry count | enqueue, send, retry | RocketMQ | sent but not marked; dead after six attempts |
| fund events (transactional messages) | half messages, resolution | publishInTransaction, check-back, consume | ledger, notifications | lost resolution, check-back against the ledger |
| detail cache | Redis entries in shards, rebuild lock, bloom filter | read, rebuild, evict, evict again | every writer | stale refill after an eviction |
| credit | score, events | apply, calibrate, rank | settle, dispute, revert | clamped deltas with a unique business number |
| reconciliation | recon_diff | daily checks | ledger, escrow | reads a moving database |
| notifications, websocket, auth, rate limit, ids, sharding, queries, benchmarks | – | – | – | see `PROJECT.json` |

### globex-agent

An API process takes an intent, puts a task into a Redis stream and waits; a worker process
takes the task and runs a turn: it restores the agent of the session, injects the buyer's
preferences, asks the cache or the model, runs the tools the model calls, saves the session
and publishes the result, which the API process hears over a Redis channel.

| component | state | operations | interacts with | hard behaviour |
|---|---|---|---|---|
| queue and worker (`GA/infrastructure/queue/`, `GA/worker.py`) | two streams, pending lists, dead letters, status keys, messages in flight | enqueue, consume, handle, acknowledge, stop | orchestrator, event bus | failed messages are never read again, stop and crash with work in flight, a lost answer to a command that took effect |
| intent endpoints (`GA/presentation/server.py`) | idempotency keys, turn counters, waiting calls | reserve, enqueue, mark queued, wait, poll, time out | queue, event bus | the status `queued` written after the worker's `done`; a crash between key and message; repeats |
| event bus, SSE, WebSocket (`GA/infrastructure/eventbus.py`, `GA/presentation/connection.py`) | subscriber queues, channel | publish, subscribe, listen | endpoints, worker | events of another task of the session, own events heard twice, events lost and reordered |
| circuit breakers and tool time-outs (`GA/infrastructure/resilience.py`, `GA/infrastructure/shared_breaker.py`) | failures, opened_at, half-open, per process or in Redis | allow, record | every tool | load and save as two commands, several processes |
| orders and stock (`GA/application/usecases/order_usecases.py`, `GA/infrastructure/persistence/`) | stock per process, order rows, counters | create, cancel, query | tools, REST | roll-back of several lines, numbers from a count, a time-out at any await |
| product search, landed price (`GA/application/usecases/catalog_search.py`, `GA/domain/`) | – | recall, filter, rerank, price | vector index, reranker | fall-backs, rounding through currencies |
| throttle, retries, model calls (`GA/infrastructure/llm.py`) | slots per process, attempts | acquire, send, retry, fall back | orchestrator, subagents | errors before and inside the stream, nested retries |
| turn orchestration, agents, sessions (`GA/application/agents/`) | cached agents, contexts, snapshots, conversation rows | handle an intent | all of the above | overlapping turns of a session, a session that changes worker, crash |
| preferences, semantic cache | preferences per buyer, in SQL or in files; buckets per buyer and scope | remember, forget, inject; look up, store | turns | scope read at another moment than the answer; read-change-write of a bucket or a file |
| harness (loop and drift detectors) | window and trace per session of a process | observe, check, reset | turns | state of one turn seen by another |
| token budget (`GA/infrastructure/budget.py`) | tokens used by a turn | charge, choose the model | model calls, subagents | one account of a turn, its retries and its subagents |
| guards, compression, prompts, category knowledge, web search, seed data | – | – | – | see `PROJECT.json` |

### SuperBizAgent

Chat memory (a window of six messages per session, shared by concurrent chats), SSE, and
pipelines that wire an external framework. Only the memory has logic to check.

### What makes each component correct

* Aggregate and table: a row moves only by one whole method of the aggregate, checks included.
* Money: a reward leaves one purse once and comes out once; the escrow pool covers what is
  held; the ledger explains every balance; a dispute freezes the money; the row's status
  and the money agree.
* Grabbing: places are neither created nor lost twice, each round has one winner, and
  Redis and MySQL agree once nothing is under way.
* Timeout: a lock ends, but not before its own window has elapsed, and a transferred errand
  has a next timeout.
* Messages: what was registered is delivered or found by a scan; duplicates do no harm.
* Cache: a value older than the last committed one does not survive the second deletion.
* Intents: a call is told an answer of its own session; a repeat is carried out once; a
  task whose handler ended has a final status; a stranded task comes back; no call waits for ever.
* Orders: stock, table and answers tell the same story, whatever was refused, timed out or
  restarted; an order's stock goes back once.
* Breakers: a circuit opens only after that many failures in a row.
* Search: what is shown is deliverable, within the cap and priced right, and the fall-back to
  keywords misses no match.
* Turns: model slots come back and a budget is kept; the cache answers with what was said to this buyer under
  these preferences; a reply that was told is in the
  snapshot, a preference in the store until it is withdrawn; every dislike is before the
  model; a turn is judged by its own actions; every turn ends.

The hazards, each at its line and with the property that covers it or the reason none does
yet, are listed in `PROJECT.json`.

## 2. Plan

Built, in this order: errand aggregate and table; money; grab and timeout; proofs about
money; intents (queue, worker, bus, endpoints) and their proofs; orders with tools, breakers
and search; turns with model calls, preferences, cache and harness; proofs about grabbing,
the books, orders, stock, turns and searches. Every safety property of a passing run has a
theorem; liveness stays with TLC (section 5). What is left:

1. `campus-dash`: `LocalMessage` (registration, send, retry, DEAD, scan as safety net), then
   `FundEvent` (half message, local transaction, check-back, consumer), with the abstract
   specification "the event is delivered exactly when the posting exists".
2. `ErrandCache`, credit, ids, the chat memory of SuperBizAgent: small modules.

## 3. Modules

| module | what it is | code |
|---|---|---|
| `ErrandStatus` | statuses and allowed transitions | `ErrandStatus.java` |
| `ErrandDomain` | the record `Errand`; each method as `May...` (its checks) and a result | `Errand.java` |
| `ErrandAggregate` | abstract specification: an errand moves by whole methods | `Errand.java` |
| `ErrandRow` | each UPDATE as `...Hits` (WHERE) and `...Sets` (SET) | `JdbcErrandRepository.java` |
| `EscrowContract` | abstract specification: hold once, pay or return once | what `EscrowOrder.java` promises |
| `ErrandFunds` | the money use cases over errand, escrow, accounts and ledger | `UC/Publish-`, `Settle-`, `Refund-`, `ArbitrateErrandUseCase`, `ArbitrateSettleStep`, `JdbcWalletRepository` |
| `ErrandFundsProps` | its properties and refinement mappings | – |
| `ErrandRowProofs` | lemmas: what each UPDATE leaves behind | – |
| `DataLemmas` | lemmas: sums over finite sets, filters of lists, ranks, least counterexamples | – |
| `ErrandFundsProofs` | theorems about the money | – |
| `ErrandGrab` | Redis and database sides of grabbing, timeout, transfer, revert | `UC/GrabErrandUseCase`, `GrabTransactionalStep`, `TimeoutTransferUseCase`, `TimeoutTransferStep`, Lua scripts, `RedisCandidateQueueAdapter` |
| `ErrandGrabProps`, `ErrandGrabProofs` | its properties; theorems | – |
| `RemoteCall` | a command to Redis or the database answers, is refused, or takes effect and raises | the `except` branches around every client call |
| `EventBus` | subscribers, queues, channel, listener | `GA/infrastructure/eventbus.py`, `connection.py` |
| `TaskStream` | streams, pending lists, reading loop, handler, stop, crash | `redis_stream_queue.py`, `GA/worker.py` |
| `TaskLifecycle` | abstract specification: at least once delivery; a stranded task may be handed out again up to `MaxDeliveries` times | what the queue promises |
| `IntentService` | the endpoints in front of the queue | `server.py`, `connection.py` |
| `IntentProps`, `IntentProofs` | properties, fairness, refinement; theorems | – |
| `ToolCall` | `run_tool` with its time-out, local and shared breaker | `resilience.py`, `shared_breaker.py` |
| `Lists` | the elements of a list that belong to a set, in order | list comprehensions of `GA/` |
| `Catalog` | recall, filter, rerank, money, freight and duty as operators | `catalog_search.py`, `money.py`, `tariff_schedule.py` |
| `Orders` | create, cancel, query and search as calls of the two above | `order_usecases.py`, `repositories.py`, `sku.py` |
| `OrderProps` | its properties | – |
| `OrderProofs`, `StockProofs` | theorems: breakers, answers and cancellations; stock, types and searches | – |
| `ModelCall` | slots, attempts, fallback and cost of one call of the model | `llm.py`, `budget.py` |
| `Preferences` | remember, forget, select for injection | `json_file_stores.py`, `GA/domain/buyer/preference.py`, `preference_selector.py`, the two preference tools |
| `Turns` | the turn from the restored agent to the recorded conversation | `orchestrator.py`, `main_agent.py`, the cache, the detectors, the stores |
| `TurnProps`, `TurnProofs` | its properties and fairness; theorems | – |
| `MC...` | small instances | – |

`ErrandStatus` ← `ErrandDomain` ← `ErrandRow` ← `ErrandFunds`, `ErrandGrab` (EXTENDS);
`ErrandFundsProps` instantiates `EscrowContract` and `ErrandAggregate`, `ErrandGrabProps`
instantiates `ErrandAggregate`. `RemoteCall` ← `EventBus` ← `TaskStream` ← `IntentService` ←
`IntentProps`, which instantiates `TaskLifecycle`; `ToolCall`, `Catalog` ← `Orders` ←
`OrderProps`; `ModelCall`, `Preferences` ← `Turns` ← `TurnProps`; `Lists` ← `Catalog`, `Preferences`. Of the proofs,
`ErrandRowProofs` ← `ErrandFundsProofs`, `ErrandGrabProofs`; `DataLemmas` ← `ErrandFundsProofs`,
`StockProofs`, `TurnProofs`; `OrderProofs` ← `StockProofs`.

### What is one step (campus-dash)

MySQL runs at READ COMMITTED (`docker-compose.yaml`); an UPDATE locks the row it hits
until its transaction ends. A handler that is one transaction, and whose decisions are
repeated in its WHERE clauses, is therefore one action (`Publish`, `PickUp`, ...). Where
the code reads outside the transaction that writes, each part is an action, and what the
handler remembers is a variable:

* settle and arbitrate for the runner: `SettleRead` (in the name of any of `Settlers`: the
  controller passes whoever calls, the worker the system) / `ArbitrateRead`, then one of
  `PayoutRefused` (gate 1), `PayoutStranded` (gate 2, whose `return false` commits gate 1),
  `PayoutAborted` (an exception, rolled back) and `PayoutCommitted`;
* cancel and arbitrate for the publisher: read, compare-and-set of the row, read of the
  escrow row, refunding transaction;
* grab: the Lua script, the read of the row, the lock transaction, the registration of the
  timeout, the reply; compensation is a step of its own;
* timeout: read and decide, `ZRANGE`, `ZREM`, transfer or revert, give the place back.

`Abandon`, `GrabCrash` and `HandlerCrash` end a caller between any two of its steps, and
`GrabThrows` is an exception that reaches the catch block. `PayoutStranded` and the others
are not repaired in the model: it says what the code does.

Of the status log the row keeps who settled it (`settledBy`), since that is what
`Errand.settle` would check.

Abstractions: texts, timestamps, ids and campuses are left out; the commission rate is an
integer percentage with a floor (the code multiplies a long by a double, 0.05 by default,
and floors); the order of candidates is a free choice; a time window is a set `due` of
rounds whose window has elapsed, so a message may arrive at any later time and any number
of times. Definitions marked `wrong:` are mutations that test the properties and are
used by no action.

### What is one step (globex-agent)

A process of `globex-agent` is one event loop, so an action is what one coroutine does up to
its next await that can suspend it: one command to Redis or the database, one call of the
model, one event taken from a queue. Everything else of the process, and the other
processes, get in between. A command has an outcome `o`: `"ok"`, `"refused"` (it raised and
did nothing) or `"lost"` (it took effect and raised). A failed command, a crash, a stop and an
expired key are mishaps; `luck` counts how many may still happen, and every case of a run
says how many it starts with.

* Intents. `at[c]` is where the call `c` stands in the endpoint, `run[t]` where the handler of
  a task stands in `_handle_one`, `status[t]` its key in Redis, `pending` what XREADGROUP
  handed out and nobody acknowledged. `Take` is one turn of the loop of `consume`, with its
  COUNT per stream; `Excepted` is the branch that leaves a message pending or moves it to the
  dead letters. `wire` is the channel: the listener takes any event of it and may lose it.
* Orders. `at[c]` is the await a tool call stands at. A time-out (`asyncio.wait_for`) may end
  a guarded call at any of them, without undoing anything. The in-memory repositories never
  suspend, so there a use case is a single action. `copy` is the state of a shared breaker
  between its GET and its SET.
* Turns. An agent is named by the turn that built it; its context is a sequence of hints,
  questions and replies, and a snapshot is a context. What the model decides, which tools to
  call in which order, is the script of the turn, and which answer it gives is left out.
  Saving one over SQL is three steps: `Dump` takes the agent's context with no await since the
  end of the reply, `Merge` selects the row and writes nothing if it already has the dump,
  `Persist` commits; other turns get in at both awaits, so that an older dump may be committed
  last. `dump` is what is on its way, `kept` the sessions that have a row.
  `storage` says whether preferences, snapshots and rows are in SQL or in files. File access
  is synchronous: between its steps (read the list, empty the file by opening it, fill it)
  only other processes get in (`Runs`), and they may read the empty file or rewrite it too.

`excuse` is a history variable: it names why a promise may be broken (a key expired, two turns
overlapped, a save failed). A property that mentions an excuse says exactly when the code does
not keep the promise; without that event it is unconditional. Other history variables
(`heard`, `streak`, `under`, `hinted`, `judged`, `based`, `promised`, `dear`) only observe.

Abstractions: an order and its lines are one row; keys of breakers and cache entries do not
expire; where two floats tie, either order is possible; `touch_session` is merged with the read
of the first `append_turn`; the event log written beside the rows, and reads by subagents that
change nothing, are left out; dispatches the model issues in parallel come one after another in
the script; the breakers around a turn's tools are in `Orders` only; a file is filled at once and the disk never fails; every answered call costs the same
(`CallCost`); likes are newest first, as
with `preference_relevance_enabled` off (the default); the drift detector runs as if enabled,
since then its trace matters, and its verdict is a free choice. `claim_stale` has no caller and no
action: that this breaks the promise of `TaskLifecycle` is proved (`NeverRedelivered`) and told in section 6.

## 4. Runs

| run | instance | states | shows |
|---|---|---|---|
| `funds_race` | 1 errand of 3 cents at 50 %, 2 users, 3 callers, rounds 0..1, settled by either user or the system | 237 000 | all races about one errand: outcome, dispute, contract, aggregate but for who settles |
| `funds_pool` | 2 errands (3 cents and 1 cent), 2 callers, round 0, settled by the system | 392 000 | shared accounts: ledger, double entry, pool |
| `grab_safety` | 2 runners, 1 request each, 2 handlers, 1 fault, no expiry | 680 000 | places, records, messages, windows, aggregate |
| `grab_live` | 2 requests, 1 handler, 1 fault, keys expire | 318 000 | every lock ends; places conserved under expiry |
| `intents` | 2 calls, 1 worker with concurrency 1, 5 cases (a repeat while the first waits; a repeat over a socket; two asynchronous repeats; two questions of one session; two sessions) | 218 000 | answers, repeats, status, bus, concurrency, the safety half of at least once delivery, everything settles |
| `orders` | 4 calls in 2 processes, stock 2/1/1, threshold 2, 12 cases of calls and 144 searches | 112 000 | stock, table, answers, cancellations, breakers, search |
| `turns` | 3 turns, 2 sessions, 2 buyers, 2 workers with 1 slot, 18 cases, 4 of them over files | 428 000 | slots, requests and budget; cache; snapshots, rows and preferences; injection; harness; every turn ends |
| `funds_released`, `funds_orphaned`, `funds_payee`, `grab_reopen`, `grab_duplicate` | small | – | see section 6 |

Why the bounds are enough. Money races are between callers of one errand: three callers
allow one in each of settle, arbitrate and cancel, or two refunds against one payout.
What two errands share is the accounts, and two callers suffice to have both in flight; one
reward is so small that its commission is zero and the other's is not, so both branches of
the posting are taken. Rounds matter through "the same" and "an earlier" one, so two rounds
with one more after them (`RoundBound`, `MaxTransferRounds` = 1) are the smallest instance
where a stale message, a transfer and the revert at the limit all occur. One fault is
enough to leave any of the two stores behind; two handlers are enough to meet at every
command of `pollBest`. Callers are symmetric (`CallerSymmetry`): no action and no property names
one. Errands and users are not (their amounts and parts differ). Deadlock is not checked: an errand really ends.

The new runs start from cases, each the smallest in which one kind of interference occurs;
all interleavings of a case are explored, with as many mishaps as it says. What two calls of
`intents` share is a session, a question, or only the worker and the bus, and the cases cover
each; two messages and concurrency 1 suffice for both streams to be waiting at once, and
`LargeTurns` = 2 lets one session have a task in each. One worker is enough, since a stopped
and restarted worker meets its own old pending messages; that two workers keep the safety
properties is proved. In `orders` stock 2/1/1 makes two creates compete for both skus, the third
sku has another currency, and the clock (`MaxClock`) reaches past one cooling period; the
searches vary destination, number, cap (just below and above a price) and currency (one whose minor unit is far smaller than
the others', one that has no rate) over four products, one without a delivery, one above the allowance. `NumberBound` (4) bounds order
numbers and no case has creates enough to meet it. In `turns` a third turn is what
it takes to leave a worker and come back to it, or to meet what two overlapping ones left behind; a bucket of one entry and one like injected put
both limits within reach; `Window` 3 and `RepeatThreshold` 2 let the window slide, and
`CheckInterval` 2 lets a turn end between two checks. A budget of 3 calls is half gone after
two, while a subagent and a retry of the turn still go on. One case withdraws the last preference and
goes on; overlapping turns that share an agent (`Chatting`) commit their dumps in either order. The cases over files put two workers on
one buyer's file, on one session's, and two sessions of one worker side by side. Deadlock is not checked here either:
calls end.

Fairness (`grab_live`): weak fairness of time passing (`Elapse`) and of the steps of a
handler. The scan job (`TimeoutScanJob`, fixed delay) calls the handler for every row whose
window is over, whether or not the message arrived, and a handler that started finishes or
crashes, of which the run allows `FaultBound`. Nothing is assumed of runners or requests:
a runner who never confirms is the case the property is about.

Fairness (`intents`): weak fairness of what each call does next (`Proceeds`: the event loop runs
every coroutine that can go on, a wait ends at its deadline) and of what each worker does next
(`Works`: the loop and the handlers, and a worker that went down is started again by its
supervisor: `restart: unless-stopped` in `docker/docker-compose.yaml`). A command that is tried often enough succeeds,
since only `luck` of them fail. No event is promised to arrive. Fairness (`turns`): while some turn
that was started on a live worker can go on, one does (`\E t : Proceeds(t)`, one weak fairness: a
turn takes finitely many steps, so none is left behind for ever).

## 5. Proofs

Every theorem holds for every value of the constants that the assumptions declared with them
allow, not only for the instances of section 4. The assumptions say what the code's configuration
and data give: rewards are positive, a rate is between 0 and 100, system accounts are not users,
limits are natural numbers, the stores and marker values are distinct, what a case starts from has
the types the program would have given it (`CasesAssumption`, `TurnAssumption`,
`ServiceAssumption`). Sets are finite only where something is counted: `Tasks` for free handlers,
`Calls` for the stock they have taken, `Turns` for slots of the gateway.

### Money: `ErrandFundsProofs`

For any set of errands, users and callers, every reward, rate and opening balance:

| theorem | states |
|---|---|
| `TypesSafe` | `Spec => []TypeOK` (no balance below zero, among others) |
| `MoneySafe` | `Spec => []MoneyInv`, the inductive invariant |
| `OutcomeSafe` | `Spec => []OutcomeMatchesMoney` |
| `DisputeSafe` | `Spec => DisputeFreezesMoney` |
| `MethodsButSettler`, `ContractImplemented` | `Spec => MovesByMethodsButSettler`, `Spec => ImplementsContract` |
| `LedgerSafe`, `DoubleEntrySafe`, `PoolSafe` | `Spec => []LedgerExplainsBalances`, `[]EveryPostingBalanced`, `[]EscrowPoolBacked` |

`OutcomeMatchesMoney` is not inductive. A caller past the compare-and-set of a cancel will
post a refund; nothing in the four tables says that it may. `MoneyInv` adds what each caller
knows: whoever is about to refund does so for an errand that has ended and stays ended
(`RefundersDone`), whoever acts does so for a published errand (`CallersPublished`), and a row
is a draft exactly as long as it has neither publisher nor escrow row (`RowsPersist`). With
it the proof has one lemma per group of actions; a row move and a money move are shown to be
methods of the aggregate (`RowMoveIsMethod`, `MoneyIsMethod`). That the errand is an `ErrandAggregate`
is not provable, because it is false: a payout may carry any operator, and `Errand.settle` admits only
the publisher and the system. `MovesByMethodsButSettler` therefore allows, beside the methods, one
step (`SettledByStranger`): what that check would refuse. `MethodsButSettler` also needs that drafts still equal the initial record (`DraftsUntouched`), because publishing starts
from it, and `ContractImplemented` that an escrow posting exists exactly for published errands
(`FreezesPosted`).

The three properties of the books are sums over sets of postings. `BooksInv` states them of the
ledger as it is and of the errands whose money is held (`Held`); each step adds one event's postings
at once and moves the same amounts between the balances. That a sum changes by what is added is
induction over finite sets, which the provers cannot take from the library; `DataLemmas` proves it
from a minimal counterexample instead. The pool covers a payout because the errand being paid is
itself one of `Held` (`PoolCovers`).

### Grabbing: `ErrandGrabProofs`

For any set of users, requests and handlers, any number of places, rounds and faults, with or
without keys that expire: `GrabTypesSafe` (`TypeOK`), `SlotsSafe` (`SlotConservation`),
`PlacesSafe` (`PlaceAccounted`), `WinnersSafe` (`WinnerRecorded`), `TransfersSafe`
(`TransferredIsProtected`), `WindowsSafe` (`WindowRespected`), `GrabAggregateImplemented`
(`ImplementsAggregate`).

`GrabInv` says what the two stores do not: a request about to lock read the row as it is, or the
version it will compare is gone (`ReadsTrue`), which is what makes a stale read harmless; nobody
has won a round to come (`RoundsWon`), so that the next lock has no rival; a handler works on a
round whose window is over (`DueRemembered`); and the places count also while the key is gone
(`SlotsHeld`): the first compensation afterwards brings the key back as 1, one place less than the
runners who held one.

### Intents: `IntentProofs`

For every set of sessions, queries and workers, every finite set of calls
and tasks, any number of mishaps, any concurrency and any set of cases:

| theorem | states |
|---|---|
| `IntentTypesSafe` | `Spec => []TypeOK` |
| `SubscribersSafe` | `Spec => []SubscribersAccounted` |
| `AnswersSafe` | `Spec => []AnswerWithinSession` |
| `RepeatsSafe` | `Spec => []RepeatsRunOnce` |
| `FinishedSafe` | `Spec => []FinishedIsRecorded`, if `MaxDeliveries > 1` |
| `LifecycleImplemented` | `Spec => ImplementsLifecycle`, the safety half of at least once delivery |
| `NeverRedelivered` | no step is a `Redeliver`: the other half (`TaskLifecycle!FairSpec`) is never kept |
| `DeliverySafe`, `ConcurrencySafe` | `Spec => []DeliveredOnce`, `Spec => []ConcurrencyBound` |

The inductive invariant is `IInv`, five parts. `Places`: a task is at most at one position of one stream, one that is in a stream has no
handler yet, one that has a live handler is pending, and it has a verdict exactly from the
handler's answer on; that is what makes "answered at most once" inductive, because a message
read twice would have two places.
`KeyOwned`: while a call is between reserving the key and adding the message, and afterwards,
the key of its fingerprint names it, unless the fingerprint is excused; two tasks of one
fingerprint would need two owners. `ResultsTrue`: every result event, on the wire or in a queue,
is of a task with the verdict "reply" and carries that task's session; `AnswerWithinSession`
follows when a call takes an event. The other two are `TypeOK` and `SubscribersAccounted`. `FinishedIsRecorded` needs `Records` as well, which follows the status of a task through
the steps of its handler; with `MaxDeliveries` 1 the first failure would acknowledge a message
whose status was never written, and the theorem would be false. The refinement has a lemma
per group of actions (`LivesOnce`: each step is one of a task that is delivered once, or a stutter, from which both
`LifecycleImplemented` and `NeverRedelivered` follow); `PhaseValues` says which phase each place means. `DeliveredOnce` needs where an event still is (`Once`: on the wire once,
and if it comes from another process not in a queue yet), `ConcurrencyBound` that a task
without a handler takes no slot (`SlotsRead`). The proof needed the arms of `Phase` to be disjoint.

### Orders: `OrderProofs` and `StockProofs`

For any processes, skus, tools, products and cases, orders of any length: `CircuitsSafe`
(`OpensOnlyAfterFailures`), `ReturnsSafe` (`ReturnedOnce`), `AnswersSafe` (`AnswersMatchStore`),
`StockSafety` (`StockMatchesAnswers`), `OrderTypesSafe` (`TypeOK`), `SearchSafe` (`SearchHonest`).

* `BreakerInv`: what stands in a table was earned by failures since the last success, and so was
  the copy a call holds between its GET and its SET, counted at the moment it will be saved
  (`CopiesEarned`), unless a success came in between.
* `OrderInv`: the table is numbered without a gap and a create holds the next number, so a row with
  that number means another create held it too (`NumbersHeld`); a cancellation holds a copy of the
  row that differs from it only if the number was taken twice (`CancelsKept`); a row is by a create
  that may have stored it (`Authors`). "May" is the point: a time-out leaves the outcome open.
* `StockInv`: at every step of a call, not only between calls, the stock lacks the `Debt` of every
  call of the process. What the loops of deducting, rolling back and returning do to a shelf is
  proved by a least counterexample over the lines. `Inflated` names the one way stock appears from
  nowhere (section 6), and only the first negative line of an order can do it.

`SearchSafe` assumes of the catalogue that a price is in a currency with a rate, as `Money.of`
demands, and an id is taken once (`ProductsAssumption`), and of the vector index that it has one
point per product (`HitsAssumption`); a query may name any currency, destination, cap and number.
The state that matters is small (`SearchInv`: what each call asked, and that what it found is
honest); the work is in `ResultHonest`, about the operators:

* Money. `Near(m, n, slack)` says that m and n differ by half of slack at most. Each of price,
  freight and duty is rounded once into the unit asked for, and the duty is reckoned on a price
  already rounded into CNY (`LandedNear`). A price is exempt exactly when it is less than half a
  cent above the allowance; a tie, which rounding to even would exempt too, cannot be met with
  these rates and allowances (`NoTieAtAllowance`).
* Ranking. A product stands after as many as are better. Because of two products one is always
  better, these numbers are the places from 0 on, each taken once (`LinedUp`), so the keyword recall
  loses and repeats nothing (`KeywordsRanked`); a rerank permutes (`RerankedLine`).
* Filters. What passes and what is dropped share nothing (`FilteredKeeps`), so that a product is
  shown once and never both shown and reported. A product whose currency cannot be compared with
  the cap ends the search (`Unconvertible`), which is why every card shown was compared.

The proof corrected the property. It had the landed price within three minor units of the exact
sum, which is false for JPY: the duty is rounded in CNY first, and half a CNY cent is ten times
the unit it is shown in. TLC finds the violation as soon as a query may ask for JPY, so the
instance now has it.

### Turns: `TurnProofs`

For any sessions, buyers, workers, scripts, preferences, limits, budgets and number of mishaps:

| theorem | states | needs, on top of `TurnInv` |
|---|---|---|
| `TurnTypesSafe` | `Spec => []TypeOK` | free slots are the limit less those held |
| `GatewaySafe` | `Spec => []GatewayProtected`: slots, requests, and what the main model is charged if there is a fallback | requests counted by completed calls of a turn; what a budget has left (`RequestInv`, `BudgetInv`) |
| `CacheSafe` | `Spec => []CacheSound`: same buyer, same question; same preferences unless they changed during the reply or a read failed | `CacheInv`: an entry, and what a turn is about to write back, was replied to that buyer under that scope |
| `HarnessSafe` | `Spec => []HarnessSeesOwnTurn` | `HarnessInv`: between turns window and trace of a session are at rest; in a turn they are its own |
| `HintsSafe` | `Spec => []DislikesInjected`: of a turn that read preferences; one that read none keeps the old hint | `AgentInv`: the turns of a session in a process use the agent kept there; `ListsOnce`: no preference twice; `HintInv`: what is remembered as injected is the last hint of that agent |
| `MemorySafe` | `Spec => []MemoryKept` | `RowsInv`, `PromiseInv`, `SnapInv` |

`TurnInv` (`TurnInvSafe`) holds the types, and which place of a turn goes with which part of its
script, agent and answer. `RowsInv`: a turn has the rows its place says, and of the turns of a
session one at a time has read the last number. `PromiseInv`: one turn at a time rewrites the list
of a buyer, and it writes what the promise will be. `SnapInv`: what an agent knew to be in the snapshot, and
every dump of it on its way, are beginnings of its context, which only grows; so of two dumps of one
agent the longer has all the shorter has, and a commit either keeps every told reply or writes less
than is saved (`overtaken`). A reply of a turn that ended is in the snapshot or in what is being
written to it. Each says "unless" with the events that the property excuses, and the lemma of a step
shows that it either keeps the clause or adds the event.

### Only model-checked

* `LockEnds`, `EverythingSettles`, `TurnsEnd`: liveness under fairness, which the prover does not do.
* The five runs of section 6 show what does not hold; there is nothing to prove.

## 6. Where the code and its comments disagree

* `funds_released`: a settlement of an errand that is not DELIVERED marks the escrow RELEASED
  and commits, because `doSettle` returns false instead of rolling back. `settle` refuses only
  SETTLED errands. The reward then stays in the escrow account for good.
  `JdbcReconRepository` lists this state as one that must not exist.
* `funds_orphaned`: cancel commits the row, then refunds in another transaction. A stop in
  between leaves CANCELLED with HELD, and the retry is refused. Same list.
* `funds_payee`: a settlement asked for before delivery remembers the runner it read. If the
  errand is transferred and delivered by another before the transaction, `casSettle`, which
  compares no version, lets it through and the former runner is paid. The project's README
  says the reward goes to the runner after delivery.
* `grab_reopen`: after a transfer and a revert, the place given back is that of the
  transferee, who never took one, so the errand is PUBLISHED and Redis is full. The comment
  on `revertAndReturnSlot` promises both stores reopen. No fault is needed.
* `Errand.settle` (`Errand.java:198-206`) admits the publisher and the system only.
  `SettleErrandUseCase` never calls it: it moves the row by `casSettle`, which names no user, and
  `ErrandController.java:186-189` passes whoever is logged in. `MovesByMethodsButSettler` says that
  this is the only check of the aggregate that is not kept.
* `grab_duplicate`: the idempotency key is written before the database decides; after a crash
  a repeated request is answered success although nothing was won.

Met while modelling `globex-agent`; the properties name each as an excuse or are stated so that
they hold of the code, and no run claims a violation:

* `redis_stream_queue.py:114` speaks of the concurrency as the cap of what runs at once. COUNT
  of XREADGROUP is per stream, so a read can return twice as many (`ConcurrencyBound` is per
  stream for that reason).
* A message whose handler failed or whose worker died stays pending to be delivered again
  (`redis_stream_queue.py:8` and `:113-115`, `worker.py:14`, `server.py:225`), but only `claim_stale`
  reads pending messages again and nothing calls it: a stranded task stays stranded, the delivery
  count never exceeds 1, and the dead-letter branch is only reached with `max_deliveries` 1.
  `tests/test_phase4_queue.py:148` says a failed task waits there for its next delivery, and stops short
  of expecting one. `TaskLifecycle` states the
  promise whole, `Spec` and `FairSpec`; the code implements `Spec`, and `NeverRedelivered` proves that it
  never takes the step `FairSpec` asks for. Callers end by their time-out (`EverythingSettles`).
* `resilience.py:72` and `shared_breaker.py:72` speak of one probe after the cooling; every call
  that arrives in the half-open state is admitted. `shared_breaker.py:13` and `:36` speak of falling back
  to local state when Redis fails; the code admits the call. Refusals of the domain (an
  incomplete order) count as failures of the tool.
* `persistence/sql/repositories.py:12` and `:248` give an order the number of rows plus one, so two creates can take
  one number and the second replaces the first order.
* Stock is per process: a cancellation over REST gives the stock back in the API process, an
  order took it in a worker. A line of negative quantity is deducted before `OrderLine` refuses
  it, and the roll-back skips it, so it inflates the stock.
* The harness is called by three tools only, so the hard reject of `create_order` never fires.
* The scope of a cached reply is read again after the reply (`orchestrator.py:245`), so a
  preference changed in between puts the reply into the wrong bucket. A failed read of a bucket
  is taken for an empty one and the bucket is written over.
* What was injected last is kept by session (`orchestrator.py:431`), the agents by session too, the last
  one built winning (`main_agent.py:172`): after two overlapping turns that built one each, the
  agent that is kept may never have been told, and the next turn injects nothing because nothing
  changed. `DislikesInjected` excuses it; the proof of `HintsSafe` found it.
* When all preferences are withdrawn, or their read failed, nothing is injected
  (`orchestrator.py:419`) and the old hint stays in the context until compression, although the tool
  promises the withdrawn one has no further influence (`forget_preference_tool.py:24`).
  `DislikesInjected` speaks of the two kinds of turn apart (`ReadNothing`): one that read preferences
  has exactly them in its last hint, one that read none has the hint the process injected last.
  Case `Withdrawing` of run `turns` reaches the second.
* `budget.py:14` says that below 5 % the model is not called any more; `exhausted` has no caller
  and the other model is called without end. Without a fallback model the main one is.
* The file stores write by emptying the file (`json_file_stores.py:80`, `:97`). A worker that
  dies in between loses all preferences of the buyer or the snapshot of the session, and of two
  workers that change one list together one change is lost; `MemoryKept` holds without these
  two events, and needs that nothing else of the process runs meanwhile.
* `SessionRegistry` never reads the snapshot of a session it holds an agent for
  (`main_agent.py:172`): when a session returns to a worker, turns of the other worker are lost
  from the context, and saved over (`stale`). Of two turns that overlap and share an agent, the one
  that dumped first may commit last (`repositories.py:97`) and take the other's reply from the snapshot
  until the next save (`overtaken`). Row numbers are "last plus one" without a unique constraint
  (`repositories.py:126`).

## 7. Not modelled

Credit, status log (except who settled), audit, notifications, cache and eligibility checks of the modelled use
cases are left out of them, since no modelled guard reads them. The status CLOSED is never
written by the code. `balance_after` and database lock order are listed as uncovered
hazards. An errand has one place: with more, the code still locks the row at the first
grab. The other components are in `PROJECT.json` with the reason for each.

Of `globex-agent`: the path without a queue (the API process runs the turn itself, as `Turns`
has it), the read-only endpoints, the prompt the lower tiers of the token budget add, assertions on schemas and texts, the content filter, the audit of the output, context
compression (a function of the agent library), category knowledge, web search and the embedding
cache (no state that can go wrong), failures of the disk. Nothing of
`SuperBizAgent`.
