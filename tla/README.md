# ApexSol: specifications, model checking and proofs

TLA+ specifications of the trading pipeline in `src/src`, checked with TLC on small instances and,
for the results listed below, proved with TLAPS for every value of the constants. Paths below are
relative to `src/src` of the repository unless they say otherwise.

To check: `tlc -config <Run>.cfg <MC module>` for each run of `PROJECT.json`; to prove: `tlapm <Module>Proofs.tla`.

## 1. The system

ApexSol is one Python process on one asyncio loop. A task runs without interruption from one `await`
to the next; everything hard about it happens at the awaits. Nothing is persisted.

    stream -> reader -> queue -> dispatcher -> handle_raw_event -> token store, auditor, entry signal
                                                   |                     ^ background audits (RPC)
                                                   v                     |
                                          _dispatch_execution -> Executor.execute -> RPC node, Jito
                                                                     |
                                                 risk guards <- reports of every outcome

### Inventory

| Component | State it keeps | Operations | What makes it correct |
|---|---|---|---|
| Ingestion client, `ingestion/grpc_client.py` | bounded queue, processed signatures, slot counters, drop counters, backoff | read, push under an overflow policy, reconnect, dispatch (deduplicate, discard stale, call handlers), stop | bounded queue; every event accounted for; `task_done` balances `put`; order kept; no double handling between two cache clears; both tasks end after `stop` |
| Risk guards, `risk/guards.py` | heartbeat, health flags, consecutive failures, latency samples | heartbeat, report success or failure, `is_trade_allowed` | each outcome counted once; the breaker is overrun by a bounded number |
| Health checks, `observability/health.py` | none | `is_alive`, `is_ready` | not ready only for a reason |
| Executor, `execution/executor.py` | `active_executions`, cached blockhash | `execute` in paper, shadow and live mode, `get_recent_blockhash` | a mint is active exactly while it is executed, on every exit path; cache hits are fresh |
| Jito client, `execution/jito_client.py` | none that matters | `send_bundle`, `track_bundle` | a result is returned within the timeouts |
| Orchestrator, `app/orchestrator.py`, `main.py` | the tasks under way | `handle_raw_event`, `_run_bg_audit`, `_dispatch_execution`, the monitor | one execution of a mint at a time, begun only while flat; verdicts coherent |
| Token store, `state/token_store.py` | a state per mint, TTL | get, get_or_create, update, eviction loop | what an eviction forgets is not in use |
| Security auditor, `security/audit.py`, `authority.py`, `concentration.py` | verdict cache | in-memory check, background audit | every pending verdict settles; store and cache agree |
| Entry signal, `engine/signals.py` | none | `evaluate_entry`; `evaluate_exit` is never called | enters only when flat and allowed |
| Lifecycle, `app/lifecycle.py` | phase | `initiate_shutdown` | it ends and leaves nothing in flight |
| Strategy layer, `engine/strategy.py`, `entry_rules.py`, `sizing.py`, `exit_rules.py`, `scoring.py` | none, its caller keeps positions | `evaluate_opportunity`, `evaluate_exit`, scoring, sizing | exposure capped; a position is always closed in the end; a worse infrastructure never earns a larger position; entry and exit rules agree |
| Features and indicators, `engine/features.py`, `indicators.py`, `microstructure.py`, `state/windows.py` | per mint: last price, order flow, running sums, RSI averages; they outlive the token state | update with a trade, statistics | what is kept up step by step equals its definition over all the trades |
| Legacy listeners, `ingestion/stream.py`, `geyser.py` | a flag; a backoff in each loop | `start_streaming`, dispatch, `stop` | delays grow and start over; a stop is noticed |
| Parsers, transaction builder, fees, legacy clients, metrics, settings | little or none | see section 8 | see section 8 |

### What is hard here

* The handler creates an execution with `create_task` and marks the mint in position only when that
  task first runs; background audits, several for one mint, end in any order; the eviction loop runs between all of them.
* The guards are asked before the first await of `execute` and not again.
* A submission's response may be lost, and a bundle may land after its tracking gave up.
* The queue is full, the stream fails and redelivers, and `stop` cancels the dispatcher with an event in its hands.
* Fetches of the blockhash overlap and reply in any order.
* The shutdown knows one task, the monitor; the others run on while the clients are closed.
* Indicators and order flow are kept up trade by trade for ever, the counts beside them start over with an eviction.
* Gates, score and size look at the same infrastructure through different thresholds, clamps and roundings.

`PROJECT.json` lists each hazard at its line and the properties that cover it.

## 2. Modules

| Module | Models | Uses |
|---|---|---|
| `LossyFifo` | abstract: what a stream consumer gets, a subsequence in order | |
| `Ingestion` | `YellowstoneGRPCClient` | `LossyFifo` (refinement) |
| `RiskGuards` | `RiskGuards`, `is_ready` | |
| `Executor` | `Executor.execute`, `JitoClient`, with the guards | extends `RiskGuards` |
| `BlockhashCache` | `Executor.get_recent_blockhash` under overlapping callers | |
| `PositionLife` | abstract: flat, buying, held | |
| `Pipeline` | orchestrator, store, auditor, entry signal, shutdown, composed with the executor | instance of `Executor`, `PositionLife` (refinement) |
| `TradeFlow` | the trades of one mint: feature engine, O(1) indicators, batch order flow, token state | |
| `EntryRules` | entry gates and score, as functions of a token and the infrastructure | |
| `Strategy` | strategy layer and the positions of a caller that follows it | extends `EntryRules` |
| `Listener` | the WebSocket and the gRPC streamer | |
| `*Proofs` | theorems about `Ingestion`, `Executor`, `BlockhashCache`, `Pipeline`, `Strategy`, `TradeFlow`, `Listener` | each extends its module; `PipelineProofs` has an instance of `ExecutorProofs` |
| `NumberLemmas` | induction over numbers, powers of two, sums: what several of the proofs need | |
| `MC*` | instances for TLC | |

Operators with the word *mutant* in their comment are faulty variants of the definition below them. No specification uses
them; they show that the properties notice such a fault.

### How the models correspond to the code

*Ingestion.* `reader` and `dispatcher` are the places of the two tasks. `Receive` is one turn of
`_read_stream` with the `_push_to_queue` it calls: with the queue full `PushToFullQueue` replaces the
oldest, refuses the newest, or raises so that the reader goes to its backoff. The dispatcher's turn is
`DiscardDuplicate`, `DiscardStale`, or a call of the handlers (`CallHandlers`): with a coroutine among them `gather` is awaited, so `Handle` and
`HandlersDone` are two steps and `Stop` may fall between them; without one there is no await (`HandleAtOnce`); a plain handler that raises
takes the turn past `task_done` and the loop goes on (`HandlerRaises`, counted by the history variable `failed`). `unfinished` is the counter inside `asyncio.Queue`. The age
of an event is abstracted to `expired`: events arrive in slot order, so those too old are a prefix.
In this commit the stream is simulated inside `_read_stream` (`LiveStream = FALSE`) and cannot fail. The runs use `LiveStream = TRUE`,
a subscription that may redeliver a signature and may fail: the client's reconnect, deduplication and overflow code exists for it.

*Executor and RiskGuards.* A task is one call of `execute`; `at` is the await it is in. `Execute` is
everything up to the first await: double-send check, `is_trade_allowed` with its side effect on
`stream_healthy`, and the add. Each return goes through `Returns` (the `finally` block) or `TurnedAway`
(before the `try`; its failed result is told from an execution's by its message, hence "refused"). `Cancel` is the `CancelledError`, which `except Exception` does not catch. `bundle` is the
block engine: a failed submission may have been accepted, a bundle settles when it likes. Positions, latency samples and Jito
health are never changed by any line of `src` after construction (the monitor writes True over True), so they are constants.

*BlockhashCache.* A blockhash is named by the time it was made; `asked` is the local variable `now` that
`get_recent_blockhash` reads before the fetch and stores after it.

*Pipeline.* `HandleEvent` is `handle_raw_event` as one step: it contains awaits, of store methods whose
lock is never held across a suspension, so none of them suspends. `pending` is the execution that was
created and not started. The event loop is first in, first out, so it starts before the dispatcher handles the next event.
`AuditEnds` is the end of `_run_bg_audit` with each verdict the RPC's successes and failures allow. `Evict` needs a mint that nothing is working on:
the TTL is an hour and each refresh is at most a minute old while an execution or audit runs. The history variable `forgotten` keeps the
mints evicted while they were in position.

*TradeFlow.* `HandleTrade` is the part of `handle_raw_event` between parsing and the audit: the feature engine, then for a priced
trade the indicators, then the token state. `Evict` forgets that state; the dictionaries of the engine and of the indicators have no eviction.
Prices are integers and the arithmetic exact. The RSI is kept as its two averages, both multiplied by the same power of the period, and
compared by cross-multiplication; the code's `min` and `max` with 100 and 0 never bind. `CalculateOfi` is the
batch order flow of `MicrostructureEngine`, as a function of all the trades so far: its window is taken of a buffer of the latest 1000
trades and is assumed to be no longer than that.

*EntryRules and Strategy.* The layer is stateless, so the model adds the caller its documentation describes
(`strategy.py`, "all state lives in StrategyInput and StrategyContext, which are injected by the caller"): `Enter` opens what
`evaluate_opportunity` approved, `Close` and `Keep` follow `evaluate_exit`. `Enters` is the whole decision: `Passes` (the gates in
`entry_rules.py`), the score against its minimum, `Approved` (`sizing.py`). Ratios are in hundredths, points in hundredths of a point, sizes in
microsol; a term of the score is cut where the code rounds the sum, which keeps it monotone. Infrastructure values, tokens, returns and ages are
inputs. The orchestrator does not call this layer in this commit.

*Listener.* A loop is one call of `start_streaming`; `place` is the await it is in. `NextTurn` is the test of `running` by the outer loop and
what follows up to the next await. The two streamers differ in `Attempt` (a WebSocket connection is awaited, a gRPC call is only made),
in `Dispatches` (the gRPC loop looks at `running` before a dispatch) and in `StreamEnds` (a gRPC stream may end without an exception). A loop that leaves its inner loop without an exception awaits the exit of `async with`
("closing") and only then tests `running` again (`CloseEnds`), so a start meanwhile revives it. After an exception the connection is closed without
any test of `running` before the sleep, so both are one wait.
The gRPC streamer refuses to start while its protobuf stubs are missing, as they are in this commit; the run assumes they were generated (`ProtoAvailable`).

## 3. Runs

| Run | Question | Bounds, and why they are enough |
|---|---|---|
| `Ingestion` | queue, counters and order under each policy; raising handlers, reconnects, progress, stop | queue of 2, 4 events, cache of 1, two reconnects: overflow, redelivery before and after a cache clear, a stale event behind a fresh one, a doubled and capped delay, and `stop` with an event in hand all occur |
| `Executions` | `execute` in every mode, safety and termination | 3 tasks on 2 mints, breaker at 1: tasks collide on a mint, one execution is in flight as the other trips the breaker, and then either adds a failure or resets it, so that the third is turned away or admitted; larger thresholds are covered by the theorems |
| `BlockhashHits` | freshness of cache hits | 2 callers, limit 2, clock to 4: a fetch can span the limit while the other one writes |
| `Pipeline` | the composition, its verdicts, positions and rebuys; progress and shutdown | 2 executions, 2 mints, 2 background audits at a time (of one mint or of both), breaker at 1, live mode: audits of a mint end in either order, around an eviction and an execution of it, and the second execution may be of the mint the first one bought |
| `TradeFlow` | indicators and order flow against their definitions | 6 trades out of 4 (buys and a sale at three prices, one without a price), RSI over 3, bands over 2, batch window 4: windows fill and slide, the RSI is smoothed twice, evictions anywhere |
| `Listeners` | delays, stop and restart of both streamers | 2 loops, delay capped at 6, up to 5 failures told apart: the delay doubles, is capped and starts over; one loop is stopped while the other is being started, and revived while it closes |
| `StrategySafety` | exposure, positions, overdue positions, effect of the infrastructure | 3 mints for 2 positions, caps chosen so that the last entry is trimmed; values on both sides of each threshold, a strong, a marginal and an extended token and one for each of seven gates that refuses |

Expected violations, each a disagreement of the code with a statement of the repository (section 6):
`PipelineDoubleBuy`, `PipelinePositionLimit`, `PipelineDenied`, `PipelineShutdown`, `StrategyChurn`.

Types are proved (section 5) and not checked again by the runs.

Deadlock checking is off in all runs: each bounded system may stop (the stream produces no more, all executions are done, all signals quiet, all loops have ended).

## 4. Fairness

Weak fairness only, of steps the event loop or a timeout guarantees:

* `Reconnect`, `ReaderEnds`, `Dispatch`: a backoff sleep ends, ready tasks run, handlers return or raise. Nothing makes the stream produce, fail, or time pass.
* `Resume(t)` and `Cancel(t)` for each execution: its awaits are a sleep of 0.5 s, RPC calls with the client's timeout, 3 s of submission, and 15 s of tracking. A cancellation is delivered at the await.
* `LoopStep(l)` of a listener: connecting and closing have a time limit, a send, the handlers and a sleep end. Messages and the end of a connection are the server's.
* `StartExecution`, `AuditEnds(m)`, `CleanUp \/ Exit`: created tasks are run, each RPC of an audit ends, the shutdown's awaits end.

No fairness is assumed of the block engine (`Settle`), of events, of evictions or of the heartbeat.

## 5. Proofs

All theorems are for arbitrary constants satisfying the named assumptions of the modules (positive
queue size, breaker threshold and periods, finitely many mints, `NoMint` not a mint, thresholds that are numbers; TLC evaluates them in every run).

Induction over numbers is over a *set* of them: the library's induction theorems take an operator as a parameter, which cannot be
instantiated here, while `Induction` in `NumberLemmas` says that a set with 0 and every successor has all numbers (else its complement
would have a smallest member). From it come the existence and the uniqueness of a recursive function (`Recursion`, `IteratesAgree`), that a sum of
`SumFunctionOnSet` may take any element first (`SumTakesAny`; the definition takes the one `CHOOSE` picks), and from that the sums of
sequences that grow, slide and shift. `2 ^ n` has no definition the provers know, but it counts the subsets of `1 .. n`, so it doubles (`PowerDoubles`).

*IngestionProofs.* `Counted` (types, bound, event balance, `task_done` balance) is inductive as a whole: that the
unfinished count never goes below zero rests on the balance, which rests on the types. `Ordered` adds that what waits is ascending
and ahead of all that was handled; with it each step of `Ingestion` maps to a step or stutter of `LossyFifo` (`ImplementsLossyFifo`). `Remembered`
relates the signature cache to what was handled since its last clear, which gives `NothingHandledTwice`. `OverflowCostsOldest` and
`AdmittedAreDispatched` are about the overflow policies. `BackoffOnlyGrows` is the backoff as a power of two of the reconnects so far.

*ExecutorProofs.* The set `active_executions` alone is not inductive: that `discard` releases no other execution's mint rests on
there being one execution per mint, which rests on the set. `Exclusive` is both. `FlightStep` abstracts every step to three kinds
(nobody joins or leaves, one joins with an inactive mint, one leaves and releases its own), and the
invariant is proved of these three; `BreakerStep` does the same for the failure counter and gives `OverrunStaysBounded` and `BreakerStaysTripped`.
`Reporting` ties each place to the mode that has it and to having no result yet: from this `OutcomesReportedOnce`, that every ended execution has
reported exactly once, whatever ended it, and that nothing else has reported.

*BlockhashProofs.* `Ages`: a reply's hash is no older than the time it was asked for, so the time kept in the
cache is never later than the hash it is kept with, whatever order the replies come in.

*PipelineProofs.* The actions of `Pipeline` contain those of its executor, so (`BehavesAsExecutor`, a formality) the theorems of `ExecutorProofs` hold in
the composition, a shutdown in the middle included (`ExecutorPromisesKept`, `BreakerStaysTripped`), and carry the proofs about positions. As in
`ExecutorProofs` the steps are first reduced to kinds. For the verdicts (`VerdictStep`) there are three: nothing but a forgotten state, a verdict in memory, the end of an audit.
`Audited` is inductive; `VerdictsFinal` needs its part `DeniedAtOnce`, that where the check in memory fails no mint was ever allowed: a later event
would turn that verdict around. For the positions (`EntryStep`) there are five: no change, a signal, a begin, an end, a forgotten mint. `Entered` is inductive:
`InPositionWhileExecuting` and `CreatedOnlyWhenFlat` are not by themselves, since the execution that begins is of a mint that was flat and not executing when it was created
and still is, and is stored, which is what makes it marked from its first step on. `PositionsFollowLife` maps each of the five kinds to a step or stutter of `PositionLife`. `RebuysWereForgotten` rests on `Remembered`: a mint that was bought
is in position or was forgotten, whatever became of later executions of it; that one is begun only for a flat mint (`CreatedOnlyWhenFlat`) does the rest.

*StrategyProofs.* `Within` is the caps, with the arithmetic of the multipliers reduced to two facts: the raw size is a natural
number and an approved size lies between the minimum and every cap. `Overdue`: a position that survived an evaluation past
its time stop has taken its partial profit, so the partial target cannot spare it again. `WorseInfraShrinks` is a chain of monotonicity lemmas, one for
each layer the infrastructure passes through: the terms of the score, the score, the three load factors, their product, the score's multiplier, the raw size, the caps;
the gates only open as the infrastructure gets better, so what is offered (0 if refused) is monotone too.

*TradeFlowProofs.* `RsiShown`: while the token state shows an RSI, it is that of the indicator, its period is full, and the state's price is the
price the indicator saw last. Only then do the two values of a step come from one smoothing, whose ratio moves with the price (`AveragesOrdered`).
An eviction breaks the link between state and indicator and makes the state show none.
The theorems that compare what is kept step by step with a definition over all the trades have an invariant each, with the auxiliary
quantities in it. `FlowTracked`: the order flow is the sum of the flows of all trades, each against the price before it. `BandsTracked`: the window is the last
priced trades, the sums are of it and of its squares; the lemmas on `Last` say how it slides. `RsiTracked`: both averages are weighted sums of the moves, and the
scale kept beside them is the weight the next move will have; `WeightsStep` is how a further move changes all the weights before it.

*ListenerProofs.* `AtMostOneLate` is not inductive: `LateInv` adds that a loop which has dispatched a message after the stop is in the handlers, in its
backoff or at its end, from where it cannot come to a message without a restart. `WaitsDouble`, of the WebSocket loop, needs the delay at every
place of the loop: while it waits, the failure it waits for is counted already, elsewhere not yet.

### Only model-checked

Liveness under fairness, which is out of the prover's reach: `StopEndsTasks`, `WaitingEventLeaves`, `ReaderRecovers`, `ExecutionsEnd` (alone and in the pipeline), `AuditsSettle`,
`ShutdownCompletes`, `StopNoticed`. Every invariant, action property and refinement of the passing runs is also a theorem. The violation runs refute
what they check and need no proof.

## 6. Findings

The violation runs, with the text they contradict, are in `PROJECT.json`:

1. A bundle given up as failed or timed out may land; the mint is taken as flat and bought again (`app/orchestrator.py:211`).
2. The limit of open positions refuses nothing: it is compared with a counter that stays 0 (`risk/guards.py:79`), while `README.md:55` of the repository lists open position counts among what the guards watch.
3. With the default settings the in-memory authority check denies every mint (`security/audit.py:39`).
4. The shutdown stops no execution from submitting (`app/orchestrator.py:80`, `app/lifecycle.py:23`).
5. The infrastructure exit is stricter than the entry gate; its docstring calls it more lenient (`engine/exit_rules.py:234`).

Further differences met while modelling, each visible in one definition of the models, without a run of their own:

* `start(from_slot)` logs that it resumes but sets `last_processed_slot` only, which the reader never looks at (`ingestion/grpc_client.py:46`).
* The breaker is read once, before the wait for the blockhash, so a bundle can be submitted after it tripped (`execution/executor.py:67`); `OverrunBounded` says by how many.
* A plain handler that raises skips `task_done` and leaves the coroutines made before it unawaited; a `join()` of the queue would hang (`ingestion/grpc_client.py:179`). `TaskDoneOncePerEvent` counts these events.
* Of several audits of a mint the last to end decides, so a DENY can become an ALLOW (`security/audit.py:99`), and an execution does not look at the verdict again after the signal (`app/orchestrator.py:200`). `VerdictFinal` says which audits can still do that.
* An eviction forgets an open position, after which the mint can be bought again (`state/token_store.py:80`); `RebuyNeedsEviction` says that nothing else leads to that.
* `is_ready` reads neither the breaker nor the heartbeat (`observability/health.py:24`): the process is ready while its stream is down, until a trade is asked for.
* When the fetch fails a cached blockhash of any age is returned (`execution/executor.py:56`).
* The order flow is documented as computed "by leveraging stateful sliding windows" (`engine/features.py:11`) and is the sum over all trades since the process started; it survives the eviction of its mint (`engine/features.py:37`).
* A trade of no tokens sets the feature engine's last price to 0, so the next trade counts as one at a risen price, buy or sale (`engine/features.py:48`).
* A market without any fall has RSI 100, a flat one included, which `evaluate_exit` would take as overbought (`engine/indicators.py:79`).
* The trades at the highest price are in no bin of the volume profile, and since its edges are floats others may be in none: of ten bins from 0 to 1, bin 5 ends at 0.6 and bin 6 starts at 0.6000000000000001 (`engine/microstructure.py:87`).
* The gRPC listener's "Reset backoff on successful connection" happens before any answer, so that an unreachable server is tried every second (`ingestion/geyser.py:86`). `RetryDelays` is therefore about the WebSocket loop only.
* `start_streaming` called while a stopped loop closes its connection or sleeps revives that loop beside its own: two loops then dispatch every message (`ingestion/stream.py:31`, `ingestion/geyser.py:46`).
* The background audit skips the concentration check when its data cannot be fetched (`security/audit.py:91`).
* `exit_rules.py` lists the partial target before the final one; the code checks the final one first (line 273).

## 7. Plan

Done, in this order: ingestion and its abstract channel; guards and executor; blockhash cache; pipeline and the
life of a position; strategy layer; trades and indicators; gates and score; legacy listeners; proofs of all safety properties.

To do:

1. Safety lemmas towards the liveness properties: for each place a task can be in, the step out of it is possible, and a measure falls with it.
2. The inside of a background audit: the retries of the mint account and the concentration of its holders.
3. Ingestion composed with the pipeline: dispatcher and handler as one system.

## 8. Not modelled

* Pump.fun parser, `parsers.py` and models: decoding without state, field by field; a model would repeat the statements. The pipeline takes the result as an input.
* `ingestion/subscription.py`: builds a dictionary that the simulated stream does not read.
* Transaction builder, sandwich helper: bytes; the executor takes from them only that they may raise.
* Fees and position rules: stateless, a percentile with a fallback and a few comparisons, used by no line of `src`.
* Cadence and trade imbalance of the feature engine: returned, read by nothing. `SlidingPriceWindow`: used by nothing.
* `calculate_vpvr`: its bin edges are floats and what a bin holds depends on their rounding, which integers would hide; nothing calls it.
* The upper and lower Bollinger bands and all rounding of floating point: functions of the sums that `TradeFlow` keeps exactly.
* `is_alive`: a reading of the heartbeat at 30 s; no model tells it from 10 s.
* Gatekeeper, rugcheck, old Jito client: called by nothing, a sequence of independent HTTP calls each.
* Metrics, logging, settings: output and environment variables; the settings the models depend on are constants.
* `TokenStore.delete`, `signals.evaluate_exit`, `record_latency`, the tip accounts: never called.
