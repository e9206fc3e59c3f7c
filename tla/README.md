# Formal verification of the algorithmic trading platform

TLA+ modules that model the platform of this repository, TLC configurations that
check them on small instances, and TLAPS proofs of what matters most for every
instance. Definitions name the code they translate; `PROJECT.json` maps each to its
lines. Paths below are relative to the repository's root.

## 1. Inventory

All engines live in one asyncio process, put together by `TradingPlatformContainer`
and joined by Redis streams. Code between two `await`s is atomic; interleaving comes
from suspended coroutines, from thread pools (VaR, MetaTrader), and from the API's
requests running beside the stream consumers.

| Component | State | Operations | Talks to |
|---|---|---|---|
| Risk engine `risk_engine/service.py` | breaker state, trigger time, breach count, probe flag | `validate_signal`, `reset_circuit_breaker`, `circuit_breaker_state` | reads the portfolio, publishes breaches, called by strategy engine and API |
| Execution engine `execution_engine/service.py` | order records, submitted ids; per call the algorithm's locals | `submit_order`, `cancel_order`, MARKET/TWAP/VWAP, broker retries | called by container and API, calls the broker in threads, publishes fills |
| Event bus `infrastructure/event_bus/redis_event_bus.py` | streams, consumer groups and their pending lists (in Redis), handlers, consumer tasks | publish, consume loop, dispatch, dead-letter queue, start, stop | every engine |
| Portfolio engine `portfolio_engine/service.py` | positions, cash, realised P&L, daily fills, equity curve, peak | `on_fill`, `on_tick`, readers, position sizing | fills in, read by risk and container |
| Container `infrastructure/container.py` | the component instances, start order | start, stop, the four stream handlers | wires all of the above |
| Strategy engine `strategy_engine/service.py` | strategies, bar history, position tracker | register, deregister, `on_bar`, reset | bars in, risk gate, signals out |
| Notification service `notification/service.py` | bounded queue, worker, rate limiter, one breaker per channel | `alert`, worker loop, channel `send` | external services |
| Market data `market_data/service.py` | subscriptions, poller task, stream queues, bar cache | connect, subscribe, poll, stream, `get_bars`, `refresh` | MetaTrader, Binance |
| Indicator engine `indicator_engine/service.py` | indicator cache | `compute_all`, `get`, `invalidate` | none |
| Repositories `infrastructure/repositories/db_repositories.py` | one lazily created pool | `get_pool`, `close`, queries | TimescaleDB |
| Backtest engine `backtest_engine/service.py` | equity, open position, trades of a run | `run`, `walk_forward` | strategies |
| API, dashboard, ML engine, monitoring, settings, domain events | none that a protocol depends on | | |

### What is hard, and what correct means

* **Risk engine.** `validate_signal` suspends in the VaR computation and in the
  publication of a breach; the breaker is read and written around both. Correct: one
  probe per trip, no signal through an open breaker, a failed probe reopens it, the
  open-position limit holds up to the signals under way.
* **Execution engine.** Three levels of loops (slices, attempts, broker threads) with
  sleeps, failures that may or may not have traded, cancels and stops in between.
  Correct: an order id is executed once, the slices add up to the order, records tell
  the truth, fills reach the portfolio, excess trading is bounded.
* **Event bus.** Delivery, failure of handlers, acknowledgement and restart. Correct: a
  message is handled at most once and in order, and is not lost over a restart. (The
  promises of a dead-letter queue and of replay after a crash are not kept, section 10.)
* **Portfolio.** Correct: cash, cost basis and realised P&L balance after every fill,
  whichever way the position goes.
* **Container.** Correct: what the gate admitted is what gets traded; an exit closes a
  position and never reverses it.
* **Strategy engine.** Correct: the tracker agrees with what was emitted.
* **Notification.** Correct: alerts are delivered in order, overload drops no critical
  one, a failing channel is paused.
* **Market data.** Correct: the poller never stops, streams have no gaps, the cache
  loses no bar.
* **Indicators, repositories.** Correct: what has just been computed is not evicted; no
  pool is left behind.
* **API.** Correct: stop reaches everything that start has started; the gauge of
  WebSocket sessions counts them.

The hazards, each with its line and the properties that watch it, are in
`PROJECT.json`.

## 2. Plan

| Step | Modules | Checked | Proved |
|---|---|---|---|
| 1, done | `RiskGate`, `MCRiskGate`, `RiskGateProofs` | section 3 | type invariant, one probe per trip, only earlier signals pass while open, the bound on the overshoot |
| 2, done | `OrderExecution`, `MCOrderExecution`, `OrderExecutionProofs` | section 4 | types, single execution, records, slice accounting, bound on excess trading |
| 3, done | `AtMostOnceDelivery`, `EventBus`, `MCEventBus`, `EventBusProofs` | section 5 | types, no replay, acknowledgement after handling, what is skipped, the refinement |
| 4, done | `Portfolio`, `MCPortfolio`, `SumTheorems`, `PortfolioProofs` | section 6 | types, positions as sums of fills, daily P&L, the balance of every fill and of the whole books, equity, the cap on sizes |
| 5, done | `TradingPlatform`, `TradingPlatformProofs`: container, strategy, execution and books in several processes | section 7 | types, how far exits and entries may go, drift only from failures and by how much |
| 6, done | `StrategyEngine`, `Notification`, `TickStreaming`, `TradeStreaming`, `BarCache`, `IndicatorCache`, `ConnectionPool`, `ContainerLifecycle`, `WebSocketSessions` over `Lists`, put together by `MCServices`; `MarketDataProofs`, `ServicesProofs` | section 8 | every safety property of every service |

The backtest engine was planned and dropped: its loop cannot run (section 9). The order
follows the money: what may trade first, then what trades, what carries and books it,
the loop of all of them, and last the services around it.

No module that theorems are about declares a `RECURSIVE` operator: what is recursive in the
code is a recursive function or a fold. Proofs live in `<Module>Proofs`, those of the nine
services in `MarketDataProofs` and `ServicesProofs`, and facts about sums in `SumTheorems`.

Induction over numbers, finite sets and lists is proved with sets in place of predicates:
`Induction` and `SetInduction` (`SumTheorems`) say that a set which contains the first and,
with each element, the next contains all. What a sum over a finite set is, and how it changes
with one term, rests on them; so does what `Kept`, the comprehension that takes elements out
of a list, leaves in it.

Every safety property that a passing run checks is proved for all values of the constants;
liveness is not (section 9).

## 3. RiskGate: the pre-trade gate

`RiskGate.tla` models `RiskEngine.validate_signal`, `_handle_breach` and
`CircuitBreaker`.

| Code | Model |
|---|---|
| `_state`, `_half_open_probe_sent`, `_breach_count` | `state`, `probeSent`, `breachCount` |
| `_triggered_at` and the clock | `due`: the half-open delay has elapsed; set by `TimerElapses`, cleared by `Trip` and `Close` |
| the `state` property, which turns OPEN into HALF_OPEN when read | `CurrentState`, `CurrentProbeSent`; written back by every action that reads it |
| a running `validate_signal` | a slot of `call`: `"var"` suspended in the thread pool, `"publish"` suspended in the bus, `"approved"` returned True and not yet filled |
| entry to first suspension | `AdmitSignal`, `RefuseSignal` |
| VaR result, drawdown, approval | `FinishVaR`; an exception is `VaRRaises` |
| after `publish` | `FinishBreach`, which trips on a critical veto |
| portfolio figures | `positions`, `oversized` (at or above the size limit), `troubles` (figures beyond their limit) |
| the returns array read once per call | `snapshot`, and `history` for its length class (none, under 30, 30 or more) |

Abstractions. A figure is represented by whether it passes its limit; prices may move
it either way at any moment (`TroublesMove`, `SizesMove`). `Fill` and `Drop` are what
may happen to an admitted signal downstream; a fill reaches `on_fill` through the fills
stream. With the present `submit_order` (section 4) the engine itself never publishes
one, so `Fill` stands for fills that come from elsewhere on that stream and for the
repaired engine. Logging is left out; it is modelled at level INFO or above, since at
DEBUG the `extra={"message": ...}` of `risk_engine/service.py:530` raises inside the
logging library and rejects every signal. `probes`, `admittedAt` and `asProbe` only
serve the properties.

Run `risk_gate`: 2 calls, 3 symbols, limit 1, all four figures, no new signal after 2
trips; about a million states under symmetry of calls and symbols (safety only). Two
calls are what an overlap needs, two trips what a stale probe or an old verdict needs,
three symbols exceed the limit plus the overlap.

* `AtMostOneProbePerTrip`: whatever was suspended, whoever reads the state.
* `OnlyEarlierSignalsPassWhileOpen`: what returns True under an open breaker passed it
  before the trip.
* `OvershootBounded`: the limit on open positions is exceeded by at most the other
  signals under way.

Run `risk_gate_probe` finds a statement of the repository violated: see section 10.

Proved (`RiskGateProofs`), for any finite non-empty sets of calls and symbols, any
limit and bound: `TypeCorrect`, `InductiveInvariant`, `OneProbe`,
`EarlierSignalsOnly`, `OvershootIsBounded`. `AtMostOneProbePerTrip` is not inductive: a state with the
breaker HALF_OPEN, its probe flag clear and a probe already counted would break it in
one step. `ProbeAccounting` excludes that state by relating the flag to the count in
each breaker state, and `AdmissionOrder` orders every suspended call against the last
trip. `OvershootBounded` is inductive given the types: what is committed grows only when
a signal finds fewer positions than the limit, with at most one more symbol for each call
(`AdmitStaysBounded`); from there to the fill a symbol only moves from the call to the book
(`CallSettles`).

## 4. OrderExecution: orders, algorithms, retries

`OrderExecution.tla` models `ExecutionEngine.submit_order` and `cancel_order`, the
three algorithms and `MT5BrokerAdapter`'s retries.

| Code | Model |
|---|---|
| `_open_orders`, `_submitted_ids` | `records` |
| `OrderRecord.transition` | `ValidTransitions`, `StateAfterRejection` |
| a running `submit_order`, its algorithm and attempt | a slot of `call` |
| a job in the broker's thread pool | `"sending"`, ended by `BrokerFills` or `BrokerFails` |
| backoff, pause between children | `"backoff"`, `"pausing"`, ended by `Retry`, `NextChild` |
| `stop()` cancelling the consumer | `Abandon` |
| what the broker has really executed | `traded`, external |

A child's volume is a natural number: `Slice` is the TWAP slice, `VolumeBy` the
cumulative VWAP profile. The broker is modelled from how the code treats its answers:
DONE fills the child; anything else raises after executing any part of it. VWAP with
every hour of its profile past is a MARKET execution. Orders are risk-approved, as all
callers make them. The loop that publishes fills has a suspension per fill; it is
reached only where `transition(FILLED)` succeeds, which never happens, and is one step.

Run `orders`: 2 callers, 2 orders, 2 slices of 2 units, profile 1 then 3, 2 attempts.
Two slices are a first and a last one, two attempts a retry and an exhaustion, two
callers an overlap on one id.

* `NeverExecutedTwice`, `RecordTracksExecution`, `LastSliceCompletes`,
  `FillsWithinOrder`, `OvertradeBounded` (attained by the instance).
  `RecordTracksExecution` speaks of what `get_open_orders` lists (`OpenOrders`), not of
  the state an ended call is left in: it holds of a call that ends FILLED as well.
* `EveryCallEnds` under weak fairness of each call's `Progress`: timers fire and
  `order_send` returns with some answer. The code relies on the same: it puts no
  timeout around the thread.

Proved (`OrderExecutionProofs`), for any callers and orders, any slice and number of
slices, any growing VWAP profile and any number of attempts: `InductiveInvariant`,
`TypeCorrect`, `WithinOrder`, `Overtrade`, `ExecutedOnce`, `RecordTracks`, `LastSliceMakesUp`.
The only assumptions are the module's, that these figures are positive and the profile ends at the order's volume.
`IInv` strengthens the properties with what ties the variables together: `SingleRun`
(one call per order, its record open and its fills uncounted until it ends),
`SliceAccounting` (fills never exceed the children already done with) and
`TradedSoFar` (what is traded is bounded by the children done with, `MaxRetries` times
each, plus the attempts at the present one). `OvertradeBounded` alone says nothing of a
call half-way; `TradedSoFar` is what the next attempt adds to. The lemma `Attempt` does
the arithmetic, `Child` the schedule; `GoOnStep` and `EndStep` reduce every action to
the two ways a call can step. `RecordTracks` adds that a call which ends does so through the
refused transition to FILLED or an abandoned run (`EndIs`, `EndRejects`), `LastSliceMakesUp`
that fills and remainder add up to the order while TWAP runs. `EveryCallEnds` is
model-checked only.

## 5. EventBus: delivery

`EventBus.tla` models one stream of `RedisEventBus`; streams are independent, each with
its own loop. `docker/Dockerfile` runs the container in five processes (trading-core,
and four workers of the API), all under the group and consumer names of
`container.py:88-89`, so `Processes` compete for the entries.

| Code | Model |
|---|---|
| a stream and its trimming | `published`, `trimmed`; an entry is its position |
| the consumer group in Redis | `created`, `cursor` (last-delivered id), `pending` |
| `_consume_loop` and `_dispatch` in a process | `loop`: down, reading, sleeping, or busy with the batch `first..last` |
| XREADGROUP | `Serve`, whose reply arrives (`Read`) or not (`ReadReplyLost`), or `ReadFails` |
| the gather over the handlers, XACK | `Dispatch`, `HandlersEnd`; `Ack`, `AckFails` |
| `stop`, a crash | `Stop`, at any point; what Redis holds survives |

Redis is modelled from how the code uses it and is taken to survive (compose runs it
with `appendonly`). An XACK that reaches Redis from a dying process is `Ack` followed by
`Stop`. Entries that cannot be decoded are left out: `_serialise_event` writes none.

Run `bus`: 2 processes, 3 entries, batches of 2, stream length 2. A second batch follows
a full one, a lagging reader can lose an entry, and one process can take over from the
other at every point.

* `ImplementsAtMostOnce`: the bus implements `AtMostOnceDelivery`, an entry is handled
  at most once and in order within a process. The mapping takes `published` for the
  accepted entries; `runs` and `seen` count handler runs.
* `NoHistoryReplay`, `AcknowledgedAfterRun`, `SkipsOnlyWhenBehind`.
* `EveryEntryRead`, `ReadEntriesHandled` under fairness: a loop's own steps are weakly
  fair; handlers end (for signals this is `EveryCallEnds`); `Read` is strongly fair, as
  every five seconds of silence end in a socket timeout and only repeated asking gets an
  answer. Nothing is assumed of starts, stops and publications.

What the abstract specification leaves open is real: an entry whose loop dies, or whose
reply is lost, stays pending and is never asked for again, so delivery is at most once
and not, as `redis_event_bus.py:14` has it, replayed after a crash.

Proved (`EventBusProofs`), for any processes, entries, batch size and stream length:
`TypeCorrect`, `NoReplay`, `AcknowledgedWasRun`, `SkipsOnlyBehind`, `Refinement`. At-most-once is not
inductive: it needs that the part of a batch still to be dispatched is nobody else's,
pending, not yet run and newer than what its process has seen (`BatchesUntouched`),
which holds because a served batch lies beyond the cursor and everything run, seen or
batched lies before it. `SkipsOnlyBehind` needs that XTRIM leaves the last `MaxLen` entries
alone (`TrimmedBeyond`): the cursor jumps over what is trimmed and over nothing else.

## 6. Portfolio: the books

`Portfolio.tla` models `PortfolioEngine`, `Position` and `PositionSizer`. Both handlers
take the lock and never suspend inside it, so a fill or a tick is one step. The difficulty
lies in the order of fills, marks and midnights, and in the rounding.

| Code | Model |
|---|---|
| `_positions` | `positions`, a function on the symbols in the dict |
| `Position.apply_fill` | `ApplyFill`, `AverageAfter`, `Gain` |
| `on_fill`, `on_tick` | `Fill`, `Tick` |
| `get_current_drawdown`, the reader that writes | `ReadDrawdown` |
| `_daily_fills` filtered by the UTC day | `daily`, cleared by `Midnight` |
| `quantize("0.01")` | `Quantize`, to a multiple of `Cent` |
| the last digit of Decimal | the unit of every amount; average prices are rounded to it |
| `PositionSizer` | `RecommendedSize`, in shares of equity; its floats are exact ratios |

`filled`, `fills`, `slack`, `crossed`, `midnight` and `fresh` serve the properties. `slack`
is twice what rounding may have lost: a cent for a close, a digit for each unit whose
average price was recomputed. Fills have positive quantities and prices, as those of
executed orders do; `Position.realised_pnl` and `commission_paid` are displayed only and left out.

Run `portfolio`: 2 symbols, 2 prices, quantities 1 and 2, 3 fills, and any marks, drawdown
readings and midnights between them. Three fills are enough to open, add and close, to
close in part, and to reverse and close. The prices make both roundings inexact.

* `PositionsMatchFills`: a position is the sum of its fills, through deletion and
  reversal.
* `BooksBalance`: capital and gains less commissions are held as cash or as cost of open
  positions, until a fill crosses zero. `EveryFillBalances` says it fill by fill.
* `DailyMatchesCumulative`: the loss limit is judged on the day's fills and no others.
* `FreshEquityIsValueLessCost`: equity once all positions are marked after their fills.
  That it is the value of the account *less the cost* of its positions is what the code
  does, not what an account is worth (section 10).
* `SizeWithinCap`: sizes against `max_position_pct`.

Proved (`PortfolioProofs`), for any symbols, prices, quantities, commission, capital and
cent: `TypeCorrect`, `BooksTypeCorrect`, `PositionsAreFills`, `DailyIsToday`, `FillsBalance`,
`BalanceHolds`, `FreshlyMarked`, `EquityIsValueLessCost`, `SizeIsCapped`, `SizesWithinCap`.
They rest on `HalfUpNearest`, which bounds what rounding does to any
amount. The daily bound needs that the last midnight is in the past (`MidnightIsPast`).
`FillsBalance` follows from `FillDrift`, by cases on whether a fill opens, closes or adds.
`BalanceHolds` sums it up: `OpenCost` runs over the positions in the book, the proof over all
symbols with zero for those outside (`CostOfBook`), so that opening and deleting a position
are changes of one term (`SumChange`). `EquityIsValueLessCost` needs that a position ticked
since its last fill has the unrealised P&L of its last mark (`FreshMarks`, an invariant of
its own), each of which is rounded once (`SumNear`).

## 7. TradingPlatform: the loop the container wires

`TradingPlatform.tla` composes what the four handlers of `container.py` wire: strategy,
gate, sizing, execution and books, in `Processes` that share the consumer group and each
have a tracker and a book of their own.

| Code | Model |
|---|---|
| `_position_tracker` of the strategy | `tracker` |
| `on_bar_dict`, `StrategyEngine.on_bar`, gate and publication | `Bar`: the tracker moves, the signal is published or not |
| streams, batches of a consumer loop | `signals`, `fills`; `inbox`, `booking`, filled by `ReadSignals`, `ReadFills` |
| `on_signal_dict`, sizing | `HandleSignal`, `OrderFor`, `EntrySize`, `Equity` |
| `submit_order`, the attempts of `submit_market_order` | `Execute`, `ExecuteUnrecorded`, `AttemptFails`, `AttemptUnobserved` |
| `on_fill_dict`, `PortfolioEngine.on_fill` | `BookFill`; `DropFill` when it raises |
| a reply to XREADGROUP that is lost, entries trimmed by XADD MAXLEN | `LoseSignals`, `LoseFills`; `Added` |
| `start`, and `stop` or a crash | `Start`, `Down` |
| the broker's position | `broker`, external |

Abstractions. One strategy and one symbol at price 1 without commission; the sizer is
`Share` percent of the equity, rounded as `PositionSizer` rounds. Gate, engine and bus are
modules of their own and appear by their outcome. Orders are MARKET orders, the default of
`OrderEvent`: one child, which `submit_market_order` sends again in full after each failed
attempt; an attempt that is not answered DONE may have traded any part of it (`Parts`), and
the thread of a process that goes down ends its attempt unobserved. `stream:ticks` has no
handler, so nothing revalues a position and equity is the cash. Orders that the API submits
are left out. `decision` and `unclear` serve the properties: the last signal handled, what
it asked for, and whether it was *current*, handled while the book agreed with the broker
and nothing was under way; and whether an attempt at its order has failed.

At this commit no order's fill is published (section 4): `transition(FILLED)` raises, so a
trade ends as a step of `ExecuteUnrecorded` and `Execute` never happens. `Next` has both:
what is checked holds of the engine whichever of the two it takes. It is a weaker statement
of the engine as it is than it looks: its books never move, so a decision is current only
while the broker's position is zero, and `CurrentExitCloses` says little there. What the
engine does then is `platform_exit`'s: `SmoothSpec`, the engine as it is without failures.

Run `platform`: 2 processes, capital 2, entries of 75 %, 2 attempts, batches of 2, streams
cut to 1, 3 signals, 2 starts; 474 778 states. Two processes are what it takes to part book
and order, and two starts let one of them return with an empty book; three signals are an
entry, an exit and another; two attempts are a retry and an exhaustion. Shares of 75 % of 2
do not divide, so sizes are rounded; a stream of 1 is cut by the second entry that nobody
has read. No deadlock check: signals and starts are bounded.

* `CurrentExitCloses`: a current exit leaves nothing at the broker when its first attempt is
  answered, whichever side the position is on. When attempts fail it may trade again what it
  has traded, and so turn the position round, up to `MaxRetries` - 1 times over: the property
  says that it goes no further, and never adds to the position.
* `EntriesWithinCapital`: a current entry trades no more than the capital that the position
  leaves, and `MaxRetries` times that when attempts fail. A resent entry does exceed the
  capital. What is sold short counts as cash.
* `DriftOnlyFromFailures`: the books and the fills on their way account for the broker's
  position, through every distribution of the fills over the processes. They part from it
  only in the steps that the property lists (an attempt that fails or is left unobserved, a
  trade that is not recorded, a fill trimmed, lost in a reply or dropped by an exception, a
  process that goes down), each time by exactly what the step trades or forgets. Then the
  difference stays: nothing reconciles it.
* `StreamsDrain`: under weak fairness of the consumer loops and of the broker's answer,
  the streams are emptied or every process is down.

Run `platform_exit` checks `SmoothSpec`: an exit closes nothing (section 10).

That a decision be current is where the container is at risk once fills are published: the
two streams have a loop each, so an exit may be handled after its entry has traded and
before the fill is booked, in one process and without a failure.

Proved (`TradingPlatformProofs`), for any processes, capital, batch size, stream length,
share and number of attempts: `InductiveInvariant`, `TypeCorrect`, `ExitsClose`,
`WithinCapital`, from the assumptions of the module. No sum over streams is needed for them:
`OneOrder` says that as long as the last decision is current its order is the only one under
way, and that the broker has traded of it at most one part for each attempt;
`AsksWithinMeans` that it asks for the position or for no more than the capital left
(`EntryWithinEquity` does the rounding). Parts of a quantity add up (`PartsAdd`,
`PartsGrow`), and `OrderMade`, `OrderResent` and `OrderEnds` are the ways an order can step.
`DriftIsFromFailures` follows the fills through the sums over streams and batches: a batch
that is read or lost splits a sum (`TotalOfBatch`), a fill that is booked or dropped takes
its first term (`TotalOfTail`), and there is a lemma for each kind of step (`ExecuteDrift`,
`TradeDrift`, `LoseDrift`, `DropDrift`, `DownDrift`). `StreamsDrain` is liveness: TLC's.

## 8. The services around it

Nine modules that share no state. `MCServices` instantiates all and lets one of them,
`running`, move: the run's states are the sum of theirs, not the product, and one run
checks them. Constants of equal names are told apart there. No deadlock check: counters
are bounded, and lifecycles end.

| Module | Code | State and steps | Bounds |
|---|---|---|---|
| `StrategyEngine` | `StrategyEngine`, `BaseStrategy` | `Register`, `Deregister`, `Switch`, `ResetAll`; `on_bar` as `Bar`, then `Gate` and `Publish` per signal | 2 ids, 2 symbols, warm-up and history 2, 3 bars, 2 changes |
| `Notification` | `NotificationService`, channels, `TokenBucket`, `ChannelCircuitBreaker` | bounded queue, tasks, `Take`, `Acquire`, `Answer`, `BackoffOver`, `Start`, `Stop` | 2 workers, queue 2, threshold 2, bucket 1, 3 alerts, Telegram and e-mail |
| `TickStreaming` | `MT5DataProvider` | the poller walking over handler lists that are replaced under it, queues, `Disconnect` | 2 symbols, 3 streams, queue 1, ticks modulo 2 |
| `TradeStreaming` | `BinanceDataProvider` | a task per stream, loss and reconnection | 1 stream (they share `_connected` only), 3 trades |
| `BarCache` | `HistoricalDataManager` | `GetBars`, `Fetched`, `Refresh`; a provider with a limit and one without | 2 callers, look-back 4, cap 5, 6 bars |
| `IndicatorCache` | `IndicatorService` | `ComputeAll`, `ComputeSome` that fails half-way, `Invalidate` | 3 pairs of 2, cache 4, eviction 2 |
| `ConnectionPool` | `get_pool`, `close` | the check, the await, the assignment; creation or closing that raises | 2 callers, 3 pools |
| `ContainerLifecycle` | container `start`/`stop` under the API's `lifespan` | phases, components, loops, what fails | 4 handled streams |
| `WebSocketSessions` | both WebSocket handlers of `api/main.py` | stages of a handler, the client, the gauge | 2 market sessions, 1 portfolio session |

Run `services`: 220 075 states.

* `ToldIsTracked`: the tracker of a strategy agrees with what was published of it, except
  where a signal was refused, lost or reset; the variable `lost` names those cases.
* `EveryAlertTaken`: an accepted alert is taken unless every worker waits for SMTP, whatever
  the bucket and the back-off of the channels do.
* `NoGaps`: a stream gets consecutive ticks while others of its symbol come and go, and
  trades in order, once, and without gaps unless its connection was lost; `disconnect` ends
  the ticks and leaves no gap in those that came.
* `EveryStreamServed`: an open stream gets a tick unless the poller is stuck on the queue
  of one that has ended.
* `CacheInOrder`: unless a fetch and a refresh overlapped, cached bars never go back, and skip
  and lack at their end no more than the limit cuts off an answer. Consecutive they are not:
  the provider is asked for half as many bars again as the look-back, up to the one still
  forming (`Window`); Binance answers with the oldest of them up to its limit, so that the
  next refresh leaves a gap, and without the limit the forming bar comes again when it has
  closed.
* `FreshIndicatorsSurvive`, `NoLeakWithoutOverlap`, `StopReachesAll`; the `TypeOK` of
  `WebSocketSessions` equates the gauge with the handlers it counts, that of
  `StrategyEngine` lists a strategy once per symbol.

Run `backoff` (`BacksOffAfterFailures`, one worker, one channel, threshold 3; under the
fairness below) finds a statement of the repository violated: see section 10. A pool whose closing raises remains the current one, without
connections (`CloseFails`): later calls are given a closed pool, which no property speaks of.

Several of these hold only under a named condition (`lost`, `StuckOnClosed`, `overlapped`);
that condition is the hazard, and the property says there is no other.

Fairness. Notifications: tasks are scheduled and time fills the bucket (weak); a task
waiting for a token among others gets one (strong); Telegram and the webhook have timeouts
(weak); nothing is assumed of SMTP, which has none. Ticks: the poller and the readers are
scheduled (weak), and a symbol asked again and again has a tick some time (strong). The
other services have safety properties only.

Of the environment it is assumed that a provider is connected when it is not connected and
not after `disconnect`, that bars are handed to `refresh` in order, and that a provider's
answer is complete up to the window and the limit. The synthetic bars of MT5 are left out.
So are the pauses between Binance reconnections: they touch nothing but time.

The list comprehensions `[x for x in l if ...]` that take handlers, keys and components out of
lists are `Kept` of the module `Lists`.

Proved (`ServicesProofs`, the market data and strategies in `MarketDataProofs`), for constants
as the `ConstantsOK` of each module has them: `ServicesTyped`, `ToldIsWhatIsTracked`,
`StreamsHaveNoGaps`, `CacheStaysInOrder`, `PoolsAreNotLeaked`,
`ContainerStopsAll`, `NewIndicatorsSurvive`. `ServicesInv` conjoins one inductive invariant per
service, shown for its own `Init` and `Next`, and `EveryServiceSteps` says that a step of
`MCServices` is one of each of them or leaves it alone. What each invariant adds to the
properties:

* Strategies (`StrategyInv`): every signal under way says what the tracker says, or is lost.
* Notification (`AlertsInv`): only running tasks send, the tasks that run were started, and
  queued alerts are numbered in the order they were raised in.
* Ticks (`TicksInv`): the last tick of a stream is the one its symbol had last, or the one
  before if the stream stands in the rest of the list that the round walks over (`AboutTo`); a
  stream that the present list lacks has had none. A list names a stream once, and a round
  keeps a list of its own only for a symbol still to come (`RoundInv`). After `disconnect`
  nothing is polled, and what streams have had only gets shorter (`Ended`).
* Trades (`TradesInv`): what a stream has had rises towards the next trade of its connection,
  unbroken as long as the connection was never lost.
* Bars (`BarsInv`): without an overlap a fetch under way is for the last bar refreshed, and an
  answer of the provider follows on it (`ProvidedEnds`).
* Indicators: the keys of the cache are distinct, so those that a computation puts in stand
  behind all that were there, and a cache that overflows with them holds at least as many
  older ones as are evicted.
* Pool (`PoolInv`): without an overlap one caller at a time is at work (`OneAtWork`).
* Container (`ContainerInv`): which components a phase can have made, and those asked to stop
  are the last ones in reverse (`AskedInOrder`).
* Sessions: the gauge as the number of a set of handlers (`OnGauge`), which each step changes
  by the one handler that moves.

## 9. What is only model-checked, and what is not modelled

All liveness is TLC's, as the prover cannot reason about fairness and ENABLED:
`EveryCallEnds`, `EveryEntryRead`, `ReadEntriesHandled`, `StreamsDrain`, `EveryAlertTaken`,
`EveryStreamServed`. The properties that the code violates (section 10) are TLC's as well.
Every other property of a passing run is a theorem.

Not modelled:

* **Backtest engine.** Its loop cannot run with a strategy of this repository: `run` calls
  `strategy.on_bar(bar, indicator_svc)` and `on_bar` takes the bar alone;
  `OrderEvent(signal_id=...)` names a field the event does not have; `walk_forward` builds
  strategies without their id. What is left is statistics over floating-point arrays.
* **ML engine, indicator formulas, the rule of `EMACrossoverStrategy`, VaR figures.**
  Floating-point array code. What depends on their results chooses among the results.
* **Monitoring, dashboard, configuration, domain events.** No state a protocol depends on.
* **REST routes.** Their calls that change state (submit, cancel, reset) are inputs of
  `OrderExecution` and `RiskGate`; the rest reads.
* **SQL, MT5's synthetic bars, `DataNormalizer`, what an alert says.** Pure I/O and
  conversion. `StrategyRegistry` is a dict filled at import.

## 10. Disagreements met while modelling

* **A failed probe leaves the breaker half open for ever** (`risk_gate_probe`), against
  the diagram at `risk_engine/service.py:342`.
* **Executed orders are recorded REJECTED and their fills never published**
  (`orders_fills`), against `execution_engine/service.py:610`.
* **An order may be traded beyond its volume** (`orders_twice`), against
  `docs/05_EXECUTION_ENGINE.md:482` and `execution_engine/service.py:9`.
* **A reversal spoils the closed P&L** (`portfolio_flip`), against
  `portfolio_engine/service.py:252`.
* **An exit closes nothing** (`platform_exit`), against `container.py:299`: the books that
  it reads never see a fill.
* **A failing notification channel never backs off** (`backoff`), against
  `notification/service.py:21-22`: `is_open` forgets the failures before every send.

Seen and not given a run:

* *Risk.* `docs/04_RISK_ENGINE.md:285` promises that an open breaker blocks all new orders;
  a call suspended in the VaR computation when it trips still passes. Which calls these are
  is what `OnlyEarlierSignalsPassWhileOpen` says.
* *Event bus.* Entries pending at a crash are never replayed, against
  `redis_event_bus.py:14`; nothing ever writes `_retry_count`, so no message reaches the
  dead-letter queue of lines 282 and 321.
* *Execution.* `cancel_order` asks for PENDING_NEW to CANCELLED, which `transition`
  refuses, and so always answers False; `_submitted_ids` is in memory where
  `execution_engine/service.py:27` says Redis SETNX (no caller resubmits).
* *Portfolio.* Equity is cash plus unrealised P&L: it drops by the price of what is bought
  and grows by what is sold short, and the drawdown with it; a partial close counts its
  gain twice until the next tick, against "no double-counting" (line 11); `kelly_size`
  answers 0 for a negative edge and `recommended_size` then trades the volatility target
  (line 233); half a lot of rounding can exceed `max_position_pct` (line 192).
* *Strategies.* The default strategy is registered without its indicators and so never
  emits a signal, and its rule never answers FLAT; one strategy that raises takes the
  signals of all on that bar; the tracker of a symbol is shared by its timeframes.
* *Sizing.* A SHORT entry after a LONG one is sized from the reduced equity and leaves part
  of the long position open.
* *Notification.* SMTP without a timeout holds up the whole queue; a full
  queue drops CRITICAL alerts too; a second `start` leaves a task that `stop` does not know;
  the container never calls `start`; `on_risk_breach` calls a method `send` that does not
  exist.
* *Container.* `stream:ticks` has no handler although `container.py:261` promises one;
  `MarketDataService` does not exist; a failure in `start_consuming` leaves consumer loops
  running beside an API without a container; the bus stops last, where the lifespan says
  that it drains first.
* *API.* `portfolio_ws` never notices that its client has left; `get_message` without a
  timeout makes `market_data_ws` poll without a pause.
* *Market data.* Bars still forming are labelled closed (`market_data/service.py:88`, 482,
  against `core/domain/events.py:120`) and cached again when they have closed; the cached bars ignore `end` and a larger look-back; a stream that ends
  leaves its Binance task and connection until `disconnect`; readers wait for ever after
  `disconnect`, and a stream opened before `connect` is dead.
* *Indicators.* The cache evicts by first insertion, where line 321 says LRU.

## 11. Running

    tlc -workers 2 -config RiskGate.cfg MCRiskGate.tla
    tlc -workers 2 -config OrderExecution.cfg MCOrderExecution.tla
    tlc -workers 2 -config EventBus.cfg MCEventBus.tla
    tlc -workers 2 -config Portfolio.cfg MCPortfolio.tla
    tlc -workers 2 -config TradingPlatform.cfg TradingPlatform.tla
    tlc -workers 2 -config Services.cfg MCServices.tla
    for m in RiskGate OrderExecution EventBus Portfolio TradingPlatform \
             MarketData Services; do tlapm ${m}Proofs.tla; done
    tlapm SumTheorems.tla
