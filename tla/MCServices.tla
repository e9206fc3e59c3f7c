----------------------------- MODULE MCServices -----------------------------
(***************************************************************************)
(* The services around the trading path, each of which keeps its state to  *)
(* itself: a behaviour of this module is one of a single service, the one  *)
(* that running names from the start, with the others in their initial     *)
(* states.                                                                 *)
(***************************************************************************)
EXTENDS Naturals, Sequences

CONSTANTS
    StrategyIds, StrategySymbols, Timeframes, MinBars, HistoryLength, MaxDispatched, MaxChanges,
    Workers, Levels, Configured, AlertQueue, Threshold, Capacity, MaxAlerts,
    Symbols, Streams, TickQueue, Wrap,
    TradeStreams, MaxTrades,
    Callers, Lookback, Cap, MaxBars,
    Pairs, Names, MaxCache, Evicted,
    MaxPools,
    HandledStreams,
    Market, Portfolio

VARIABLES
    running,
    strategies, index, raw, approved, bars, changes, told, lost,
    channels, queue, workers, started, current, sends, tokens, failures, backoff, raised, streak,
    connected, executor, known, handlers, poller, todo, list, position,
    queues, open, opened, tick, lastRead,
    online, loops, trades, nextTrade, inboxes, reading, lastTrade, interrupted, cancelled,
    limited, closed, refreshed, cache, fetch, overlapped,
    indicators, failed,
    pool, doing, pools, openPools, twice,
    phase, components, consuming, linked, asked, published,
    container, stage, client, gauge, stale

\* The first stream is for one symbol, the others for another.
SymbolOf == [r \in Streams |->
    IF r = CHOOSE q \in Streams : TRUE THEN CHOOSE s \in Symbols : TRUE
    ELSE CHOOSE s \in Symbols : s # CHOOSE t \in Symbols : TRUE]

S == INSTANCE StrategyEngine WITH
        Ids <- StrategyIds, Symbols <- StrategySymbols, MaxBars <- MaxDispatched
N == INSTANCE Notification WITH QueueSize <- AlertQueue
T == INSTANCE TickStreaming WITH QueueSize <- TickQueue
R == INSTANCE TradeStreaming WITH
        Streams <- TradeStreams, QueueSize <- TickQueue, connected <- online,
        queues <- inboxes, open <- reading, lastRead <- lastTrade
B == INSTANCE BarCache
I == INSTANCE IndicatorCache WITH cache <- indicators
P == INSTANCE ConnectionPool WITH opened <- pools, open <- openPools, overlapped <- twice
C == INSTANCE ContainerLifecycle WITH connected <- linked
W == INSTANCE WebSocketSessions

ASSUME ServicesAssumption ==
    /\ S!ConstantsOK /\ N!ConstantsOK /\ T!ConstantsOK /\ R!ConstantsOK /\ B!ConstantsOK
    /\ I!ConstantsOK /\ P!ConstantsOK /\ C!ConstantsOK /\ W!ConstantsOK

Services == {"strategy", "notification", "ticks", "trades", "bars", "indicators", "pool",
             "container", "sessions"}

strategyVars == <<strategies, index, raw, approved, bars, changes, told, lost>>
alertVars == <<channels, queue, workers, started, current, sends, tokens, failures, backoff, raised, streak>>
tickVars == <<connected, executor, known, handlers, poller, todo, list, position,
                queues, open, opened, tick, lastRead>>
tradeVars == <<online, loops, trades, nextTrade, inboxes, reading, lastTrade,
                 interrupted, cancelled>>
barVars == <<limited, closed, refreshed, cache, fetch, overlapped>>
indicatorVars == <<indicators, failed>>
poolVars == <<pool, doing, pools, openPools, twice>>
containerVars == <<phase, components, consuming, linked, asked, published>>
sessionVars == <<container, stage, client, gauge, stale>>

vars == <<running, strategyVars, alertVars, tickVars, tradeVars, barVars, indicatorVars,
          poolVars, containerVars, sessionVars>>

Init ==
    /\ running \in Services
    /\ S!Init /\ N!Init /\ T!Init /\ R!Init /\ B!Init /\ I!Init /\ P!Init /\ C!Init /\ W!Init
    /\ running # "sessions" => container

\* A step of the service that runs; the others stay as they are.
Next ==
    \/ running = "strategy" /\ S!Next
       /\ UNCHANGED <<running, alertVars, tickVars, tradeVars, barVars, indicatorVars, poolVars,
                       containerVars, sessionVars>>
    \/ running = "notification" /\ N!Next
       /\ UNCHANGED <<running, strategyVars, tickVars, tradeVars, barVars, indicatorVars,
                       poolVars, containerVars, sessionVars>>
    \/ running = "ticks" /\ T!Next
       /\ UNCHANGED <<running, strategyVars, alertVars, tradeVars, barVars, indicatorVars,
                       poolVars, containerVars, sessionVars>>
    \/ running = "trades" /\ R!Next
       /\ UNCHANGED <<running, strategyVars, alertVars, tickVars, barVars, indicatorVars,
                       poolVars, containerVars, sessionVars>>
    \/ running = "bars" /\ B!Next
       /\ UNCHANGED <<running, strategyVars, alertVars, tickVars, tradeVars, indicatorVars,
                       poolVars, containerVars, sessionVars>>
    \/ running = "indicators" /\ I!Next
       /\ UNCHANGED <<running, strategyVars, alertVars, tickVars, tradeVars, barVars, poolVars,
                       containerVars, sessionVars>>
    \/ running = "pool" /\ P!Next
       /\ UNCHANGED <<running, strategyVars, alertVars, tickVars, tradeVars, barVars,
                       indicatorVars, containerVars, sessionVars>>
    \/ running = "container" /\ C!Next
       /\ UNCHANGED <<running, strategyVars, alertVars, tickVars, tradeVars, barVars,
                       indicatorVars, poolVars, sessionVars>>
    \/ running = "sessions" /\ W!Next
       /\ UNCHANGED <<running, strategyVars, alertVars, tickVars, tradeVars, barVars,
                       indicatorVars, poolVars, containerVars>>

\* No step with a fairness condition is enabled in the initial state of its
\* service, so the conditions say nothing of a service that is not running.
Spec == Init /\ [][Next]_vars /\ N!Fairness /\ T!Fairness
-----------------------------------------------------------------------------
(* The properties of the services under their own names.                     *)

\* Every variable of every service stays in its domain, every strategy is
\* listed once under each of its symbols, and the WebSocket gauge counts the
\* sessions (see TypeOK of each module).
TypeOK ==
    /\ running = "strategy" => S!TypeOK
    /\ running = "notification" => N!TypeOK
    /\ running = "ticks" => T!TypeOK
    /\ running = "trades" => R!TypeOK
    /\ running = "bars" => B!TypeOK
    /\ running = "indicators" => I!TypeOK
    /\ running = "pool" => P!TypeOK
    /\ running = "container" => C!TypeOK
    /\ running = "sessions" => W!TypeOK

\* Where a strategy believes it is, is what was told of it last.
ToldIsTracked == running = "strategy" => S!ToldIsTracked

\* A queued alert is taken, unless every worker waits for the mail server.
EveryAlertTaken == N!EveryAlertTaken

\* A stream misses no tick between two that it gets, and trades are missed
\* only when the connection was lost.
NoGaps ==
    /\ running = "ticks" => T!NoGaps
    /\ running = "trades" => R!TradesInOrder

\* An open stream gets a tick, unless the poller waits for a closed stream.
EveryStreamServed == T!EveryStreamServed

\* Cached bars never go back and skip few unless a fetch and a refresh overlapped.
CacheInOrder == running = "bars" => B!CacheInOrder

\* Indicators put into the cache survive the eviction that follows.
FreshIndicatorsSurvive == I!FreshIndicatorsSurvive

\* No pool is left open unless two calls overlapped.
NoLeakWithoutOverlap == running = "pool" => P!NoLeakWithoutOverlap

\* A container's stop reaches every component and every consumer loop.
StopReachesAll == running = "container" => C!StopReachesAll

=============================================================================
