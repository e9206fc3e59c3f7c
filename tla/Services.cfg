SPECIFICATION Spec
CONSTANTS
    StrategyIds = {i, j}
    StrategySymbols = {x, y}
    Timeframes = {h}
    MinBars = 2
    HistoryLength = 2
    MaxDispatched = 3
    MaxChanges = 2
    Workers = {v, w}
    Levels = {"WARNING", "CRITICAL"}
    Configured = {"telegram", "email"}
    AlertQueue = 2
    Threshold = 2
    Capacity = 1
    MaxAlerts = 3
    Symbols = {s, t}
    Streams = {a, b, c}
    TickQueue = 1
    Wrap = 2
    TradeStreams = {g}
    MaxTrades = 3
    Callers = {k, l}
    Lookback = 4
    Cap = 5
    MaxBars = 6
    Pairs = {p, q, r}
    Names = 2
    MaxCache = 4
    Evicted = 2
    MaxPools = 3
    HandledStreams = 4
    Market = {d, e}
    Portfolio = {f}
INVARIANTS
    TypeOK
    ToldIsTracked
    NoGaps
    CacheInOrder
    NoLeakWithoutOverlap
    StopReachesAll
PROPERTIES
    EveryAlertTaken
    EveryStreamServed
    FreshIndicatorsSurvive
CHECK_DEADLOCK FALSE
