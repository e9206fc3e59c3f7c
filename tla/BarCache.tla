------------------------------ MODULE BarCache ------------------------------
(***************************************************************************)
(* HistoricalDataManager of market_data/service.py, for one symbol and     *)
(* timeframe: get_bars fetches what the cache lacks and awaits the         *)
(* provider, refresh appends the bars as they close.  A bar is its number. *)
(* The provider is asked for the bars that opened up to now, the one still *)
(* forming among them.                                                     *)
(***************************************************************************)
EXTENDS Integers, SequencesExt, FiniteSetsExt

CONSTANTS
    Callers,   \* calls of get_bars under way at a time
    Lookback,  \* lookback_bars; only the first call's matters to the cache
    Cap,       \* rows kept by refresh
    MaxBars    \* bound: bars closed

VARIABLES
    limited,    \* the provider is Binance, which takes a limit
    closed,     \* bars that have closed; the next one is forming
    refreshed,  \* the last bar given to refresh, which gets them in order
    cache,      \* _memory_cache: the bars, <<>> for no entry
    fetch,      \* {}, or the last bar closed when the call asked the provider
    \* for the properties only
    overlapped  \* a fetch and a refresh have overlapped

vars == <<limited, closed, refreshed, cache, fetch, overlapped>>

ConstantsOK == Lookback \in Nat \ {0} /\ Cap \in Nat \ {0} /\ MaxBars \in Nat

\* The last n elements.
LastOf(seq, n) == SubSeq(seq, Max({1, Len(seq) - n + 1}), Len(seq))

Fetching == {c \in Callers : fetch[c] # {}}

Init ==
    /\ limited \in BOOLEAN
    /\ closed = 0 /\ refreshed = 0
    /\ cache = <<>>
    /\ fetch = [c \in Callers |-> {}]
    /\ overlapped = FALSE

CloseBar ==
    /\ closed < MaxBars
    /\ closed' = closed + 1
    /\ UNCHANGED <<limited, refreshed, cache, fetch, overlapped>>

\* get_bars up to its await; with an entry in the cache it returns at once.
GetBars(c) ==
    /\ cache = <<>> /\ fetch[c] = {}
    /\ fetch' = [fetch EXCEPT ![c] = {closed}]
    /\ overlapped' = (overlapped \/ refreshed < closed)
    /\ UNCHANGED <<limited, closed, refreshed, cache>>

\* How many bars the time asked for is long.
Window == (3 * Lookback) \div 2

\* The bars of the provider when upTo had closed: those of the window, or, of
\* them, as many as the limit admits from the oldest one on.
Provided(upTo) ==
    LET window == LastOf([i \in 1..(upTo + 1) |-> i], Window)
    IN  IF limited THEN SubSeq(window, 1, Min({Lookback, Len(window)})) ELSE window

\* The provider has answered, with nothing when it failed, and the answer
\* goes over whatever the cache holds by now.
Fetched(c, succeeds) ==
    LET bars == IF succeeds THEN Provided(Max(fetch[c])) ELSE <<>>
    IN  /\ fetch[c] # {}
        /\ fetch' = [fetch EXCEPT ![c] = {}]
        /\ cache' = IF bars = <<>> THEN cache ELSE bars
        /\ UNCHANGED <<limited, closed, refreshed, overlapped>>

\* Mutant of Trimmed: the first bars are kept.
TrimmedToHead(bars) == SubSeq(bars, 1, Min({Cap, Len(bars)}))

\* tail(10_000).
Trimmed(bars) == LastOf(bars, Cap)

\* refresh; without an entry it makes one of the single bar.
Refresh ==
    /\ refreshed < closed
    /\ refreshed' = refreshed + 1
    /\ cache' = IF cache = <<>> THEN <<refreshed + 1>> ELSE Trimmed(Append(cache, refreshed + 1))
    /\ overlapped' = (overlapped \/ Fetching # {})
    /\ UNCHANGED <<limited, closed, fetch>>

Next ==
    \/ CloseBar \/ Refresh
    \/ \E c \in Callers : GetBars(c) \/ \E succeeds \in BOOLEAN : Fetched(c, succeeds)

Spec == Init /\ [][Next]_vars
-----------------------------------------------------------------------------
(* Properties.                                                               *)

TypeOK ==
    /\ limited \in BOOLEAN
    /\ closed \in 0..MaxBars /\ refreshed \in 0..closed
    /\ cache \in Seq(1..(closed + 1))
    /\ Len(cache) <= Max({Window, Cap})
    /\ fetch \in [Callers -> {{}} \cup {{n} : n \in 0..closed}]
    /\ overlapped \in BOOLEAN

\* How many bars a limited answer may lack at its end; one at least follows
\* the last refreshed.
Shortfall == Max({1, Window - Lookback})

\* The cached bars never go back, skip no more bars than the limit cuts off an
\* answer and end as near to the last one refreshed, as long as no fetch and
\* refresh have overlapped: a fetch that answers late wipes out what refresh
\* appended meanwhile, and one made between the close of a bar and its refresh
\* gets that bar twice; the cache never heals (market_data/service.py:540, 565,
\* 591-594).
CacheInOrder ==
    cache # <<>> /\ ~overlapped =>
        /\ \A i \in 1..(Len(cache) - 1) : cache[i + 1] - cache[i] \in 0..Shortfall
        /\ Last(cache) - refreshed \in (1 - Shortfall)..1
=============================================================================
