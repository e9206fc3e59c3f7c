----------------------------- MODULE Portfolio -----------------------------
(***************************************************************************)
(* The books of the platform: PortfolioEngine, Position and PositionSizer  *)
(* of portfolio_engine/service.py.                                         *)
(*                                                                         *)
(* on_fill and on_tick take an asyncio.Lock and never suspend while they   *)
(* hold it, so each is one step; so is a reader, which is synchronous.     *)
(* The hard part is the order in which fills, marks and midnights follow   *)
(* one another, and the rounding at each of them.                          *)
(*                                                                         *)
(* Amounts are integers in the last digit of the Decimal context.  Cent is *)
(* the 0.01 to which quantize rounds.  An average price is rounded to that *)
(* last digit.  The sizer's floating-point ratios are exact ratios here.   *)
(* The equity curve is kept out: its readers want its length and its VaR,  *)
(* which RiskGate abstracts.                                               *)
(***************************************************************************)
EXTENDS Integers, FiniteSetsExt, Functions

CONSTANTS
    Symbols,      \* traded symbols
    Prices,       \* prices of fills, mid prices of ticks
    Quantities,   \* quantities of fills
    Commission,   \* FillEvent.commission
    Initial,      \* initial_capital
    Cent,         \* the unit quantize rounds to
    VolShare,     \* target_vol_pct / daily_vol, in percent of equity
    KellyShare,   \* kelly * kelly_fraction, in percent of equity
    MaxShare,     \* max_position_pct, in percent of equity
    MaxFills      \* bound: fills processed

ASSUME SymbolsAssumption == IsFiniteSet(Symbols)
ASSUME MarketAssumption == Prices \subseteq Nat \ {0} /\ Quantities \subseteq Nat \ {0}
ASSUME AmountsAssumption == Commission \in Nat /\ Initial \in Nat /\ Cent \in Nat \ {0}
ASSUME SharesAssumption == VolShare \in Nat /\ KellyShare \in Nat /\ MaxShare \in Nat
ASSUME FillsAssumption == MaxFills \in Nat

VARIABLES
    positions,     \* _positions: the dict, a function on the symbols in it
    cash,          \* _cash
    realised,      \* _cumulative_realised_pnl
    commissions,   \* _cumulative_commission
    daily,         \* what get_daily_pnl sums: _daily_fills since midnight
    peak,          \* _peak_equity
    \* for the properties only
    filled,        \* signed sum of the fills of each symbol
    fills,         \* number of fills
    slack,         \* twice the amount that rounding may have lost so far
    crossed,       \* some fill took a position through zero
    midnight,      \* realised and fills at the last midnight
    fresh          \* symbols ticked since their last fill

books == <<positions, cash, realised, commissions, daily, peak>>
ghosts == <<filled, fills, slack, crossed, midnight, fresh>>
vars == <<books, ghosts>>

Sides == {"BUY", "SELL"}
-----------------------------------------------------------------------------
(* Arithmetic *)

Abs(x) == IF x < 0 THEN -x ELSE x

\* n / d to the nearest integer, ties away from zero (ROUND_HALF_UP).
HalfUp(n, d) ==
    IF n >= 0 THEN (2 * n + d) \div (2 * d) ELSE -((d - 2 * n) \div (2 * d))

\* Decimal.quantize("0.01").
Quantize(x) == Cent * HalfUp(x, Cent)
-----------------------------------------------------------------------------
(* Position *)

\* avg_entry_price, net_qty, unrealised_pnl, current_price.
NewPosition == [net |-> 0, avg |-> 0, unrealised |-> 0, price |-> 0]

Signed(side, q) == IF side = "BUY" THEN q ELSE -q

\* The fill is against the position: it closes some of it.
Closes(pos, signed) == pos.net * signed < 0

\* Mutant of AverageAfter: a fill against the position moves its average too.
AverageMovesOnClose(pos, signed, p) ==
    IF pos.net = 0 THEN p
    ELSE HalfUp(pos.avg * Abs(pos.net) + p * Abs(signed), Abs(pos.net) + Abs(signed))

\* The average entry price after a fill: unchanged by a fill against the
\* position, one that takes it through zero included.
AverageAfter(pos, signed, p) ==
    IF pos.net = 0 THEN p
    ELSE IF Closes(pos, signed) THEN pos.avg
    ELSE HalfUp(pos.avg * Abs(pos.net) + p * Abs(signed), Abs(pos.net) + Abs(signed))

\* Mutant of Gain: a short gains when the price rises.
GainSignLost(pos, signed, p) ==
    IF Closes(pos, signed) THEN (p - pos.avg) * Min({Abs(signed), Abs(pos.net)}) ELSE 0

\* What apply_fill returns.
Gain(pos, signed, p) ==
    LET closed == Min({Abs(signed), Abs(pos.net)})
        perUnit == IF pos.net > 0 THEN p - pos.avg ELSE pos.avg - p
    IN  IF Closes(pos, signed) THEN perUnit * closed ELSE 0

\* Mutant of ApplyFill: a fill larger than the position only closes it.
ApplyFillClosesOnly(pos, signed, p) ==
    [pos EXCEPT !.net = IF Closes(pos, signed) /\ Abs(signed) > Abs(pos.net) THEN 0 ELSE @ + signed,
                !.avg = AverageAfter(pos, signed, p)]

\* unrealised_pnl and current_price wait for the next tick.
ApplyFill(pos, signed, p) ==
    [pos EXCEPT !.net = @ + signed, !.avg = AverageAfter(pos, signed, p)]

\* Mutant of Marked: the sign of a short is lost.
MarkedAsLong(pos, mid) ==
    [pos EXCEPT !.price = mid, !.unrealised = Quantize((mid - pos.avg) * Abs(pos.net))]

\* update_unrealised.  An open position never has an average price of zero.
Marked(pos, mid) ==
    [pos EXCEPT !.price = mid, !.unrealised = Quantize((mid - pos.avg) * pos.net)]
-----------------------------------------------------------------------------
(* The engine's readers *)

Open == DOMAIN positions

\* get_unrealised_pnl.
Unrealised == SumFunction([s \in Open |-> positions[s].unrealised])

\* get_equity.
Equity == Quantize(cash + Unrealised)

\* Mutant of Lots: max_position_pct is not applied.
LotsUncapped(equity, share, price) == HalfUp(equity * share, 100 * price)

\* PositionSizer: a share of the equity, capped, in whole lots of one unit.
Lots(equity, share, price) == HalfUp(equity * Min({share, MaxShare}), 100 * price)

VolTargetSize(equity, price) ==
    IF equity <= 0 THEN 0 ELSE Max({0, Lots(equity, VolShare, price)})

KellySize(equity, price) == Max({0, Lots(equity, KellyShare, price)})

\* calculate_position_size: without an edge in Kelly's sense the volatility
\* target decides alone.
RecommendedSize(equity, price) ==
    LET vs == VolTargetSize(equity, price)
        ks == KellySize(equity, price)
    IN  IF ks = 0 THEN vs ELSE Min({vs, ks})
-----------------------------------------------------------------------------
(* Its handlers *)

Init ==
    /\ positions = [s \in {} |-> NewPosition]
    /\ cash = Initial
    /\ realised = 0
    /\ commissions = 0
    /\ daily = 0
    /\ peak = Initial
    /\ filled = [s \in Symbols |-> 0]
    /\ fills = 0
    /\ slack = 0
    /\ crossed = FALSE
    /\ midnight = [realised |-> 0, fills |-> 0]
    /\ fresh = {}

\* The position a fill is applied to: on_fill creates the missing one.
PositionOf(s) == IF s \in Open THEN positions[s] ELSE NewPosition

\* Mutant of BookWith: flat positions stay in the dict.
BookKeepsFlat(s, pos) == [t \in Open \cup {s} |-> IF t = s THEN pos ELSE positions[t]]

\* The dict after the fill: a position that is flat is deleted.
BookWith(s, pos) ==
    IF pos.net = 0
    THEN Restrict(positions, Open \ {s})
    ELSE [t \in Open \cup {s} |-> IF t = s THEN pos ELSE positions[t]]

\* Twice what this fill may lose to rounding: half a cent of the gain when it
\* closes, half a digit of each unit's cost when it adds.
SlackOf(before, after, signed) ==
    IF Closes(before, signed) THEN Cent ELSE Abs(after.net)

\* on_fill.
Fill(s, side, q, p) ==
    LET before == PositionOf(s)
        signed == Signed(side, q)
        after == ApplyFill(before, signed, p)
        gain == Gain(before, signed, p)
    IN  /\ fills < MaxFills
        /\ realised' = realised + Quantize(gain)
        /\ commissions' = commissions + Commission
        /\ cash' = cash - signed * p - Commission
        /\ positions' = BookWith(s, after)
        /\ daily' = daily + gain
        /\ UNCHANGED peak
        /\ filled' = [filled EXCEPT ![s] = @ + signed]
        /\ fills' = fills + 1
        /\ slack' = slack + SlackOf(before, after, signed)
        /\ crossed' = (crossed \/ before.net * after.net < 0)
        /\ fresh' = fresh \ {s}
        /\ UNCHANGED midnight

\* on_tick: a tick of a symbol with no position has no effect.
Tick(s, mid) ==
    /\ s \in Open
    /\ positions' = [positions EXCEPT ![s] = Marked(@, mid)]
    /\ fresh' = fresh \cup {s}
    /\ UNCHANGED <<cash, realised, commissions, daily, peak>>
    /\ UNCHANGED <<filled, fills, slack, crossed, midnight>>

\* get_current_drawdown: the reader that writes.  The peak moves when the
\* drawdown is read, by the gate or by the API.
ReadDrawdown ==
    /\ peak' = Max({peak, Equity})
    /\ UNCHANGED <<positions, cash, realised, commissions, daily>>
    /\ UNCHANGED ghosts

\* Mutant of Midnight: yesterday's fills keep counting.
MidnightForgotten ==
    /\ midnight' = [realised |-> realised, fills |-> fills]
    /\ UNCHANGED <<positions, cash, realised, commissions, daily, peak>>
    /\ UNCHANGED <<filled, fills, slack, crossed, fresh>>

\* A new UTC day: get_daily_pnl no longer counts the fills so far.
Midnight ==
    /\ daily' = 0
    /\ midnight' = [realised |-> realised, fills |-> fills]
    /\ UNCHANGED <<positions, cash, realised, commissions, peak>>
    /\ UNCHANGED <<filled, fills, slack, crossed, fresh>>

Next ==
    \/ \E s \in Symbols, side \in Sides, q \in Quantities, p \in Prices : Fill(s, side, q, p)
    \/ \E s \in Symbols, mid \in Prices : Tick(s, mid)
    \/ ReadDrawdown
    \/ Midnight

Spec == Init /\ [][Next]_vars
-----------------------------------------------------------------------------
(* Properties *)

PositionType ==
    [net : Int \ {0}, avg : Nat \ {0}, unrealised : Int, price : Nat]

BooksTypeOK ==
    /\ Open \subseteq Symbols
    /\ positions \in [Open -> PositionType]
    /\ cash \in Int /\ realised \in Int /\ commissions \in Nat
    /\ daily \in Int
    /\ filled \in [Symbols -> Int]
    /\ fills \in 0..MaxFills
    /\ slack \in Nat
    /\ crossed \in BOOLEAN
    /\ midnight \in [realised : Int, fills : 0..MaxFills]
    /\ fresh \subseteq Open

\* The dict holds open positions only, each with a positive average price.
TypeOK ==
    /\ BooksTypeOK
    /\ peak \in Int

\* After any sequence of fills, through deletions, reopenings and reversals,
\* the dict has a symbol exactly when its fills do not cancel, at their sum.
PositionsMatchFills ==
    \A s \in Symbols : PositionOf(s).net = filled[s]

\* What the open positions cost, at their average prices.
OpenCost == SumFunction([s \in Open |-> positions[s].net * positions[s].avg])

\* What they are worth, at the prices they were last marked at.
MarkedValue == SumFunction([s \in Open |-> positions[s].net * positions[s].price])

\* Twice the amount by which the books miss their balance: the capital and
\* the gains, less the commissions, are held as cash or as open positions.
Imbalance == 2 * Abs((cash + OpenCost) - (Initial + realised - commissions))

\* Until a fill takes a position through zero the cash, the average prices
\* and the cumulative P&L agree, up to rounding: no fill is paid for twice,
\* none is lost when its position is deleted (BUG-01).
BooksBalance == crossed \/ Imbalance <= slack

Cost(s) == PositionOf(s).net * PositionOf(s).avg

\* The same fill by fill, for any number of symbols: what a fill takes from
\* the cash it adds to the cost of its position, or leaves as a gain or a
\* commission, and BooksBalance is the sum of it.
FillBalances ==
    \A s \in Symbols :
        /\ filled'[s] # filled[s]
        /\ PositionOf(s).net * PositionOf(s)'.net >= 0
        => 2 * Abs((cash' - cash) + (Cost(s)' - Cost(s))
                     + (commissions' - commissions) - (realised' - realised))
             <= slack' - slack

EveryFillBalances == [][FillBalances]_vars

\* The daily P&L is what the cumulative P&L has gained since midnight, up to
\* half a cent a fill: the loss limit is judged on every fill of the day and
\* on no other (BUG-04).
DailyMatchesCumulative ==
    2 * Abs(daily - (realised - midnight.realised)) <= Cent * (fills - midnight.fills)

\* Once every open position has been ticked since its last fill, equity is the
\* value of the account less the cost of the open positions, long or short,
\* whatever marks and fills came before.
FreshEquityIsValueLessCost ==
    fresh = Open =>
        2 * Abs(Equity - (cash + MarkedValue - OpenCost)) <= Cent * (1 + Cardinality(Open))

\* A recommended size is within max_position_pct of equity up to half a lot,
\* which rounding may add, and is zero when there is no equity.
WithinCap(size, equity, price) ==
    size > 0 => /\ equity > 0
                /\ 2 * (100 * size * price) <= 2 * MaxShare * equity + 100 * price

SizeWithinCap == \A p \in Prices : WithinCap(RecommendedSize(Equity, p), Equity, p)

\* "Closed P&L accumulates in _cumulative_realised_pnl (never lost)": with no
\* position open, the capital and the closed P&L less the commissions are the
\* cash.  The code loses what a fill through zero opens: the rest of it keeps
\* the average price of the position that it closed.
RealisedNeverLost == Open = {} => Imbalance <= slack
=============================================================================
