--------------------------- MODULE StrategyEngine ---------------------------
(***************************************************************************)
(* StrategyEngine and BaseStrategy of strategy_engine/service.py: the      *)
(* registration of strategies, the dispatch of a bar, the position         *)
(* tracker, the gate and the publication.                                  *)
(*                                                                         *)
(* The consumer loop awaits on_bar, so bars come one at a time.  gather    *)
(* runs the strategies of a bar to their end before on_bar goes on: that   *)
(* is one step.  on_bar is suspended at the gate and at the bus, once for  *)
(* each signal, and registrations and resets may come in between.          *)
(***************************************************************************)
EXTENDS Naturals, Sequences, FiniteSetsExt, Functions, Lists

CONSTANTS
    Ids,            \* strategy ids
    Symbols,
    Timeframes,
    MinBars,        \* min_bars_required
    HistoryLength,  \* _get_history_length
    MaxBars,        \* bound: bars dispatched
    MaxChanges      \* bound: registrations, deregistrations, resets, switches

VARIABLES
    strategies,  \* _active_strategies, a function on the registered ids
    index,       \* _symbol_index
    raw,         \* signals on_bar has still to take to the gate
    approved,    \* signals on_bar has still to publish
    bars,        \* number of bars dispatched
    changes,     \* number of changes made to the strategies
    \* for the properties only
    told,        \* the last direction published, of each strategy and symbol
    lost         \* the last signal, or the tracker, of a strategy has been lost

vars == <<strategies, index, raw, approved, bars, changes, told, lost>>

ConstantsOK == {HistoryLength, MaxBars, MaxChanges} \subseteq Nat

Directions == {"LONG", "SHORT", "FLAT"}
NonEmpty(S) == SUBSET S \ {{}}
Listed(s) == {index[s][i] : i \in DOMAIN index[s]}
-----------------------------------------------------------------------------
(* BaseStrategy *)

\* A new instance; the tracker is a defaultdict of "FLAT".
NewStrategy(symbols, timeframes) ==
    [symbols |-> symbols, timeframes |-> timeframes, isActive |-> TRUE,
     tracker |-> [s \in Symbols |-> "FLAT"],
     history |-> [k \in Symbols \X Timeframes |-> 0]]

\* The first guards of on_bar.
Handles(st, s, tf) == st.isActive /\ s \in st.symbols /\ tf \in st.timeframes

\* The rows in _bar_history with the new bar in.
HistoryAfter(st, s, tf) == Min({st.history[s, tf] + 1, HistoryLength})

\* The strategy has a signal: warmed up, its indicators and its rule gave a
\* direction, and not the one it has already.
Speaks(st, s, tf, verdict) ==
    /\ Handles(st, s, tf)
    /\ HistoryAfter(st, s, tf) >= MinBars
    /\ verdict \in Directions
    /\ verdict # st.tracker[s]

\* Mutant of AfterBar: the tracker stays.
AfterBarUntracked(st, s, tf, verdict) ==
    IF Handles(st, s, tf) THEN [st EXCEPT !.history[<<s, tf>>] = HistoryAfter(st, s, tf)] ELSE st

\* BaseStrategy.on_bar.
AfterBar(st, s, tf, verdict) ==
    IF ~Handles(st, s, tf) THEN st
    ELSE [st EXCEPT !.history[<<s, tf>>] = HistoryAfter(st, s, tf),
                    !.tracker[s] = IF Speaks(st, s, tf, verdict) THEN verdict ELSE @]

\* BaseStrategy.reset.
AfterReset(st) == [NewStrategy(st.symbols, st.timeframes) EXCEPT !.isActive = st.isActive]
-----------------------------------------------------------------------------
Init ==
    /\ strategies = [i \in {} |-> <<>>]
    /\ index = [s \in Symbols |-> <<>>]
    /\ raw = <<>>
    /\ approved = <<>>
    /\ bars = 0
    /\ changes = 0
    /\ told = [k \in Ids \X Symbols |-> "FLAT"]
    /\ lost = {}

Signals(i) == {i} \X Symbols

\* Mutant of IndexAfter: an id is listed again every time it is registered.
IndexAppended(i, symbols) ==
    [s \in Symbols |-> IF s \in symbols THEN Append(index[s], i) ELSE index[s]]

\* register_strategy lists the id under its symbols, once.
IndexAfter(i, symbols) ==
    [s \in Symbols |->
        IF s \in symbols /\ i \notin Listed(s) THEN Append(index[s], i) ELSE index[s]]

\* A strategy registered under a known id replaces the one there.
Register(i, symbols, timeframes) ==
    /\ changes < MaxChanges
    /\ strategies' = [j \in DOMAIN strategies \cup {i} |->
                         IF j = i THEN NewStrategy(symbols, timeframes) ELSE strategies[j]]
    /\ index' = IndexAfter(i, symbols)
    /\ changes' = changes + 1
    /\ lost' = lost \cup Signals(i)
    /\ UNCHANGED <<raw, approved, bars, told>>

\* deregister_strategy.  Symbols that only an earlier instance had keep the id.
Deregister(i) ==
    /\ i \in DOMAIN strategies
    /\ changes < MaxChanges
    /\ strategies' = Restrict(strategies, DOMAIN strategies \ {i})
    /\ index' = [s \in Symbols |->
                    IF s \in strategies[i].symbols
                    THEN Kept(index[s], Ids \ {i}) ELSE index[s]]
    /\ changes' = changes + 1
    /\ lost' = lost \cup Signals(i)
    /\ UNCHANGED <<raw, approved, bars, told>>

\* activate and deactivate.
Switch(i, on) ==
    /\ i \in DOMAIN strategies
    /\ changes < MaxChanges
    /\ strategies' = [strategies EXCEPT ![i].isActive = on]
    /\ changes' = changes + 1
    /\ UNCHANGED <<index, raw, approved, bars, told, lost>>

\* reset_all.
ResetAll ==
    /\ changes < MaxChanges
    /\ strategies' = [i \in DOMAIN strategies |-> AfterReset(strategies[i])]
    /\ changes' = changes + 1
    /\ lost' = lost \cup ((DOMAIN strategies) \X Symbols)
    /\ UNCHANGED <<index, raw, approved, bars, told>>

\* on_bar up to the gate.  A strategy that raises after its tracker has moved
\* (_calculate_strength is not guarded) takes the signals of all with it.
Bar(s, tf, verdict, raising) ==
    LET running == {i \in Listed(s) : i \in DOMAIN strategies}
        speaking == {i \in running : Speaks(strategies[i], s, tf, verdict[i])}
        order == Kept(index[s], speaking)
        fails == raising \cap speaking # {}
    IN  /\ raw = <<>> /\ approved = <<>>
        /\ bars < MaxBars
        /\ strategies' = [i \in DOMAIN strategies |->
                             IF i \in running THEN AfterBar(strategies[i], s, tf, verdict[i])
                             ELSE strategies[i]]
        /\ raw' = IF fails THEN <<>>
                  ELSE [k \in DOMAIN order |->
                           [id |-> order[k], symbol |-> s, direction |-> verdict[order[k]]]]
        /\ lost' = IF fails THEN lost \cup (speaking \X {s}) ELSE lost \ (speaking \X {s})
        /\ bars' = bars + 1
        /\ UNCHANGED <<index, approved, changes, told>>

\* The signal of this strategy and symbol is lost.
Lose(sig) == lost \cup {<<sig.id, sig.symbol>>}

\* validate_signal has answered, or raised, for the next signal.
Gate(passes) ==
    LET sig == Head(raw)
    IN  /\ raw # <<>>
        /\ raw' = Tail(raw)
        /\ approved' = IF passes THEN Append(approved, sig) ELSE approved
        /\ lost' = IF passes THEN lost ELSE Lose(sig)
        /\ UNCHANGED <<strategies, index, bars, changes, told>>

\* All are gated; publish has returned, or raised, for the next signal.
Publish(succeeds) ==
    LET sig == Head(approved)
    IN  /\ raw = <<>> /\ approved # <<>>
        /\ approved' = Tail(approved)
        /\ told' = IF succeeds THEN [told EXCEPT ![<<sig.id, sig.symbol>>] = sig.direction] ELSE told
        /\ lost' = IF succeeds THEN lost ELSE Lose(sig)
        /\ UNCHANGED <<strategies, index, raw, bars, changes>>

Next ==
    \/ \E i \in Ids :
          \/ \E symbols \in NonEmpty(Symbols), timeframes \in NonEmpty(Timeframes) :
                Register(i, symbols, timeframes)
          \/ Deregister(i)
          \/ \E on \in BOOLEAN : Switch(i, on)
    \/ ResetAll
    \/ \E s \in Symbols, tf \in Timeframes, raising \in SUBSET Ids :
          \E verdict \in [Ids -> Directions \cup {"none"}] : Bar(s, tf, verdict, raising)
    \/ \E ok \in BOOLEAN : Gate(ok) \/ Publish(ok)

Spec == Init /\ [][Next]_vars
-----------------------------------------------------------------------------
(* Properties.                                                               *)

SignalRecords == [id : Ids, symbol : Symbols, direction : Directions]

StrategyRecords ==
    [symbols : NonEmpty(Symbols), timeframes : NonEmpty(Timeframes), isActive : BOOLEAN,
     tracker : [Symbols -> Directions],
     history : [Symbols \X Timeframes -> 0..HistoryLength]]

\* Every variable stays in its domain, and a registered strategy is listed
\* exactly once under each of its symbols, or a bar would reach it twice or
\* not at all (strategy_engine/service.py:516-542).
TypeOK ==
    /\ DOMAIN strategies \subseteq Ids
    /\ \A i \in DOMAIN strategies : strategies[i] \in StrategyRecords
    /\ index \in [Symbols -> Seq(Ids)]
    /\ \A i \in DOMAIN strategies : \A s \in strategies[i].symbols :
          \E k \in DOMAIN index[s] : {j \in DOMAIN index[s] : index[s][j] = i} = {k}
    /\ raw \in Seq(SignalRecords) /\ approved \in Seq(SignalRecords)
    /\ bars \in 0..MaxBars /\ changes \in 0..MaxChanges
    /\ told \in [Ids \X Symbols -> Directions]
    /\ lost \subseteq Ids \X Symbols

UnderWay(i, s) ==
    \E k \in DOMAIN (raw \o approved) : (raw \o approved)[k].id = i /\ (raw \o approved)[k].symbol = s

\* What the rest of the platform was told last is where the strategy believes
\* it is, unless its last signal was refused, failed or was taken down by
\* another strategy, or its tracker was reset: the tracker moves before the
\* signal has gone anywhere (strategy_engine/service.py:291-296, 577-596).
ToldIsTracked ==
    \A i \in DOMAIN strategies : \A s \in Symbols :
        <<i, s>> \notin lost /\ ~UnderWay(i, s) => told[i, s] = strategies[i].tracker[s]

=============================================================================
