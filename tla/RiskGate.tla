------------------------------ MODULE RiskGate ------------------------------
(***************************************************************************)
(* The pre-trade gate of the platform: RiskEngine.validate_signal and the  *)
(* three-state CircuitBreaker of risk_engine/service.py.                   *)
(*                                                                         *)
(* validate_signal is a coroutine.  It runs without interruption up to one *)
(* of its two suspension points: the VaR computation in the thread pool    *)
(* (reached only with at least 30 returns) and the publication of a        *)
(* RiskBreachEvent.  Other calls, the breaker's timer, the operator and    *)
(* the portfolio move in between.  A call is a slot of Calls: it is taken  *)
(* by AdmitSignal, freed when the call has returned and, if it returned    *)
(* True, when the signal's order has filled or was dropped.                *)
(*                                                                         *)
(* The portfolio the validators read is abstracted to which limits its     *)
(* figures exceed; the returns history to the answers the two validators   *)
(* over it would give, because validate_signal takes one snapshot of it.   *)
(***************************************************************************)
EXTENDS Naturals, FiniteSets

CONSTANTS
    Calls,             \* slots for concurrent validate_signal calls
    Symbols,           \* traded symbols
    MaxOpenPositions,  \* settings.risk.max_open_positions
    Troubles,          \* which of the portfolio's figures may pass their limit
    MaxTrips           \* bound: no new signal after this many trips

ASSUME CallsAssumption == IsFiniteSet(Calls) /\ Calls # {}
ASSUME SymbolsAssumption == IsFiniteSet(Symbols) /\ Symbols # {}
ASSUME TroublesAssumption == Troubles \subseteq {"NoEquity", "DailyLoss", "VaR", "Drawdown"}
ASSUME LimitAssumption == MaxOpenPositions \in Nat \ {0}
ASSUME BoundAssumption == MaxTrips \in Nat

VARIABLES
    \* CircuitBreaker
    state,        \* _state
    due,          \* the half-open delay has elapsed since _triggered_at
    probeSent,    \* _half_open_probe_sent
    breachCount,  \* _breach_count
    \* the portfolio, as the validators see it
    positions,    \* symbols in get_positions()
    oversized,    \* of them, those at or above max_position_size_pct
    troubles,     \* of Troubles, those that hold now
    history,      \* length class of get_returns_series()
    call,         \* the locals of each call
    probes        \* for the properties: probes let through since the last trip

breakerVars == <<state, due, probeSent, breachCount>>
bookVars == <<positions, oversized, troubles, history>>
vars == <<breakerVars, bookVars, call, probes>>

BreakerStates == {"CLOSED", "OPEN", "HALF_OPEN"}

Validators == {"PositionLimit", "MaxOpenPositions", "DailyLoss", "VaR", "Drawdown"}

\* The validators whose veto carries the action FLATTEN.
CriticalValidators == {"Drawdown", "DailyLoss"}

NoVeto == "none"
NoSymbol == "none"

\* "var": suspended in run_in_executor.  "publish": suspended in the bus's
\* publish of the breach.  "approved": returned True, the order is under way.
ActiveStates == {"var", "publish", "approved"}

\* symbol and exit come from the signal.  snapshot is what the returns read at
\* the start will show, veto the verdict being published.  admittedAt
\* (breachCount at the breaker) and asProbe are for the properties only.
ActiveCalls ==
    [pc : ActiveStates, symbol : Symbols, exit : BOOLEAN,
     snapshot : SUBSET Troubles, veto : Validators \cup {NoVeto},
     admittedAt : Nat, asProbe : BOOLEAN]

Idle ==
    [pc |-> "idle", symbol |-> NoSymbol, exit |-> FALSE, snapshot |-> {},
     veto |-> NoVeto, admittedAt |-> 0, asProbe |-> FALSE]

\* Below 30 returns the VaR check is skipped, with none the drawdown too.
HistoryLengths == {"empty", "short", "long"}
-----------------------------------------------------------------------------
(* CircuitBreaker: the state property is a read that may write. *)

TimerFires == state = "OPEN" /\ due

\* The value of the state property.
CurrentState == IF TimerFires THEN "HALF_OPEN" ELSE state

\* Mutant of CurrentProbeSent: every read in HALF_OPEN clears the flag.
ProbeFlagClearedByEveryRead == probeSent /\ state # "HALF_OPEN"

\* _half_open_probe_sent once the state property has been read.
CurrentProbeSent == probeSent /\ ~TimerFires

\* can_probe() returned False.
ProbeTaken == CurrentState = "HALF_OPEN" /\ CurrentProbeSent

\* Mutant of GateShut: the OPEN check is dropped.
GateIgnoringOpen == ProbeTaken

GateShut == CurrentState = "OPEN" \/ ProbeTaken

\* trip(): note that _half_open_probe_sent keeps its value.
Trip ==
    /\ state' = "OPEN"
    /\ due' = FALSE
    /\ breachCount' = breachCount + 1
    /\ probes' = 0
    /\ UNCHANGED probeSent

\* confirm_recovery() and reset() leave the same state behind.
Close ==
    /\ state' = "CLOSED"
    /\ due' = FALSE
    /\ probeSent' = FALSE
    /\ UNCHANGED breachCount
-----------------------------------------------------------------------------
(* The validator chain. *)

\* Open positions if a signal on s were filled.
CountWith(s) == Cardinality(positions \cup {s})

\* PositionLimitValidator looks at no direction; it also vetoes without equity.
PositionLimitVetoes(s) == "NoEquity" \in troubles \/ s \in oversized

\* Mutant of MaxOpenPositionsVetoes: the position to come is not counted.
PositionsVetoOffByOne(s, isExit) == ~isExit /\ Cardinality(positions) > MaxOpenPositions

\* MaxOpenPositionsValidator waves exits through.
MaxOpenPositionsVetoes(s, isExit) == ~isExit /\ CountWith(s) > MaxOpenPositions

\* The three validators that run before the first suspension point.
FirstVeto(s, isExit) ==
    IF PositionLimitVetoes(s) THEN "PositionLimit"
    ELSE IF MaxOpenPositionsVetoes(s, isExit) THEN "MaxOpenPositions"
    ELSE IF "DailyLoss" \in troubles THEN "DailyLoss"
    ELSE NoVeto

\* What the two returns-based validators will find in the history read now.
ReturnsTroubles ==
    {t \in troubles : \/ t = "VaR" /\ history = "long"
                      \/ t = "Drawdown" /\ history # "empty"}

\* Their fail-fast verdict over a snapshot.
ReturnsVeto(snap) ==
    IF "VaR" \in snap THEN "VaR"
    ELSE IF "Drawdown" \in snap THEN "Drawdown"
    ELSE NoVeto

\* The tail of validate_signal for a call m: in HALF_OPEN whoever gets here
\* closes the breaker.
Approve(c, m, cur, sent) ==
    /\ call' = [call EXCEPT ![c] = [Idle EXCEPT !.pc = "approved", !.symbol = m.symbol, !.exit = m.exit]]
    /\ IF cur = "HALF_OPEN"
       THEN Close
       ELSE /\ state' = cur
            /\ probeSent' = sent
            /\ UNCHANGED <<due, breachCount>>

\* _handle_breach up to the suspension in publish.
RaiseBreach(c, m, v, cur, sent) ==
    /\ call' = [call EXCEPT ![c] = [m EXCEPT !.pc = "publish", !.snapshot = {}, !.veto = v]]
    /\ state' = cur
    /\ probeSent' = sent
    /\ UNCHANGED <<due, breachCount>>
-----------------------------------------------------------------------------
Init ==
    /\ state = "CLOSED"
    /\ due = FALSE
    /\ probeSent = FALSE
    /\ breachCount = 0
    /\ positions = {}
    /\ oversized = {}
    /\ troubles = {}
    /\ history = "empty"
    /\ call = [c \in Calls |-> Idle]
    /\ probes = 0

\* A strategy or the API brings a signal to a free slot.
Arrives(c) == call[c].pc = "idle" /\ breachCount < MaxTrips

\* validate_signal returns False at the breaker; reading the state has no
\* effect here, so neither has the call.
RefuseSignal(c) ==
    /\ Arrives(c)
    /\ GateShut
    /\ UNCHANGED vars

\* validate_signal passes the breaker and runs to its first suspension point,
\* or to its end.
AdmitSignal(c, s, isExit) ==
    LET cur == CurrentState
        probing == cur = "HALF_OPEN"
        sent == CurrentProbeSent \/ probing
        early == FirstVeto(s, isExit)
        late == ReturnsVeto(ReturnsTroubles)
        m == [pc |-> "var", symbol |-> s, exit |-> isExit, snapshot |-> ReturnsTroubles,
              veto |-> NoVeto, admittedAt |-> breachCount, asProbe |-> probing]
    IN  /\ Arrives(c)
        /\ ~GateShut
        /\ probes' = IF probing THEN probes + 1 ELSE probes
        /\ \/ early # NoVeto /\ RaiseBreach(c, m, early, cur, sent)
           \/ /\ early = NoVeto /\ history = "long"
              /\ call' = [call EXCEPT ![c] = m]
              /\ state' = cur
              /\ probeSent' = sent
              /\ UNCHANGED <<due, breachCount>>
           \/ /\ early = NoVeto /\ history # "long" /\ late # NoVeto
              /\ RaiseBreach(c, m, late, cur, sent)
           \/ /\ early = NoVeto /\ history # "long" /\ late = NoVeto
              /\ Approve(c, m, cur, sent)
        /\ UNCHANGED bookVars

\* The pool delivers the VaR; DrawdownValidator follows on the same snapshot.
\* An approval reads is_half_open, which lets the timer fire first.
FinishVaR(c) ==
    LET late == ReturnsVeto(call[c].snapshot)
    IN  /\ call[c].pc = "var"
        /\ IF late # NoVeto
           THEN RaiseBreach(c, call[c], late, state, probeSent)
           ELSE Approve(c, call[c], CurrentState, CurrentProbeSent)
        /\ UNCHANGED <<bookVars, probes>>

\* The computation, or the pool after shutdown(), raises: a rejection that
\* goes through no breach handling.
VaRRaises(c) ==
    /\ call[c].pc = "var"
    /\ call' = [call EXCEPT ![c] = Idle]
    /\ UNCHANGED <<breakerVars, bookVars, probes>>

\* publish has returned or raised (both lead on): trip if critical, reject.
FinishBreach(c) ==
    /\ call[c].pc = "publish"
    /\ call' = [call EXCEPT ![c] = Idle]
    /\ IF call[c].veto \in CriticalValidators
       THEN Trip
       ELSE UNCHANGED <<breakerVars, probes>>
    /\ UNCHANGED bookVars
-----------------------------------------------------------------------------
(* Around the calls. *)

\* half_open_after_seconds go by.
TimerElapses ==
    /\ state = "OPEN" /\ ~due
    /\ due' = TRUE
    /\ UNCHANGED <<state, probeSent, breachCount, bookVars, call, probes>>

\* The API or the metrics read circuit_breaker_state.
ReadState ==
    /\ TimerFires
    /\ state' = "HALF_OPEN"
    /\ probeSent' = FALSE
    /\ UNCHANGED <<due, breachCount, bookVars, call, probes>>

\* reset_circuit_breaker(): an operator's decision.
Reset ==
    /\ Close
    /\ UNCHANGED <<bookVars, call, probes>>

\* Mutant of Fill: a closed position keeps its size.
FillKeepingSize(c) ==
    /\ call[c].pc = "approved"
    /\ call' = [call EXCEPT ![c] = Idle]
    /\ positions' = IF call[c].exit THEN positions \ {call[c].symbol} ELSE positions \cup {call[c].symbol}
    /\ UNCHANGED <<breakerVars, oversized, troubles, history, probes>>

\* The approved signal's order fills: an entry opens, enlarges or, opposing the
\* position, closes it; an exit closes it.
Fill(c) ==
    LET s == call[c].symbol
        opened == IF call[c].exit THEN {} ELSE {positions \cup {s}}
        closed == IF call[c].exit \/ s \in positions THEN {positions \ {s}} ELSE {}
    IN  /\ call[c].pc = "approved"
        /\ call' = [call EXCEPT ![c] = Idle]
        /\ positions' \in opened \cup closed
        /\ oversized' = oversized \cap positions'
        /\ UNCHANGED <<breakerVars, troubles, history, probes>>

\* Sized to zero, refused by the broker, or lost on the way.
Drop(c) ==
    /\ call[c].pc = "approved"
    /\ call' = [call EXCEPT ![c] = Idle]
    /\ UNCHANGED <<breakerVars, bookVars, probes>>

\* Prices move: one figure crosses its limit, either way.
TroublesMove ==
    /\ \E t \in Troubles :
          troubles' = IF t \in troubles THEN troubles \ {t} ELSE troubles \cup {t}
    /\ UNCHANGED <<breakerVars, positions, oversized, history, call, probes>>

SizesMove ==
    /\ \E s \in positions :
          oversized' = IF s \in oversized THEN oversized \ {s} ELSE oversized \cup {s}
    /\ UNCHANGED <<breakerVars, positions, troubles, history, call, probes>>

HistoryGrows ==
    /\ \/ history = "empty" /\ history' = "short"
       \/ history = "short" /\ history' = "long"
    /\ UNCHANGED <<breakerVars, positions, oversized, troubles, call, probes>>

Next ==
    \/ \E c \in Calls, s \in Symbols, isExit \in BOOLEAN : AdmitSignal(c, s, isExit)
    \/ \E c \in Calls :
          RefuseSignal(c) \/ FinishVaR(c) \/ VaRRaises(c) \/ FinishBreach(c) \/ Fill(c) \/ Drop(c)
    \/ TimerElapses \/ ReadState \/ Reset
    \/ TroublesMove \/ SizesMove \/ HistoryGrows

Spec == Init /\ [][Next]_vars
-----------------------------------------------------------------------------
(***************************************************************************)
(* Properties.                                                             *)
(***************************************************************************)

\* Every variable stays in its domain (service.py:350-359).
BreakerOK ==
    /\ state \in BreakerStates
    /\ due \in BOOLEAN
    /\ probeSent \in BOOLEAN
    /\ breachCount \in Nat
    /\ probes \in Nat

BookOK ==
    /\ positions \subseteq Symbols
    /\ oversized \subseteq positions
    /\ troubles \subseteq Troubles
    /\ history \in HistoryLengths

CallsOK == call \in [Calls -> ActiveCalls \cup {Idle}]

TypeOK == BreakerOK /\ BookOK /\ CallsOK

\* HALF_OPEN "allow[s] exactly one probe trade" (service.py:385): between two
\* trips at most one signal passes the breaker as a probe, whatever calls were
\* already suspended and however often the state is read.
AtMostOneProbePerTrip == probes <= 1

\* A call returns True while the breaker is OPEN only if it passed the breaker
\* before the trip that opened it: nothing that arrives after a trip gets
\* through before the timer or the operator acts (service.py:497-503).
OnlyEarlierSignalsPassWhileOpen ==
    [][\A c \in Calls :
          call'[c].pc = "approved" /\ call[c].pc # "approved" /\ CurrentState = "OPEN"
          => call[c].pc = "var" /\ call[c].admittedAt < breachCount]_vars

\* Symbols that are open or may become so by a call that has passed the limit.
Committed ==
    positions \cup {call[c].symbol : c \in {d \in Calls : /\ call[d].pc \in {"var", "approved"}
                                                          /\ ~call[d].exit}}

\* The open-position limit is checked long before the fill, so it can be
\* exceeded, but by no more than the other signals outstanding at the time.
OvershootBounded == Cardinality(Committed) <= MaxOpenPositions + Cardinality(Calls) - 1

-----------------------------------------------------------------------------
(* The inductive invariant behind the two breaker properties.                *)

\* Which probes the current trip can have let through.
ProbeAccounting ==
    /\ probes <= 1
    /\ state = "OPEN" => probes = 0
    /\ state = "HALF_OPEN" /\ ~probeSent => probes = 0

\* A call suspended in the VaR check passed the breaker no later than now, and
\* before the last trip when the breaker is OPEN.
AdmissionOrder ==
    \A c \in Calls :
        call[c].pc = "var" => /\ call[c].admittedAt <= breachCount
                              /\ state = "OPEN" => call[c].admittedAt < breachCount

IInv == TypeOK /\ ProbeAccounting /\ AdmissionOrder
-----------------------------------------------------------------------------
(* What the repository says of the gate and the code does not do: a run of   *)
(* its own finds a counterexample.                                           *)

\* "HALF_OPEN -(fail)-> OPEN" (service.py:342).  A probe rejected by another
\* than the critical validators, or by an exception, leaves the breaker in
\* HALF_OPEN with its probe spent: every later signal is refused.
FailedProbeReopens ==
    [][\A c \in Calls :
          call[c].pc \in {"var", "publish"} /\ call[c].asProbe
              /\ call[c].admittedAt = breachCount
              /\ call'[c].pc = "idle" /\ state = "HALF_OPEN"
          => state' = "OPEN"]_vars

=============================================================================
