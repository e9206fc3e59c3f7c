-------------------------- MODULE RiskGateProofs --------------------------
(***************************************************************************)
(* The breaker properties of RiskGate, for any calls, symbols and bounds.  *)
(***************************************************************************)
EXTENDS RiskGate, FiniteSetTheorems, TLAPS

\* The chain names a validator, or nobody (service.py:115-318).
LEMMA FirstVetoType ==
    \A s \in Symbols, isExit \in BOOLEAN : FirstVeto(s, isExit) \in Validators \cup {NoVeto}
BY DEF FirstVeto, Validators, NoVeto

\* The validators that judge the returns answer with one of them or none.
LEMMA ReturnsVetoType == \A snap : ReturnsVeto(snap) \in Validators \cup {NoVeto}
BY DEF ReturnsVeto, Validators, NoVeto

\* The troubles of the returns are troubles.
LEMMA ReturnsTroublesType == BookOK => ReturnsTroubles \in SUBSET Troubles
BY DEF BookOK, ReturnsTroubles

\* The state that the breaker reports is one it has.
LEMMA CurrentTypes == BreakerOK => CurrentState \in BreakerStates /\ CurrentProbeSent \in BOOLEAN
BY DEF BreakerOK, CurrentState, CurrentProbeSent, TimerFires, BreakerStates
-----------------------------------------------------------------------------
\* A step that approves a call leaves the breaker and the calls well typed.
LEMMA ApproveType ==
    ASSUME TypeOK, probes' \in Nat, NEW c \in Calls, NEW m \in ActiveCalls,
           NEW cur \in BreakerStates, NEW sent \in BOOLEAN, Approve(c, m, cur, sent)
    PROVE  BreakerOK' /\ CallsOK'
<1>1. [Idle EXCEPT !.pc = "approved", !.symbol = m.symbol, !.exit = m.exit] \in ActiveCalls
  BY DEF ActiveCalls, ActiveStates, Idle, NoVeto
<1>2. CallsOK'
  BY <1>1 DEF Approve, TypeOK, CallsOK
<1>3. CASE cur = "HALF_OPEN"
  BY <1>2, <1>3 DEF Approve, Close, BreakerStates, TypeOK, BreakerOK
<1>4. CASE cur # "HALF_OPEN"
  BY <1>2, <1>4 DEF Approve, TypeOK, BreakerOK
<1>5. QED
  BY <1>3, <1>4

\* So does one that starts the publication of a breach.
LEMMA RaiseBreachType ==
    ASSUME TypeOK, probes' \in Nat, NEW c \in Calls, NEW m \in ActiveCalls,
           NEW cur \in BreakerStates, NEW sent \in BOOLEAN,
           NEW v \in Validators \cup {NoVeto}, RaiseBreach(c, m, v, cur, sent)
    PROVE  BreakerOK' /\ CallsOK'
<1>1. [m EXCEPT !.pc = "publish", !.snapshot = {}, !.veto = v] \in ActiveCalls
  BY DEF ActiveCalls, ActiveStates
<1>2. QED
  BY <1>1 DEF RaiseBreach, TypeOK, BreakerOK, CallsOK

\* What AdmitSignal knows of a call at its first suspension point.
Admitted(s, isExit) ==
    [pc |-> "var", symbol |-> s, exit |-> isExit, snapshot |-> ReturnsTroubles,
     veto |-> NoVeto, admittedAt |-> breachCount, asProbe |-> (CurrentState = "HALF_OPEN")]

\* A call that is admitted is an active call.
LEMMA AdmittedType ==
    ASSUME TypeOK, NEW s \in Symbols, NEW isExit \in BOOLEAN
    PROVE  Admitted(s, isExit) \in ActiveCalls
BY ReturnsTroublesType DEF Admitted, ActiveCalls, ActiveStates, TypeOK, BreakerOK, NoVeto

\* The call waits for its VaR.
Suspend(c, m, cur, sent) ==
    /\ call' = [call EXCEPT ![c] = m]
    /\ state' = cur
    /\ probeSent' = sent
    /\ UNCHANGED <<due, breachCount>>

\* The three ways an admitted signal goes on: a breach, the VaR wait, approval.
LEMMA AdmitCases ==
    ASSUME TypeOK, NEW c \in Calls, NEW s \in Symbols, NEW isExit \in BOOLEAN,
           AdmitSignal(c, s, isExit)
    PROVE  LET m == Admitted(s, isExit)
               cur == CurrentState
               sent == CurrentProbeSent \/ cur = "HALF_OPEN"
           IN  \/ \E v \in Validators \cup {NoVeto} : RaiseBreach(c, m, v, cur, sent)
               \/ Suspend(c, m, cur, sent)
               \/ Approve(c, m, cur, sent)
<1>1. FirstVeto(s, isExit) \in Validators \cup {NoVeto}
  BY FirstVetoType
<1>2. ReturnsVeto(ReturnsTroubles) \in Validators \cup {NoVeto}
  BY ReturnsVetoType
<1>3. QED
  BY <1>1, <1>2 DEF AdmitSignal, Admitted, Suspend
-----------------------------------------------------------------------------
\* No step takes a variable out of its domain.
LEMMA TypeStep == TypeOK /\ [Next]_vars => TypeOK'
<1> SUFFICES ASSUME TypeOK, [Next]_vars PROVE TypeOK'
  OBVIOUS
<1> USE DEF TypeOK
<1>a. UNCHANGED bookVars => BookOK'
  BY DEF bookVars, BookOK
<1>b. UNCHANGED <<breakerVars, probes>> => BreakerOK'
  BY DEF breakerVars, BreakerOK
<1>c. UNCHANGED call => CallsOK'
  BY DEF CallsOK
<1>d. ASSUME NEW c \in Calls, call' = [call EXCEPT ![c] = Idle]
      PROVE  CallsOK'
  BY <1>d DEF CallsOK
<1>1. ASSUME NEW c \in Calls, NEW s \in Symbols, NEW isExit \in BOOLEAN,
             AdmitSignal(c, s, isExit)
      PROVE  TypeOK'
  <2> DEFINE m == Admitted(s, isExit)
             sent == CurrentProbeSent \/ CurrentState = "HALF_OPEN"
  <2>1. UNCHANGED bookVars /\ probes' \in Nat
    BY <1>1 DEF AdmitSignal, BreakerOK
  <2>2. m \in ActiveCalls /\ CurrentState \in BreakerStates /\ sent \in BOOLEAN
    BY AdmittedType, CurrentTypes
  <2>3. CASE \E v \in Validators \cup {NoVeto} : RaiseBreach(c, m, v, CurrentState, sent)
    BY <1>a, <2>1, <2>2, <2>3, RaiseBreachType
  <2>4. CASE Suspend(c, m, CurrentState, sent)
    BY <1>a, <2>1, <2>2, <2>4 DEF Suspend, BreakerOK, CallsOK
  <2>5. CASE Approve(c, m, CurrentState, sent)
    BY <1>a, <2>1, <2>2, <2>5, ApproveType
  <2>6. QED
    BY <1>1, <2>3, <2>4, <2>5, AdmitCases
<1>2. ASSUME NEW c \in Calls, FinishVaR(c)
      PROVE  TypeOK'
  <2>1. call[c] \in ActiveCalls
    BY <1>2 DEF FinishVaR, CallsOK, Idle
  <2>2. UNCHANGED bookVars /\ probes' \in Nat
    BY <1>2 DEF FinishVaR, BreakerOK
  <2>3. CASE ReturnsVeto(call[c].snapshot) # NoVeto
    <3>1. RaiseBreach(c, call[c], ReturnsVeto(call[c].snapshot), state, probeSent)
      BY <1>2, <2>3 DEF FinishVaR
    <3>2. state \in BreakerStates /\ probeSent \in BOOLEAN
      BY DEF BreakerOK
    <3>3. QED
      BY <1>a, <2>1, <2>2, <3>1, <3>2, ReturnsVetoType, RaiseBreachType
  <2>4. CASE ReturnsVeto(call[c].snapshot) = NoVeto
    <3>1. Approve(c, call[c], CurrentState, CurrentProbeSent)
      BY <1>2, <2>4 DEF FinishVaR
    <3>2. QED
      BY <1>a, <2>1, <2>2, <3>1, CurrentTypes, ApproveType
  <2>5. QED
    BY <2>3, <2>4
<1>3. ASSUME NEW c \in Calls, VaRRaises(c)
      PROVE  TypeOK'
  BY <1>a, <1>b, <1>d, <1>3 DEF VaRRaises
<1>4. ASSUME NEW c \in Calls, FinishBreach(c)
      PROVE  TypeOK'
  <2>1. BookOK' /\ CallsOK'
    BY <1>a, <1>d, <1>4 DEF FinishBreach
  <2>2. CASE call[c].veto \in CriticalValidators
    <3>1. Trip
      BY <1>4, <2>2 DEF FinishBreach
    <3>2. breachCount' \in Nat /\ probes' \in Nat
      BY <3>1 DEF Trip, BreakerOK
    <3>3. state' \in BreakerStates /\ due' \in BOOLEAN /\ probeSent' \in BOOLEAN
      BY <3>1, Zenon DEF Trip, BreakerOK, BreakerStates
    <3>4. QED
      BY <2>1, <3>2, <3>3 DEF BreakerOK
  <2>3. CASE call[c].veto \notin CriticalValidators
    BY <1>b, <1>4, <2>1, <2>3 DEF FinishBreach
  <2>4. QED
    BY <2>2, <2>3
<1>5. ASSUME NEW c \in Calls, Fill(c)
      PROVE  TypeOK'
  <2>1. call[c].symbol \in Symbols
    BY <1>5 DEF Fill, CallsOK, Idle, ActiveCalls
  <2>2. positions' \subseteq Symbols
    BY <1>5, <2>1 DEF Fill, BookOK
  <2>3. BookOK'
    BY <1>5, <2>2 DEF Fill, BookOK
  <2>4. QED
    BY <1>b, <1>d, <1>5, <2>3 DEF Fill
<1>6. ASSUME NEW c \in Calls, Drop(c)
      PROVE  TypeOK'
  BY <1>a, <1>b, <1>d, <1>6 DEF Drop
<1>7. CASE TimerElapses
  BY <1>a, <1>c, <1>7 DEF TimerElapses, BreakerOK
<1>8. CASE ReadState
  BY <1>a, <1>c, <1>8 DEF ReadState, BreakerOK, BreakerStates
<1>9. CASE Reset
  BY <1>a, <1>c, <1>9 DEF Reset, Close, BreakerOK, BreakerStates
<1>10. CASE TroublesMove
  BY <1>b, <1>c, <1>10 DEF TroublesMove, BookOK
<1>11. CASE SizesMove
  BY <1>b, <1>c, <1>11 DEF SizesMove, BookOK
<1>12. CASE HistoryGrows
  BY <1>b, <1>c, <1>12 DEF HistoryGrows, BookOK, HistoryLengths
<1>13. CASE UNCHANGED vars
  BY <1>a, <1>b, <1>c, <1>13 DEF vars
<1>14. ASSUME NEW c \in Calls, RefuseSignal(c)
       PROVE  TypeOK'
  BY <1>13, <1>14 DEF RefuseSignal
<1>15. QED
  BY <1>1, <1>2, <1>3, <1>4, <1>5, <1>6, <1>7, <1>8, <1>9, <1>10, <1>11, <1>12, <1>13, <1>14
     DEF Next

\* Initially every variable is in its domain.
LEMMA InitType == Init => TypeOK
<1> SUFFICES ASSUME Init PROVE TypeOK
  OBVIOUS
<1>1. breachCount \in Nat /\ probes \in Nat
  BY DEF Init
<1>2. state \in BreakerStates /\ due \in BOOLEAN /\ probeSent \in BOOLEAN
  BY Zenon DEF Init, BreakerStates
<1>3. BookOK /\ CallsOK
  BY DEF Init, BookOK, CallsOK, HistoryLengths
<1>4. QED
  BY <1>1, <1>2, <1>3 DEF TypeOK, BreakerOK

\* Every variable stays in its domain.
THEOREM TypeCorrect == Spec => []TypeOK
<1>1. QED
  BY InitType, TypeStep, PTL DEF Spec
-----------------------------------------------------------------------------
\* The probe accounting of one step: AdmitSignal counts a probe only where the
\* flag was down, and raises it; every trip starts a new count.
LEMMA ProbeStep == IInv /\ [Next]_vars => ProbeAccounting'
<1> SUFFICES ASSUME TypeOK, ProbeAccounting, [Next]_vars PROVE ProbeAccounting'
  BY DEF IInv
<1>1. ASSUME NEW c \in Calls, NEW s \in Symbols, NEW isExit \in BOOLEAN,
             AdmitSignal(c, s, isExit)
      PROVE  ProbeAccounting'
  <2> DEFINE m == Admitted(s, isExit)
             sent == CurrentProbeSent \/ CurrentState = "HALF_OPEN"
  <2>1. ~GateShut /\ probes' = IF CurrentState = "HALF_OPEN" THEN probes + 1 ELSE probes
    BY <1>1 DEF AdmitSignal
  <2>2. CASE CurrentState = "HALF_OPEN"
    <3>1. probes = 0
      BY <2>1, <2>2 DEF GateShut, ProbeTaken, CurrentState, CurrentProbeSent, TimerFires,
                        ProbeAccounting
    <3>2. probes' = 1 /\ sent
      BY <2>1, <2>2, <3>1
    <3>3. (state' = "HALF_OPEN" /\ probeSent') \/ state' = "CLOSED"
      <4>1. CASE \E v \in Validators \cup {NoVeto} : RaiseBreach(c, m, v, CurrentState, sent)
        BY <2>2, <3>2, <4>1 DEF RaiseBreach
      <4>2. CASE Suspend(c, m, CurrentState, sent)
        BY <2>2, <3>2, <4>2 DEF Suspend
      <4>3. CASE Approve(c, m, CurrentState, sent)
        BY <2>2, <4>3 DEF Approve, Close
      <4>4. QED
        BY <1>1, <4>1, <4>2, <4>3, AdmitCases
    <3>4. QED
      BY <3>2, <3>3 DEF ProbeAccounting
  <2>3. CASE CurrentState # "HALF_OPEN"
    <3>1. CurrentState = "CLOSED" /\ probes' = probes
      BY <2>1, <2>3, CurrentTypes DEF GateShut, BreakerStates, TypeOK
    <3>2. state' = "CLOSED"
      <4>1. CASE \E v \in Validators \cup {NoVeto} : RaiseBreach(c, m, v, CurrentState, sent)
        BY <3>1, <4>1 DEF RaiseBreach
      <4>2. CASE Suspend(c, m, CurrentState, sent)
        BY <3>1, <4>2 DEF Suspend
      <4>3. CASE Approve(c, m, CurrentState, sent)
        BY <3>1, <4>3 DEF Approve
      <4>4. QED
        BY <1>1, <4>1, <4>2, <4>3, AdmitCases
    <3>3. QED
      BY <3>1, <3>2 DEF ProbeAccounting
  <2>4. QED
    BY <2>2, <2>3
<1>2. ASSUME NEW c \in Calls, FinishVaR(c)
      PROVE  ProbeAccounting'
  <2>1. probes' = probes
    BY <1>2 DEF FinishVaR
  <2>2. CASE ReturnsVeto(call[c].snapshot) # NoVeto
    BY <1>2, <2>1, <2>2 DEF FinishVaR, RaiseBreach, ProbeAccounting
  <2>3. CASE ReturnsVeto(call[c].snapshot) = NoVeto
    <3>1. Approve(c, call[c], CurrentState, CurrentProbeSent)
      BY <1>2, <2>3 DEF FinishVaR
    <3>2. state' = "CLOSED" \/ (state' = state /\ probeSent' = CurrentProbeSent)
      <4>1. CASE CurrentState = "HALF_OPEN"
        BY <3>1, <4>1 DEF Approve, Close
      <4>2. CASE CurrentState # "HALF_OPEN"
        <5>1. CurrentState = state
          BY <4>2 DEF CurrentState
        <5>2. state' = CurrentState /\ probeSent' = CurrentProbeSent
          BY <3>1, <4>2, Zenon DEF Approve
        <5>3. QED
          BY <5>1, <5>2
      <4>3. QED
        BY <4>1, <4>2
    <3>3. CASE state' = "CLOSED"
      BY <2>1, <3>3 DEF ProbeAccounting
    <3>4. CASE state' = state /\ state = "OPEN"
      BY <2>1, <3>4 DEF ProbeAccounting
    <3>5. CASE state' = state /\ probeSent' = CurrentProbeSent /\ state # "OPEN"
      BY <2>1, <3>5 DEF ProbeAccounting, CurrentProbeSent, TimerFires
    <3>6. QED
      BY <3>2, <3>3, <3>4, <3>5
  <2>4. QED
    BY <2>2, <2>3
<1>3. ASSUME NEW c \in Calls, FinishBreach(c)
      PROVE  ProbeAccounting'
  BY <1>3 DEF FinishBreach, Trip, breakerVars, ProbeAccounting
<1>4. ASSUME NEW c \in Calls, VaRRaises(c) \/ Fill(c) \/ Drop(c) \/ RefuseSignal(c)
      PROVE  ProbeAccounting'
  BY <1>4 DEF VaRRaises, Fill, Drop, RefuseSignal, vars, breakerVars, ProbeAccounting
<1>5. CASE TimerElapses
  BY <1>5 DEF TimerElapses, ProbeAccounting
<1>6. CASE ReadState
  BY <1>6 DEF ReadState, TimerFires, ProbeAccounting
<1>7. CASE Reset
  BY <1>7 DEF Reset, Close, ProbeAccounting
<1>8. CASE TroublesMove \/ SizesMove \/ HistoryGrows \/ UNCHANGED vars
  BY <1>8 DEF TroublesMove, SizesMove, HistoryGrows, vars, breakerVars, ProbeAccounting
<1>9. QED
  BY <1>1, <1>2, <1>3, <1>4, <1>5, <1>6, <1>7, <1>8 DEF Next
-----------------------------------------------------------------------------
\* A call that enters the VaR wait does so at the current count, with the
\* breaker not OPEN; a trip raises the count above every call that waits.
LEMMA AdmissionStep == IInv /\ [Next]_vars => AdmissionOrder'
<1> SUFFICES ASSUME TypeOK, AdmissionOrder, [Next]_vars PROVE AdmissionOrder'
  BY DEF IInv
<1>a. \A c \in Calls : call[c].pc = "var" => call[c].admittedAt \in Nat
  BY DEF TypeOK, CallsOK, Idle, ActiveCalls
<1>b. breachCount \in Nat
  BY DEF TypeOK, BreakerOK
<1>c. ASSUME NEW c \in Calls, breachCount' = breachCount,
             \A d \in Calls : d # c => call'[d] = call[d],
             call'[c].pc # "var",
             state' = "OPEN" => state = "OPEN"
      PROVE  AdmissionOrder'
  BY <1>c DEF AdmissionOrder
<1>d. ASSUME breachCount' = breachCount, UNCHANGED call, state' = "OPEN" => state = "OPEN"
      PROVE  AdmissionOrder'
  BY <1>d DEF AdmissionOrder
<1>e. ASSUME NEW c \in Calls, NEW m, call' = [call EXCEPT ![c] = m]
      PROVE  call'[c] = m /\ \A d \in Calls : d # c => call'[d] = call[d]
  BY <1>e DEF TypeOK, CallsOK
<1>f. Idle.pc = "idle"
  BY DEF Idle
<1>1. ASSUME NEW c \in Calls, NEW s \in Symbols, NEW isExit \in BOOLEAN,
             AdmitSignal(c, s, isExit)
      PROVE  AdmissionOrder'
  <2> DEFINE m == Admitted(s, isExit)
             sent == CurrentProbeSent \/ CurrentState = "HALF_OPEN"
  <2>1. CurrentState # "OPEN"
    BY <1>1 DEF AdmitSignal, GateShut
  <2>2. m \in ActiveCalls /\ m.admittedAt = breachCount
    BY AdmittedType DEF Admitted
  <2>3. CASE \E v \in Validators \cup {NoVeto} : RaiseBreach(c, m, v, CurrentState, sent)
    <3>1. PICK v \in Validators \cup {NoVeto} : RaiseBreach(c, m, v, CurrentState, sent)
      BY <2>3
    <3> DEFINE b == [m EXCEPT !.pc = "publish", !.snapshot = {}, !.veto = v]
    <3>2. b.pc = "publish"
      BY <2>2 DEF ActiveCalls
    <3>3. call' = [call EXCEPT ![c] = b] /\ breachCount' = breachCount /\ state' # "OPEN"
      BY <2>1, <3>1 DEF RaiseBreach
    <3>4. call'[c] = b /\ \A d \in Calls : d # c => call'[d] = call[d]
      BY <1>e, <3>3
    <3>5. QED
      BY <1>c, <3>2, <3>3, <3>4
  <2>4. CASE Suspend(c, m, CurrentState, sent)
    <3>1. call'[c] = m /\ \A d \in Calls : d # c => call'[d] = call[d]
      BY <1>e, <2>4 DEF Suspend
    <3>2. state' # "OPEN" /\ breachCount' = breachCount
      BY <2>1, <2>4 DEF Suspend
    <3>3. QED
      BY <1>b, <2>2, <3>1, <3>2 DEF AdmissionOrder
  <2>5. CASE Approve(c, m, CurrentState, sent)
    <3> DEFINE b == [Idle EXCEPT !.pc = "approved", !.symbol = m.symbol, !.exit = m.exit]
    <3>1. b.pc = "approved"
      BY DEF Idle
    <3>2. call' = [call EXCEPT ![c] = b] /\ breachCount' = breachCount /\ state' # "OPEN"
      BY <2>1, <2>5 DEF Approve, Close
    <3>3. call'[c] = b /\ \A d \in Calls : d # c => call'[d] = call[d]
      BY <1>e, <3>2
    <3>4. QED
      BY <1>c, <3>1, <3>2, <3>3
  <2>6. QED
    BY <1>1, <2>3, <2>4, <2>5, AdmitCases
<1>2. ASSUME NEW c \in Calls, FinishVaR(c)
      PROVE  AdmissionOrder'
  <2>1. call[c] \in ActiveCalls
    BY <1>2 DEF FinishVaR, TypeOK, CallsOK, Idle
  <2>2. CASE ReturnsVeto(call[c].snapshot) # NoVeto
    <3> DEFINE b == [call[c] EXCEPT !.pc = "publish", !.snapshot = {},
                                    !.veto = ReturnsVeto(call[c].snapshot)]
    <3>1. b.pc = "publish"
      BY <2>1 DEF ActiveCalls
    <3>2. call' = [call EXCEPT ![c] = b] /\ breachCount' = breachCount /\ state' = state
      BY <1>2, <2>2 DEF FinishVaR, RaiseBreach
    <3>3. call'[c] = b /\ \A d \in Calls : d # c => call'[d] = call[d]
      BY <1>e, <3>2
    <3>4. QED
      BY <1>c, <3>1, <3>2, <3>3
  <2>3. CASE ReturnsVeto(call[c].snapshot) = NoVeto
    <3> DEFINE b == [Idle EXCEPT !.pc = "approved", !.symbol = call[c].symbol,
                               !.exit = call[c].exit]
    <3>1. b.pc = "approved"
      BY DEF Idle
    <3>2. Approve(c, call[c], CurrentState, CurrentProbeSent)
      BY <1>2, <2>3 DEF FinishVaR
    <3>3. call' = [call EXCEPT ![c] = b] /\ breachCount' = breachCount
      BY <3>2 DEF Approve, Close
    <3>4. state' = "OPEN" => state = "OPEN"
      BY <3>2 DEF Approve, Close, CurrentState, TimerFires
    <3>5. call'[c] = b /\ \A d \in Calls : d # c => call'[d] = call[d]
      BY <1>e, <3>3
    <3>6. QED
      BY <1>c, <3>1, <3>3, <3>4, <3>5
  <2>4. QED
    BY <2>2, <2>3
<1>3. ASSUME NEW c \in Calls, FinishBreach(c)
      PROVE  AdmissionOrder'
  <2>1. call'[c] = Idle /\ \A d \in Calls : d # c => call'[d] = call[d]
    BY <1>e, <1>3 DEF FinishBreach
  <2>2. CASE call[c].veto \in CriticalValidators
    <3>1. breachCount' = breachCount + 1
      BY <1>3, <2>2 DEF FinishBreach, Trip
    <3>2. QED
      BY <1>a, <1>b, <1>f, <2>1, <3>1 DEF AdmissionOrder
  <2>3. CASE call[c].veto \notin CriticalValidators
    <3>1. breachCount' = breachCount /\ state' = state
      BY <1>3, <2>3 DEF FinishBreach, breakerVars
    <3>2. QED
      BY <1>c, <1>f, <2>1, <3>1
  <2>4. QED
    BY <2>2, <2>3
<1>4. ASSUME NEW c \in Calls, VaRRaises(c) \/ Fill(c) \/ Drop(c)
      PROVE  AdmissionOrder'
  <2>1. call' = [call EXCEPT ![c] = Idle] /\ breachCount' = breachCount /\ state' = state
    BY <1>4 DEF VaRRaises, Fill, Drop, breakerVars
  <2>2. call'[c] = Idle /\ \A d \in Calls : d # c => call'[d] = call[d]
    BY <1>e, <2>1
  <2>3. QED
    BY <1>c, <1>f, <2>1, <2>2
<1>5. CASE TimerElapses \/ ReadState \/ Reset
  BY <1>d, <1>5 DEF TimerElapses, ReadState, Reset, Close
<1>6. CASE TroublesMove \/ SizesMove \/ HistoryGrows
  BY <1>d, <1>6 DEF TroublesMove, SizesMove, HistoryGrows, breakerVars
<1>7. CASE UNCHANGED vars \/ \E c \in Calls : RefuseSignal(c)
  BY <1>d, <1>7 DEF RefuseSignal, vars, breakerVars
<1>8. QED
  BY <1>1, <1>2, <1>3, <1>4, <1>5, <1>6, <1>7 DEF Next
-----------------------------------------------------------------------------
\* IInv holds in every reachable state.
THEOREM InductiveInvariant == Spec => []IInv
<1>1. Init => IInv
  <2>1. Init => TypeOK
    BY InitType
  <2>2. Init => ProbeAccounting /\ AdmissionOrder
    BY DEF Init, ProbeAccounting, AdmissionOrder, Idle
  <2>3. QED
    BY <2>1, <2>2 DEF IInv
<1>2. IInv /\ [Next]_vars => IInv'
  BY TypeStep, ProbeStep, AdmissionStep DEF IInv
<1>3. QED
  BY <1>1, <1>2, PTL DEF Spec

\* Between two trips at most one signal passes the breaker as the probe of
\* HALF_OPEN (service.py:384-389).
THEOREM OneProbe == Spec => []AtMostOneProbePerTrip
<1>1. IInv => AtMostOneProbePerTrip
  BY DEF IInv, ProbeAccounting, AtMostOneProbePerTrip
<1>2. QED
  BY <1>1, InductiveInvariant, PTL

\* While the breaker is OPEN only calls that passed it before the trip return
\* True (service.py:497-503).
THEOREM EarlierSignalsOnly == Spec => OnlyEarlierSignalsPassWhileOpen
<1> DEFINE A == \A c \in Calls :
                   call'[c].pc = "approved" /\ call[c].pc # "approved" /\ CurrentState = "OPEN"
                   => call[c].pc = "var" /\ call[c].admittedAt < breachCount
<1>1. IInv /\ [Next]_vars => [A]_vars
  <2> SUFFICES ASSUME IInv, Next, CurrentState = "OPEN",
                      NEW c \in Calls, call'[c].pc = "approved", call[c].pc # "approved"
               PROVE  call[c].pc = "var" /\ call[c].admittedAt < breachCount
    OBVIOUS
  <2>1. state = "OPEN" /\ call \in [Calls -> ActiveCalls \cup {Idle}]
    BY DEF CurrentState, IInv, TypeOK, CallsOK
  <2>2. call[c].pc = "var" => call[c].admittedAt < breachCount
    BY <2>1 DEF IInv, AdmissionOrder
  <2>3. \A d \in Calls : \A m : call' = [call EXCEPT ![d] = m] => c = d \/ call'[c] = call[c]
    BY <2>1
  <2>4. \A d \in Calls : call' = [call EXCEPT ![d] = Idle] => call'[c] = Idle \/ call'[c] = call[c]
    BY <2>1
  <2>5. Idle.pc = "idle"
    BY DEF Idle
  <2>6. ~ \E d \in Calls, s \in Symbols, isExit \in BOOLEAN : AdmitSignal(d, s, isExit)
    BY DEF AdmitSignal, GateShut
  <2>7. ASSUME NEW d \in Calls, FinishVaR(d)
        PROVE  call[c].pc = "var"
    BY <2>3, <2>7 DEF FinishVaR, RaiseBreach, Approve
  <2>8. ASSUME NEW d \in Calls, VaRRaises(d) \/ FinishBreach(d) \/ Fill(d) \/ Drop(d)
        PROVE  FALSE
    BY <2>4, <2>5, <2>8 DEF VaRRaises, FinishBreach, Fill, Drop
  <2>9. ~(UNCHANGED call)
    OBVIOUS
  <2>10. QED
    BY <2>2, <2>6, <2>7, <2>8, <2>9 DEF Next, RefuseSignal, vars, TimerElapses, ReadState,
       Reset, TroublesMove, SizesMove, HistoryGrows
<1>2. QED
  BY <1>1, InductiveInvariant, PTL DEF Spec, OnlyEarlierSignalsPassWhileOpen
-----------------------------------------------------------------------------
(* The open-position limit                                                   *)

\* A call on its way to open a position.
Entering(m) == m.pc \in {"var", "approved"} /\ ~m.exit

\* What a set of calls is about to open.
Pending(D) == {call[d].symbol : d \in {e \in D : Entering(call[e])}}

\* A call is about to open one position at most.
LEMMA PendingBounded ==
    ASSUME NEW D, IsFiniteSet(D)
    PROVE  IsFiniteSet(Pending(D)) /\ Cardinality(Pending(D)) <= Cardinality(D)
<1> DEFINE E == {e \in D : Entering(call[e])}
           f == [d \in E |-> call[d].symbol]
<1>1. IsFiniteSet(E) /\ Cardinality(E) <= Cardinality(D)
  BY FS_Subset
<1>2. f \in Surjection(E, Pending(D))
  BY DEF Surjection, Pending
<1> HIDE DEF E, f
<1>3. IsFiniteSet(Pending(D)) /\ Cardinality(Pending(D)) <= Cardinality(E)
  BY <1>1, <1>2, FS_Surjection
<1>4. Cardinality(E) \in Nat /\ Cardinality(D) \in Nat /\ Cardinality(Pending(D)) \in Nat
  BY <1>1, <1>3, FS_CardinalityType
<1> QED
  BY <1>1, <1>3, <1>4

\* What is committed is what is open and what calls are about to open.
LEMMA CommittedIs == Committed = positions \cup Pending(Calls)
  BY DEF Committed, Pending, Entering

\* Positions within the limit and every other call exceed it by the others.
LEMMA OthersAreBounded ==
    ASSUME NEW P \in SUBSET Symbols, Cardinality(P) <= MaxOpenPositions,
           NEW c \in Calls, NEW K, K \subseteq P \cup Pending(Calls \ {c})
    PROVE  Cardinality(K) <= MaxOpenPositions + Cardinality(Calls) - 1
<1> DEFINE others == Pending(Calls \ {c})
<1>1. IsFiniteSet(Calls \ {c}) /\ Cardinality(Calls \ {c}) = Cardinality(Calls) - 1
      /\ Cardinality(Calls) \in Nat \ {0}
  <2>1. IsFiniteSet(Calls) /\ Cardinality(Calls) \in Nat
    BY CallsAssumption, FS_CardinalityType
  <2>2. Cardinality(Calls) # 0
    BY <2>1, FS_EmptySet
  <2> QED
    BY <2>1, <2>2, FS_RemoveElement
<1>2. IsFiniteSet(others) /\ Cardinality(others) <= Cardinality(Calls) - 1
  BY <1>1, PendingBounded
<1>3. IsFiniteSet(P)
  BY SymbolsAssumption, FS_Subset
<1> HIDE DEF others
<1>4. /\ IsFiniteSet(P \cup others)
      /\ Cardinality(P \cup others) = Cardinality(P) + Cardinality(others) - Cardinality(P \cap others)
  BY <1>2, <1>3, FS_Union
<1>5. IsFiniteSet(P \cap others)
  <2>1. P \cap others \subseteq P
    OBVIOUS
  <2> QED
    BY <1>3, <2>1, FS_Subset
<1>6. /\ Cardinality(P) \in Nat /\ Cardinality(others) \in Nat
      /\ Cardinality(P \cap others) \in Nat /\ Cardinality(P \cup others) \in Nat
  BY <1>2, <1>3, <1>4, <1>5, FS_CardinalityType
<1>7. Cardinality(P \cup others) <= MaxOpenPositions + Cardinality(Calls) - 1
  BY <1>1, <1>2, <1>4, <1>6, LimitAssumption
<1>8. IsFiniteSet(K) /\ Cardinality(K) <= Cardinality(P \cup others)
  <2>1. K \in SUBSET (P \cup others)
    BY DEF others
  <2> QED
    BY <1>4, <2>1, FS_Subset
<1>9. Cardinality(K) \in Nat
  BY <1>8, FS_CardinalityType
<1> QED
  BY <1>1, <1>6, <1>7, <1>8, <1>9, LimitAssumption

\* Nothing is added to what is committed.
LEMMA FewerCommitted ==
    ASSUME TypeOK, OvershootBounded, Committed' \subseteq Committed
    PROVE  OvershootBounded'
<1>1. IsFiniteSet(Committed)
  <2>1. IsFiniteSet(positions)
    BY SymbolsAssumption, FS_Subset DEF TypeOK, BookOK
  <2>2. IsFiniteSet(Pending(Calls))
    BY CallsAssumption, PendingBounded
  <2> QED
    BY <2>1, <2>2, CommittedIs, FS_Union
<1>2. IsFiniteSet(Committed') /\ Cardinality(Committed') <= Cardinality(Committed)
  BY <1>1, FS_Subset
<1>3. Cardinality(Committed) \in Nat /\ Cardinality(Committed') \in Nat /\ Cardinality(Calls) \in Nat
  BY <1>1, <1>2, CallsAssumption, FS_CardinalityType
<1> QED
  BY <1>2, <1>3, LimitAssumption DEF OvershootBounded

\* A call that is about to open a position after a step on call c.
LEMMA OneCallMoves ==
    ASSUME CallsOK, NEW c \in Calls, NEW m, call' = [call EXCEPT ![c] = m]
    PROVE  /\ \A x \in Pending(Calls)' : x \in Pending(Calls \ {c}) \/ (Entering(m) /\ x = m.symbol)
           /\ Pending(Calls \ {c}) \subseteq Pending(Calls)
<1>1. \A d \in Calls : call'[d] = IF d = c THEN m ELSE call[d]
  BY DEF CallsOK
<1>2. \A x \in Pending(Calls)' : \E d \in Calls : Entering(call'[d]) /\ x = call'[d].symbol
  BY DEF Pending
<1>3. \A d \in Calls \ {c} : Entering(call[d]) => call[d].symbol \in Pending(Calls \ {c})
  BY DEF Pending
<1>4. \A x \in Pending(Calls)' : x \in Pending(Calls \ {c}) \/ (Entering(m) /\ x = m.symbol)
  <2> TAKE x \in Pending(Calls)'
  <2>1. PICK d \in Calls : Entering(call'[d]) /\ x = call'[d].symbol
    BY <1>2
  <2>2. CASE d = c
    BY <1>1, <2>1, <2>2
  <2>3. CASE d # c
    BY <1>1, <1>3, <2>1, <2>3
  <2> QED
    BY <2>2, <2>3
<1>5. Pending(Calls \ {c}) \subseteq Pending(Calls)
  BY DEF Pending
<1> QED
  BY <1>4, <1>5

\* A step on one call that leaves the positions alone and makes it enter
\* nothing new adds nothing.
LEMMA CallSettles ==
    ASSUME CallsOK, NEW c \in Calls, NEW m, call' = [call EXCEPT ![c] = m],
           Entering(m) => Entering(call[c]) /\ m.symbol = call[c].symbol,
           positions' \subseteq positions \cup Pending(Calls)
    PROVE  Committed' \subseteq Committed
<1>1. Entering(m) => m.symbol \in Pending(Calls)
  BY DEF Pending
<1>2. Pending(Calls)' \subseteq Pending(Calls)
  BY <1>1, OneCallMoves
<1>3. Committed' = positions' \cup Pending(Calls)'
  BY CommittedIs DEF Committed, Pending, Entering
<1> QED
  BY <1>2, <1>3, CommittedIs

\* Admission, which checks the limit, never oversteps it by itself.
LEMMA AdmitStaysBounded ==
    ASSUME TypeOK, OvershootBounded, NEW c \in Calls, NEW s \in Symbols, NEW isExit \in BOOLEAN,
           AdmitSignal(c, s, isExit)
    PROVE  OvershootBounded'
<1> DEFINE m == Admitted(s, isExit)
           cur == CurrentState
           sent == CurrentProbeSent \/ cur = "HALF_OPEN"
           a == [Idle EXCEPT !.pc = "approved", !.symbol = s, !.exit = isExit]
<1>1. positions' = positions /\ call[c].pc = "idle"
  BY DEF AdmitSignal, bookVars, Arrives
<1>2. \/ \E v : call' = [call EXCEPT ![c] = [m EXCEPT !.pc = "publish", !.snapshot = {}, !.veto = v]]
      \/ FirstVeto(s, isExit) = NoVeto /\ call' = [call EXCEPT ![c] = m]
      \/ FirstVeto(s, isExit) = NoVeto /\ call' = [call EXCEPT ![c] = a]
  BY DEF AdmitSignal, RaiseBreach, Approve, Admitted
<1>3. ASSUME NEW v, call' = [call EXCEPT ![c] = [m EXCEPT !.pc = "publish", !.snapshot = {}, !.veto = v]]
      PROVE  OvershootBounded'
  <2> DEFINE b == [m EXCEPT !.pc = "publish", !.snapshot = {}, !.veto = v]
  <2>1. ~Entering(b)
    BY DEF Entering, Admitted
  <2> HIDE DEF b
  <2>2. call' = [call EXCEPT ![c] = b]
    BY <1>3 DEF b
  <2> QED
    BY <1>1, <2>1, <2>2, CallSettles, FewerCommitted DEF TypeOK
<1>4. ASSUME NEW b, b.symbol = s, b.exit = isExit, FirstVeto(s, isExit) = NoVeto,
             call' = [call EXCEPT ![c] = b]
      PROVE  OvershootBounded'
  <2>1. CASE isExit
    <3>1. ~Entering(b)
      BY <1>4, <2>1 DEF Entering
    <3> QED
      BY <1>1, <1>4, <3>1, CallSettles, FewerCommitted DEF TypeOK
  <2>2. CASE ~isExit
    <3> DEFINE P == positions \cup {s}
    <3>1. P \in SUBSET Symbols /\ IsFiniteSet(P)
      <4>1. P \in SUBSET Symbols
        BY DEF TypeOK, BookOK
      <4> QED
        BY <4>1, SymbolsAssumption, FS_Subset
    <3>2. Cardinality(P) <= MaxOpenPositions
      <4>1. ~MaxOpenPositionsVetoes(s, isExit)
        BY <1>4 DEF FirstVeto, NoVeto
      <4>2. ~(Cardinality(P) > MaxOpenPositions)
        BY <2>2, <4>1 DEF MaxOpenPositionsVetoes, CountWith
      <4>3. Cardinality(P) \in Nat
        BY <3>1, FS_CardinalityType
      <4> QED
        BY <4>2, <4>3, LimitAssumption
    <3>3. Committed' \subseteq P \cup Pending(Calls \ {c})
      <4>1. Committed' = positions' \cup Pending(Calls)'
        BY DEF Committed, Pending, Entering
      <4>2. \A x \in Pending(Calls)' : x \in Pending(Calls \ {c}) \/ x = s
        BY <1>4, OneCallMoves DEF TypeOK
      <4> QED
        BY <1>1, <4>1, <4>2
    <3> HIDE DEF P
    <3> QED
      BY <3>1, <3>2, <3>3, OthersAreBounded DEF OvershootBounded
  <2> QED
    BY <2>1, <2>2
<1>5. m.symbol = s /\ m.exit = isExit /\ a.symbol = s /\ a.exit = isExit
  BY DEF Admitted, Idle
<1> HIDE DEF m, a
<1> QED
  BY <1>2, <1>3, <1>4, <1>5 DEF m

\* No step oversteps the bound.
LEMMA BoundStep == TypeOK /\ OvershootBounded /\ [Next]_vars => OvershootBounded'
<1> SUFFICES ASSUME TypeOK, OvershootBounded, [Next]_vars PROVE OvershootBounded'
  OBVIOUS
<1>1. ASSUME NEW c \in Calls, NEW s \in Symbols, NEW isExit \in BOOLEAN, AdmitSignal(c, s, isExit)
      PROVE  OvershootBounded'
  BY <1>1, AdmitStaysBounded
<1>2. ASSUME NEW c \in Calls, FinishVaR(c) PROVE OvershootBounded'
  <2> DEFINE a == [Idle EXCEPT !.pc = "approved", !.symbol = call[c].symbol, !.exit = call[c].exit]
  <2>1. positions' = positions /\ call[c].pc = "var"
    BY <1>2 DEF FinishVaR, bookVars
  <2>2. CASE ReturnsVeto(call[c].snapshot) = NoVeto
    <3>1. call' = [call EXCEPT ![c] = a]
      BY <1>2, <2>2 DEF FinishVaR, Approve
    <3>2. Entering(a) => Entering(call[c]) /\ a.symbol = call[c].symbol
      BY <2>1 DEF Entering, Idle
    <3> HIDE DEF a
    <3> QED
      BY <2>1, <3>1, <3>2, CallSettles, FewerCommitted DEF TypeOK
  <2>3. CASE ReturnsVeto(call[c].snapshot) # NoVeto
    <3> DEFINE b == [call[c] EXCEPT !.pc = "publish", !.snapshot = {},
                                    !.veto = ReturnsVeto(call[c].snapshot)]
    <3>1. call' = [call EXCEPT ![c] = b]
      BY <1>2, <2>3 DEF FinishVaR, RaiseBreach
    <3>2. call[c] \in ActiveCalls
      BY <2>1 DEF TypeOK, CallsOK, Idle
    <3>3. ~Entering(b)
      BY <3>2 DEF Entering, ActiveCalls
    <3> HIDE DEF b
    <3> QED
      BY <2>1, <3>1, <3>3, CallSettles, FewerCommitted DEF TypeOK
  <2> QED
    BY <2>2, <2>3
<1>3. ~Entering(Idle)
  BY DEF Entering, Idle
<1>4. ASSUME NEW c \in Calls, VaRRaises(c) \/ FinishBreach(c) \/ Drop(c) PROVE OvershootBounded'
  <2>1. call' = [call EXCEPT ![c] = Idle] /\ positions' = positions
    BY <1>4 DEF VaRRaises, FinishBreach, Drop, bookVars
  <2> QED
    BY <1>3, <2>1, CallSettles, FewerCommitted DEF TypeOK
<1>5. ASSUME NEW c \in Calls, Fill(c) PROVE OvershootBounded'
  <2>1. call' = [call EXCEPT ![c] = Idle] /\ call[c].pc = "approved"
    BY <1>5 DEF Fill
  <2>2. positions' \subseteq positions \cup Pending(Calls)
    <3>1. ~call[c].exit => call[c].symbol \in Pending(Calls)
      BY <2>1 DEF Pending, Entering
    <3>2. positions' \subseteq positions \/ (~call[c].exit /\ positions' = positions \cup {call[c].symbol})
      BY <1>5 DEF Fill
    <3> QED
      BY <3>1, <3>2
  <2> QED
    BY <1>3, <2>1, <2>2, CallSettles, FewerCommitted DEF TypeOK
<1>6. CASE UNCHANGED <<positions, call>>
  BY <1>6 DEF OvershootBounded, Committed
<1> QED
  BY <1>1, <1>2, <1>4, <1>5, <1>6
     DEF Next, RefuseSignal, TimerElapses, ReadState, Reset, TroublesMove, SizesMove, HistoryGrows,
         vars, bookVars

\* Whatever calls are suspended between the limit and the fill, the symbols
\* open or about to be exceed the limit by the other calls at most
\* (service.py:137-164).
THEOREM OvershootIsBounded == Spec => []OvershootBounded
<1>1. Init => OvershootBounded
  <2> SUFFICES ASSUME Init PROVE OvershootBounded
    OBVIOUS
  <2>1. Committed = {}
    BY DEF Init, Committed, Idle
  <2>2. Cardinality(Calls) \in Nat /\ Cardinality(Calls) # 0
    BY CallsAssumption, FS_CardinalityType, FS_EmptySet
  <2> QED
    BY <2>1, <2>2, FS_EmptySet, LimitAssumption DEF OvershootBounded
<1> QED
  BY <1>1, BoundStep, TypeCorrect, PTL DEF Spec
=============================================================================
