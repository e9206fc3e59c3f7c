--------------------------- MODULE OrderExecution ---------------------------
(***************************************************************************)
(* ExecutionEngine.submit_order and cancel_order, the MARKET, TWAP and     *)
(* VWAP algorithms and the retries of MT5BrokerAdapter, all of             *)
(* execution_engine/service.py.                                            *)
(*                                                                         *)
(* submit_order is a coroutine: it is suspended while a broker thread      *)
(* sends a child order, during the backoff between two attempts and during *)
(* the pause between two children.  Everything between two suspensions is  *)
(* one action.  Volumes are in units small enough for every child's volume *)
(* to be a natural number; all orders have the volume Quantity.            *)
(*                                                                         *)
(* _submitted_ids and the keys of _open_orders grow together, without a    *)
(* suspension in between: a record stands for both.                        *)
(***************************************************************************)
EXTENDS Naturals, Sequences

CONSTANTS
    Callers,      \* slots for concurrent submit_order calls
    Orders,       \* order ids
    Slice,        \* volume of a TWAP slice
    NumSlices,    \* TWAP: num_slices
    VolumeBy,     \* VWAP: volume due by the end of each hour of the profile
    MaxRetries    \* MT5BrokerAdapter: max_retries

Quantity == NumSlices * Slice

ASSUME SliceAssumption == Slice \in Nat \ {0} /\ NumSlices \in Nat \ {0}
ASSUME QuantityAssumption == Quantity \in Nat \ {0} /\ Quantity >= Slice
ASSUME HoursAssumption ==
    /\ VolumeBy \in Seq(Nat \ {0})
    /\ Len(VolumeBy) >= 1 /\ VolumeBy[Len(VolumeBy)] = Quantity
    /\ \A h, k \in 1..Len(VolumeBy) : h < k => VolumeBy[h] < VolumeBy[k]
ASSUME RetriesAssumption == MaxRetries \in Nat \ {0}

VARIABLES
    records,    \* state of the OrderRecord of each order
    call,       \* the locals of each submit_order call
    traded,     \* volume the broker has executed for each order
    collected,  \* volume of the fills the algorithm has returned
    published   \* volume of the fills published on the bus

vars == <<records, call, traded, collected, published>>

OrderStates ==
    {"PENDING_NEW", "ACCEPTED", "PARTIALLY_FILLED", "FILLED", "CANCELLED", "REJECTED", "EXPIRED"}

NoRecord == "none"

\* OrderRecord.transition: the states each state may move to.
ValidTransitions ==
    [s \in OrderStates \cup {NoRecord} |->
        IF s = "PENDING_NEW" THEN {"ACCEPTED", "REJECTED"}
        ELSE IF s = "ACCEPTED" THEN {"PARTIALLY_FILLED", "FILLED", "CANCELLED", "EXPIRED"}
        ELSE IF s = "PARTIALLY_FILLED" THEN {"PARTIALLY_FILLED", "FILLED", "CANCELLED"}
        ELSE {}]

Algorithms == {"MARKET", "TWAP", "VWAP"}

NumChildren(algo) ==
    IF algo = "MARKET" THEN 1
    ELSE IF algo = "TWAP" THEN NumSlices
    ELSE Len(VolumeBy)

\* pc "sending": a broker thread runs _submit_market_sync.  "backoff": asleep
\* between two attempts.  "pausing": asleep between two children.
ActiveCalls ==
    [pc : {"sending", "backoff", "pausing"}, order : Orders, algo : Algorithms,
     child : Nat, attempt : 1..MaxRetries, remaining : 0..Quantity, fills : Nat]

Idle == [pc |-> "idle"]

Executing(o) == {c \in Callers : call[c] # Idle /\ call[c].order = o}
-----------------------------------------------------------------------------
\* VWAP: volume due by the end of the profile's hour h, and the hour's share.
VolumeDue(h) == IF h = 0 THEN 0 ELSE VolumeBy[h]

HourQty(h) == VolumeDue(h) - VolumeDue(h - 1)

\* Mutant of ChildQty: the last slice does not take what earlier ones left.
ChildQtyWithoutRemainder(m) ==
    IF m.algo = "MARKET" THEN Quantity ELSE IF m.algo = "TWAP" THEN Slice ELSE HourQty(m.child)

\* Mutant of ChildQty: the last slice sends the whole order.
ChildQtyIgnoringFills(m) ==
    IF m.algo = "TWAP" /\ m.child < NumSlices THEN Slice
    ELSE IF m.algo = "VWAP" THEN HourQty(m.child) ELSE Quantity

\* Volume of the child order under way in call m.  TWAP's last slice takes
\* what earlier slices have failed to fill, VWAP's hours carry nothing over.
ChildQty(m) ==
    IF m.algo = "MARKET" THEN Quantity
    ELSE IF m.algo = "TWAP" THEN IF m.child < NumSlices THEN Slice ELSE m.remaining
    ELSE HourQty(m.child)

\* Mutant of StateAfterRejection: the failure is not recorded.
StateKeptOnRejection(o) == records[o]

\* record.transition(REJECTED) raises where it is not allowed.
StateAfterRejection(o) ==
    IF "REJECTED" \in ValidTransitions[records[o]] THEN "REJECTED" ELSE records[o]

\* submit_order's except clause.
Reject(c) ==
    /\ records' = [records EXCEPT ![call[c].order] = StateAfterRejection(call[c].order)]
    /\ call' = [call EXCEPT ![c] = Idle]
    /\ UNCHANGED <<collected, published>>

\* The algorithm has returned.  Where the record may move to FILLED the fills
\* are published; where it may not, transition raises into the except clause.
Settle(c, fills) ==
    LET o == call[c].order
        allowed == "FILLED" \in ValidTransitions[records[o]]
    IN  /\ collected' = [collected EXCEPT ![o] = @ + fills]
        /\ records' = [records EXCEPT ![o] = IF allowed THEN "FILLED" ELSE StateAfterRejection(o)]
        /\ published' = IF allowed THEN [published EXCEPT ![o] = @ + fills] ELSE published
        /\ call' = [call EXCEPT ![c] = Idle]

\* A child order is done with: on to the pause before the next, or to the end.
ChildDone(c, remaining, fills) ==
    LET m == call[c]
    IN  IF m.child < NumChildren(m.algo)
        THEN /\ call' = [call EXCEPT ![c] = [m EXCEPT !.pc = "pausing", !.remaining = remaining,
                                                      !.fills = fills]]
             /\ UNCHANGED <<records, collected, published>>
        ELSE Settle(c, fills)
-----------------------------------------------------------------------------
Init ==
    /\ records = [o \in Orders |-> NoRecord]
    /\ call = [c \in Callers |-> Idle]
    /\ traded = [o \in Orders |-> 0]
    /\ collected = [o \in Orders |-> 0]
    /\ published = [o \in Orders |-> 0]

\* Mutant of AlreadySubmitted: only orders still open are recognised.
StillOpen(o) == records[o] = "PENDING_NEW"

AlreadySubmitted(o) == records[o] # NoRecord

\* Mutant of FirstChildren: no fallback when every hour is past.
FirstChildrenWithoutFallback(algo) == IF algo = "VWAP" THEN 1..(Len(VolumeBy) + 1) ELSE {1}

\* VWAP starts from the first hour of the profile not yet past.  With every
\* hour past it hands the order to MARKET, which "algo" then names.
FirstChildren(algo) == IF algo = "VWAP" THEN 1..Len(VolumeBy) ELSE {1}

\* submit_order up to the first broker call.
Submit(c, o) ==
    /\ call[c] = Idle
    /\ ~AlreadySubmitted(o)
    /\ records' = [records EXCEPT ![o] = "PENDING_NEW"]
    /\ \E algo \in Algorithms : \E first \in FirstChildren(algo) :
          call' = [call EXCEPT ![c] =
                      [pc |-> "sending", order |-> o, algo |-> algo, child |-> first,
                       attempt |-> 1, remaining |-> Quantity, fills |-> 0]]
    /\ UNCHANGED <<traded, collected, published>>

\* The same order id again: submit_order returns it and does nothing.
SubmitDuplicate(c, o) ==
    /\ call[c] = Idle
    /\ AlreadySubmitted(o)
    /\ UNCHANGED vars

\* order_send answers DONE (or MetaTrader5 is missing and the fill simulated).
BrokerFills(c) ==
    LET m == call[c]
        qty == ChildQty(m)
    IN  /\ m.pc = "sending"
        /\ traded' = [traded EXCEPT ![m.order] = @ + qty]
        /\ ChildDone(c, IF m.algo = "TWAP" THEN m.remaining - qty ELSE m.remaining, m.fills + qty)

\* Mutant of RetriesLeft: one attempt too many.
RetriesOffByOne(m) == m.attempt <= MaxRetries

RetriesLeft(m) == m.attempt < MaxRetries

\* order_send answers anything else, nothing, or raises; volume is what the
\* broker has executed all the same: an IOC order filled in part, a lost reply.
BrokerFails(c, volume) ==
    LET m == call[c]
    IN  /\ m.pc = "sending"
        /\ volume <= ChildQty(m)
        /\ traded' = [traded EXCEPT ![m.order] = @ + volume]
        /\ IF RetriesLeft(m)
           THEN /\ call' = [call EXCEPT ![c].pc = "backoff"]
                /\ UNCHANGED <<records, collected, published>>
           ELSE IF m.algo = "MARKET"
           THEN Reject(c)
           ELSE ChildDone(c, m.remaining, m.fills)

\* Mutant of NextAttempt: the attempts are not counted.
SameAttempt(m) == m.attempt

NextAttempt(m) == m.attempt + 1

\* 2**attempt seconds have gone by.
Retry(c) ==
    /\ call[c].pc = "backoff"
    /\ call' = [call EXCEPT ![c].pc = "sending", ![c].attempt = NextAttempt(call[c])]
    /\ UNCHANGED <<records, traded, collected, published>>

\* The interval between two slices, or the rest of the hour, has gone by.
NextChild(c) ==
    /\ call[c].pc = "pausing"
    /\ call' = [call EXCEPT ![c].pc = "sending", ![c].attempt = 1, ![c].child = @ + 1]
    /\ UNCHANGED <<records, traded, collected, published>>

\* The bus stops and cancels its consumer: CancelledError passes the except
\* clause by, and a broker thread already running finishes unobserved.
Abandon(c, volume) ==
    /\ call[c] # Idle
    /\ volume <= IF call[c].pc = "sending" THEN ChildQty(call[c]) ELSE 0
    /\ traded' = [traded EXCEPT ![call[c].order] = @ + volume]
    /\ call' = [call EXCEPT ![c] = Idle]
    /\ UNCHANGED <<records, collected, published>>

\* cancel_order: the adapter has no cancel_order, and a running algorithm is
\* not told.
Cancel(o) ==
    /\ records[o] \in {"PENDING_NEW", "ACCEPTED"}
    /\ records' = IF "CANCELLED" \in ValidTransitions[records[o]]
                  THEN [records EXCEPT ![o] = "CANCELLED"]
                  ELSE records
    /\ UNCHANGED <<call, traded, collected, published>>

Next ==
    \/ \E c \in Callers, o \in Orders : Submit(c, o) \/ SubmitDuplicate(c, o)
    \/ \E c \in Callers :
          \/ BrokerFills(c) \/ Retry(c) \/ NextChild(c)
          \/ \E volume \in 0..Quantity : BrokerFails(c, volume) \/ Abandon(c, volume)
    \/ \E o \in Orders : Cancel(o)

\* order_send returns in the end, and sleeps end.
Progress(c) ==
    \/ BrokerFills(c) \/ Retry(c) \/ NextChild(c)
    \/ \E volume \in 0..Quantity : BrokerFails(c, volume)

Spec == Init /\ [][Next]_vars

FairSpec == Spec /\ \A c \in Callers : WF_vars(Progress(c))
-----------------------------------------------------------------------------
(***************************************************************************)
(* Properties.                                                             *)
(***************************************************************************)

\* Every variable stays in its domain; a call's child exists in its schedule.
TypeOK ==
    /\ records \in [Orders -> OrderStates \cup {NoRecord}]
    /\ call \in [Callers -> ActiveCalls \cup {Idle}]
    /\ \A c \in Callers : call[c] # Idle => call[c].child \in 1..NumChildren(call[c].algo)
    /\ traded \in [Orders -> Nat]
    /\ collected \in [Orders -> Nat]
    /\ published \in [Orders -> Nat]

\* An order id is executed at most once in the life of the process: whoever
\* starts on it finds nobody working on it and nothing traded for it, however
\* the earlier submission ended (service.py:664-669).
NeverExecutedTwice ==
    [][\A c \in Callers :
          call[c] = Idle /\ call'[c] # Idle
          => Executing(call'[c].order) = {} /\ traded[call'[c].order] = 0]_vars

\* get_open_orders: the orders whose record is in no terminal state.
OpenOrders ==
    {o \in Orders : records[o] \notin {NoRecord, "FILLED", "CANCELLED", "REJECTED"}}

\* get_open_orders lists an order as long as it is executed, whatever is asked
\* of it meanwhile, and no longer once the call has ended, unless the call was
\* abandoned by a stopping bus (service.py:692-721, 744-747).
RecordTracksExecution ==
    [][\A c \in Callers :
          /\ call'[c] # Idle => call'[c].order \in OpenOrders'
          /\ call[c] # Idle /\ call'[c] = Idle
             => \/ call[c].order \notin OpenOrders'
                \/ \E volume \in 0..Quantity : Abandon(c, volume)]_vars

\* A TWAP execution whose last slice is filled has filled the whole order,
\* whichever of the earlier slices had failed (service.py:244-248).
LastSliceCompletes ==
    [][\A c \in Callers :
          /\ call[c] # Idle /\ call'[c] = Idle
          /\ call[c].algo = "TWAP"
          /\ collected'[call[c].order] > call[c].fills
          => collected'[call[c].order] = Quantity]_vars

\* A TWAP call accounts for the whole order at every moment, and no algorithm
\* returns fills beyond the order, whichever children failed (service.py:225-275,
\* 362-380) ...
FillsWithinOrder ==
    /\ \A c \in Callers :
          call[c] # Idle /\ call[c].algo = "TWAP" => call[c].fills + call[c].remaining = Quantity
    /\ \A o \in Orders : collected[o] <= Quantity

\* ... and what the broker trades in excess, because failed attempts may have
\* traded, is bounded: every slice but the last fails MaxRetries times, then
\* the whole order does.
OvertradeBounded ==
    \A o \in Orders : traded[o] <= MaxRetries * (2 * Quantity - Slice)

\* A submit_order call ends, whatever the broker answers, as long as it answers.
EveryCallEnds == \A c \in Callers : call[c] # Idle ~> call[c] = Idle
-----------------------------------------------------------------------------
(* The inductive invariant behind them.                                      *)

\* An order has one call at most, its record open and its fills not yet counted
\* as long as it has; nothing is known of an order without a record.
SingleRun ==
    /\ \A c, d \in Callers :
          call[c] # Idle /\ call[d] # Idle /\ call[c].order = call[d].order => c = d
    /\ \A c \in Callers :
          call[c] # Idle => /\ records[call[c].order] = "PENDING_NEW"
                            /\ collected[call[c].order] = 0
    /\ \A o \in Orders : records[o] = NoRecord => traded[o] = 0 /\ collected[o] = 0

\* The children a call is done with, and their volume had all gone well.
ChildrenDone(m) == IF m.pc = "pausing" THEN m.child ELSE m.child - 1

VolumeScheduled(m) ==
    IF m.algo = "MARKET" THEN 0
    ELSE IF m.algo = "TWAP" THEN ChildrenDone(m) * Slice
    ELSE VolumeDue(ChildrenDone(m))

\* No call has filled more than was scheduled so far; TWAP keeps the difference.
SliceAccounting ==
    \A c \in Callers :
        call[c] # Idle
        => /\ call[c].fills <= VolumeScheduled(call[c])
           /\ call[c].algo = "TWAP" => call[c].fills + call[c].remaining = Quantity
           /\ call[c].pc = "pausing" => call[c].child < NumChildren(call[c].algo)

AttemptsMade(m) ==
    IF m.pc = "sending" THEN m.attempt - 1 ELSE IF m.pc = "backoff" THEN m.attempt ELSE 0

\* What an order's call can have traded: MaxRetries times each child done with,
\* and the present child once for each attempt.
TradedSoFar ==
    \A c \in Callers :
        call[c] # Idle
        => /\ traded[call[c].order] <= MaxRetries * VolumeScheduled(call[c])
                                         + AttemptsMade(call[c]) * ChildQty(call[c])
           /\ call[c].pc = "backoff" => call[c].attempt < MaxRetries

IInv ==
    TypeOK /\ SingleRun /\ SliceAccounting /\ FillsWithinOrder /\ TradedSoFar /\ OvertradeBounded
-----------------------------------------------------------------------------
(* What the repository says and the code does not do.                        *)

\* "Emit FillEvents to the portfolio and risk engines" (service.py:610): when
\* the algorithm has returned fills, they have been published.
FillsEmitted == \A o \in Orders : published[o] = collected[o]

\* "TIMEOUT: verifier etat puis retry ou cancel" (docs/05:482) and "every order
\* has a client_order_id to prevent duplicates" (service.py:9): an order is
\* not traded beyond its volume.
NotTradedTwice == \A o \in Orders : traded[o] <= Quantity

=============================================================================
