------------------------ MODULE OrderExecutionProofs ------------------------
(***************************************************************************)
(* Proofs about OrderExecution: for any callers, orders, slices, profile   *)
(* and number of attempts, an order is executed once, its slices account   *)
(* for it, and what the broker trades in excess is bounded.                *)
(***************************************************************************)
EXTENDS OrderExecution, TLAPS

-----------------------------------------------------------------------------
(* Arithmetic of products, which the provers do one fact at a time.          *)

\* Multiplication distributes over addition.
LEMMA MulDist == \A r, x, y \in Nat : r * (x + y) = r * x + r * y
  BY SMT

\* Products of naturals are naturals.
LEMMA MulNat == \A r, x \in Nat : r * x \in Nat
  BY SMT

\* Multiplication is commutative.
LEMMA MulComm == \A r, x \in Nat : r * x = x * r
  BY SMT

\* Multiplication is monotonic.
LEMMA MulMono == ASSUME NEW r \in Nat, NEW x \in Nat, NEW y \in Nat, x <= y
                 PROVE  r * x <= r * y
<1>1. y - x \in Nat /\ y = x + (y - x)
  OBVIOUS
<1>2. r * y = r * x + r * (y - x)
  BY <1>1, MulDist
<1>3. QED
  BY <1>1, <1>2, MulNat

\* One addend grows from y to z, another from z to w.
LEMMA Sums ==
    \A t, v, q, x, y, z, w \in Nat :
        t <= x + y /\ v <= q /\ z = y + q /\ z <= w => t + v <= x + z /\ t + v <= x + w
  BY SMT

\* The constants.
LEMMA Constants ==
    /\ Slice \in Nat /\ Slice >= 1 /\ NumSlices \in Nat /\ NumSlices >= 1
    /\ Quantity \in Nat /\ Quantity >= Slice
    /\ MaxRetries \in Nat /\ MaxRetries >= 1
  BY SliceAssumption, QuantityAssumption, RetriesAssumption

\* The volume due grows through the profile up to the whole order.
LEMMA Profile ==
    /\ Len(VolumeBy) \in Nat /\ Len(VolumeBy) >= 1
    /\ \A h \in 0..Len(VolumeBy) : VolumeDue(h) \in Nat /\ VolumeDue(h) <= Quantity
    /\ \A h \in 1..Len(VolumeBy) : VolumeDue(h - 1) <= VolumeDue(h)
<1>1. Len(VolumeBy) \in Nat /\ Len(VolumeBy) >= 1
  BY HoursAssumption
<1>2. \A h \in 1..Len(VolumeBy) : VolumeBy[h] \in Nat
  BY HoursAssumption
<1>3. \A h \in 1..Len(VolumeBy) : VolumeBy[h] <= Quantity
  <2> SUFFICES ASSUME NEW h \in 1..Len(VolumeBy)
               PROVE  VolumeBy[h] <= Quantity
    OBVIOUS
  <2>1. CASE h = Len(VolumeBy)
    BY <2>1, <1>2, HoursAssumption, Constants
  <2>2. CASE h < Len(VolumeBy)
    BY <2>2, <1>1, <1>2, HoursAssumption, Constants
  <2>3. QED
    BY <2>1, <2>2, <1>1
<1>4. \A h \in 1..Len(VolumeBy) : h # 1 => VolumeBy[h - 1] <= VolumeBy[h]
  BY <1>1, <1>2, HoursAssumption
<1>5. QED
  BY <1>1, <1>2, <1>3, <1>4, Constants DEF VolumeDue

\* TWAP: k slices and the next one.
LEMMA Slices ==
    ASSUME NEW k \in Nat, k < NumSlices
    PROVE  /\ k * Slice \in Nat
           /\ (k + 1) * Slice = k * Slice + Slice
           /\ k * Slice + Slice <= Quantity
<1>1. k * Slice \in Nat /\ Slice * k = k * Slice /\ Slice * (k + 1) = (k + 1) * Slice
  BY Constants, MulNat, MulComm
<1>2. Slice * (k + 1) = Slice * k + Slice
  BY Constants, MulDist
<1>3. Slice * (k + 1) <= Slice * NumSlices
  BY Constants, MulMono
<1>4. Quantity = Slice * NumSlices
  BY Constants, MulComm DEF Quantity
<1>5. QED
  BY <1>1, <1>2, <1>3, <1>4, Constants

-----------------------------------------------------------------------------
(* The schedule.                                                             *)

\* What the inductive invariant says of a call m that is not Idle.
Scheduled(m) ==
    /\ m \in ActiveCalls
    /\ m.child \in 1..NumChildren(m.algo)
    /\ m.fills <= VolumeScheduled(m)
    /\ m.algo = "TWAP" => m.fills + m.remaining = Quantity

\* The child under way fits what is left of the order, and what was scheduled
\* before it plus its own volume stays under twice the order less a slice.
LEMMA Child ==
    ASSUME NEW m, Scheduled(m), m.pc # "pausing"
    PROVE  /\ ChildQty(m) \in Nat /\ VolumeScheduled(m) \in Nat
           /\ m.fills + ChildQty(m) <= Quantity
           /\ m.algo = "TWAP" => ChildQty(m) <= m.remaining
           /\ VolumeScheduled(m) + ChildQty(m) <= 2 * Quantity - Slice
           /\ m.algo = "MARKET" => m.child = 1 /\ NumChildren(m.algo) = 1
           /\ m.child < NumChildren(m.algo) /\ m.algo = "TWAP"
              => m.child * Slice = VolumeScheduled(m) + ChildQty(m)
           /\ m.child < NumChildren(m.algo) /\ m.algo = "VWAP"
              => VolumeDue(m.child) = VolumeScheduled(m) + ChildQty(m)
<1>1. /\ m.algo \in Algorithms /\ m.child \in Nat /\ m.fills \in Nat /\ m.remaining \in 0..Quantity
      /\ ChildrenDone(m) = m.child - 1
  BY DEF Scheduled, ActiveCalls, ChildrenDone
<1>2. CASE m.algo = "MARKET"
  <2>1. VolumeScheduled(m) = 0 /\ ChildQty(m) = Quantity /\ m.child = 1 /\ NumChildren(m.algo) = 1
    BY <1>1, <1>2 DEF Scheduled, VolumeScheduled, ChildQty, NumChildren
  <2>2. m.fills = 0
    BY <1>1, <2>1 DEF Scheduled
  <2>3. QED
    BY <1>1, <1>2, <2>1, <2>2, Constants
<1>3. CASE m.algo = "TWAP"
  <2> DEFINE k == m.child - 1
  <2>1. k \in Nat /\ k < NumSlices /\ m.child = k + 1 /\ m.child <= NumSlices
        /\ NumChildren(m.algo) = NumSlices
    BY <1>1, <1>3, Constants DEF Scheduled, NumChildren
  <2>2. VolumeScheduled(m) = k * Slice
    BY <1>1, <1>3 DEF VolumeScheduled
  <2>3. k * Slice \in Nat /\ (k + 1) * Slice = k * Slice + Slice /\ k * Slice + Slice <= Quantity
    BY <2>1, Slices
  <2>4. m.fills <= k * Slice /\ m.fills + m.remaining = Quantity
    BY <1>3, <2>2 DEF Scheduled
  <2>5. ChildQty(m) = IF m.child < NumSlices THEN Slice ELSE m.remaining
    BY <1>3 DEF ChildQty
  <2> HIDE DEF k
  <2>6. CASE m.child < NumSlices
    BY <1>1, <1>3, <2>1, <2>2, <2>3, <2>4, <2>5, <2>6, Constants
  <2>7. CASE ~(m.child < NumSlices)
    BY <1>1, <1>3, <2>1, <2>2, <2>3, <2>4, <2>5, <2>7, Constants
  <2>8. QED
    BY <2>6, <2>7
<1>4. CASE m.algo = "VWAP"
  <2>1. m.child \in 1..Len(VolumeBy) /\ NumChildren(m.algo) = Len(VolumeBy)
    BY <1>4 DEF Scheduled, NumChildren
  <2>2. /\ VolumeScheduled(m) = VolumeDue(m.child - 1)
        /\ ChildQty(m) = VolumeDue(m.child) - VolumeDue(m.child - 1)
    BY <1>1, <1>4 DEF VolumeScheduled, ChildQty, HourQty
  <2>3. /\ VolumeDue(m.child - 1) \in Nat /\ VolumeDue(m.child) \in Nat
        /\ VolumeDue(m.child - 1) <= VolumeDue(m.child) /\ VolumeDue(m.child) <= Quantity
    BY <2>1, Profile
  <2>4. m.fills <= VolumeDue(m.child - 1)
    BY <2>2 DEF Scheduled
  <2>5. QED
    BY <1>1, <1>4, <2>1, <2>2, <2>3, <2>4, Constants
<1>5. QED
  BY <1>1, <1>2, <1>3, <1>4 DEF Algorithms

\* One more attempt at a child adds at most its volume; MaxRetries attempts
\* add at most MaxRetries times as much.
LEMMA Attempt ==
    ASSUME NEW m, Scheduled(m), m.pc = "sending", NEW t \in Nat, NEW v \in Nat,
           v <= ChildQty(m),
           t <= MaxRetries * VolumeScheduled(m) + AttemptsMade(m) * ChildQty(m)
    PROVE  /\ t + v <= MaxRetries * VolumeScheduled(m) + m.attempt * ChildQty(m)
           /\ t + v <= MaxRetries * (VolumeScheduled(m) + ChildQty(m))
           /\ t + v <= MaxRetries * (2 * Quantity - Slice)
<1> DEFINE q == ChildQty(m)
           w == VolumeScheduled(m)
           a == m.attempt - 1
<1>1. q \in Nat /\ w \in Nat /\ w + q <= 2 * Quantity - Slice /\ w + q \in Nat
  BY Child
<1>2. a \in Nat /\ m.attempt = a + 1 /\ m.attempt \in Nat /\ m.attempt <= MaxRetries
  BY Constants DEF Scheduled, ActiveCalls
<1>3. AttemptsMade(m) = a
  BY DEF AttemptsMade
<1> HIDE DEF q, w, a
<1>4. t <= MaxRetries * w + a * q
  BY <1>3 DEF q, w
<1>5. m.attempt * q = a * q + q /\ a * q \in Nat
  <2>1. q * (a + 1) = q * a + q
    BY <1>1, <1>2, MulDist
  <2>2. QED
    BY <1>1, <1>2, <2>1, MulComm, MulNat
<1>6. m.attempt * q <= MaxRetries * q
  <2>1. q * m.attempt <= q * MaxRetries
    BY <1>1, <1>2, Constants, MulMono
  <2>2. QED
    BY <1>1, <1>2, <2>1, Constants, MulComm
<1>7. MaxRetries * (w + q) = MaxRetries * w + MaxRetries * q
  BY <1>1, Constants, MulDist
<1>8. MaxRetries * (w + q) <= MaxRetries * (2 * Quantity - Slice)
  <2>1. 2 * Quantity - Slice \in Nat
    BY Constants
  <2>2. QED
    BY <1>1, <2>1, Constants, MulMono
<1>9. /\ MaxRetries * w \in Nat /\ MaxRetries * q \in Nat /\ m.attempt * q \in Nat
      /\ MaxRetries * (w + q) \in Nat /\ MaxRetries * (2 * Quantity - Slice) \in Nat
  <2>1. 2 * Quantity - Slice \in Nat
    BY Constants
  <2>2. QED
    BY <1>1, <1>2, <2>1, Constants, MulNat
<1>10. v <= q
  BY DEF q
<1>11. /\ t + v <= MaxRetries * w + m.attempt * q
       /\ t + v <= MaxRetries * w + MaxRetries * q
  BY ONLY <1>1, <1>4, <1>5, <1>6, <1>9, <1>10, Sums, t \in Nat, v \in Nat
<1>12. t + v <= MaxRetries * (w + q) /\ t + v <= MaxRetries * (2 * Quantity - Slice)
  BY <1>7, <1>8, <1>9, <1>11
<1>13. QED
  BY <1>11, <1>12 DEF q, w

-----------------------------------------------------------------------------
(* The inductive invariant.                                                  *)

\* An active call is not Idle, and is what its pc says.
LEMMA Active ==
    ASSUME TypeOK, NEW c \in Callers
    PROVE  /\ call[c].pc \in {"idle", "sending", "backoff", "pausing"}
           /\ call[c] # Idle <=> call[c].pc # "idle"
           /\ call[c] # Idle => call[c] \in ActiveCalls /\ call[c].order \in Orders
  BY DEF TypeOK, ActiveCalls, Idle

\* Initially nothing has been submitted.
LEMMA InitInvariant == Init => IInv
<1> SUFFICES ASSUME Init PROVE IInv
  OBVIOUS
<1>1. \A c \in Callers : call[c] = Idle
  BY DEF Init
<1>2. TypeOK
  BY <1>1 DEF Init, TypeOK
<1>3. SingleRun /\ SliceAccounting /\ TradedSoFar
  BY <1>1 DEF Init, SingleRun, SliceAccounting, TradedSoFar
<1>4. MaxRetries * (2 * Quantity - Slice) \in Nat
  <2>1. 2 * Quantity - Slice \in Nat
    BY Constants
  <2>2. QED
    BY <2>1, Constants, MulNat
<1>5. FillsWithinOrder /\ OvertradeBounded
  BY <1>1, <1>4, Constants DEF Init, FillsWithinOrder, OvertradeBounded
<1>6. QED
  BY <1>2, <1>3, <1>5 DEF IInv

\* The step changes the call of c and the figures of o alone, within their types.
Confined(c, o) ==
    /\ call' \in [Callers -> ActiveCalls \cup {Idle}]
    /\ \A d \in Callers : d # c => call'[d] = call[d]
    /\ traded' \in [Orders -> Nat] /\ collected' \in [Orders -> Nat]
    /\ records' \in [Orders -> OrderStates \cup {NoRecord}] /\ records'[o] # NoRecord
    /\ published' \in [Orders -> Nat]
    /\ \A p \in Orders : p # o => /\ traded'[p] = traded[p] /\ collected'[p] = collected[p]
                                  /\ records'[p] = records[p]

\* What the invariant asks of the call of c, with the figures of its order.
CallAllowed(c) ==
    call[c] # Idle
    => /\ records[call[c].order] = "PENDING_NEW" /\ collected[call[c].order] = 0
       /\ Scheduled(call[c])
       /\ call[c].pc = "pausing" => call[c].child < NumChildren(call[c].algo)
       /\ call[c].pc = "backoff" => call[c].attempt < MaxRetries
       /\ traded[call[c].order] <= MaxRetries * VolumeScheduled(call[c])
                                     + AttemptsMade(call[c]) * ChildQty(call[c])

\* A step that turns the call of one caller and the figures of one order into
\* ones the invariant allows, and no other, preserves the invariant.
LEMMA Frame ==
    ASSUME IInv, NEW c \in Callers, NEW o \in Orders,
           \A d \in Callers : d # c /\ call[d] # Idle => call[d].order # o,
           Confined(c, o), CallAllowed(c)',
           call'[c] # Idle => call'[c].order = o,
           collected'[o] <= Quantity, traded'[o] <= MaxRetries * (2 * Quantity - Slice)
    PROVE  IInv'
<1>1. TypeOK /\ \A d \in Callers : call[d] # Idle => call[d].order \in Orders
  BY Active DEF IInv
<1>2. TypeOK'
  <2>1. \A d \in Callers : call'[d] # Idle => call'[d].child \in 1..NumChildren(call'[d].algo)
    BY <1>1 DEF TypeOK, Scheduled, Confined, CallAllowed
  <2>2. QED
    BY <1>1, <2>1 DEF TypeOK, Confined
<1>3. SingleRun'
  BY <1>1 DEF IInv, SingleRun, Confined, CallAllowed
<1>4. SliceAccounting'
  BY DEF IInv, SliceAccounting, Scheduled, Confined, CallAllowed
<1>5. FillsWithinOrder'
  BY DEF IInv, FillsWithinOrder, Scheduled, Confined, CallAllowed
<1>6. TradedSoFar'
  BY <1>1 DEF IInv, TradedSoFar, Confined, CallAllowed
<1>7. OvertradeBounded'
  BY DEF IInv, OvertradeBounded, Confined
<1>8. QED
  BY <1>2, <1>3, <1>4, <1>5, <1>6, <1>7 DEF IInv

\* What the invariant gives for a caller whose call is not Idle.
LEMMA Running ==
    ASSUME IInv, NEW c \in Callers, call[c] # Idle
    PROVE  /\ Scheduled(call[c]) /\ call[c].order \in Orders
           /\ \A d \in Callers : d # c /\ call[d] # Idle => call[d].order # call[c].order
           /\ records[call[c].order] = "PENDING_NEW" /\ collected[call[c].order] = 0
           /\ traded[call[c].order] \in Nat
           /\ traded[call[c].order] <= MaxRetries * VolumeScheduled(call[c])
                                         + AttemptsMade(call[c]) * ChildQty(call[c])
           /\ traded[call[c].order] <= MaxRetries * (2 * Quantity - Slice)
<1>1. TypeOK
  BY DEF IInv
<1>2. call[c] \in ActiveCalls /\ call[c].order \in Orders
  BY <1>1, Active
<1>3. Scheduled(call[c])
  BY <1>1, <1>2 DEF Scheduled, IInv, TypeOK, SliceAccounting, FillsWithinOrder
<1>4. QED
  BY <1>1, <1>2, <1>3 DEF IInv, SingleRun, TradedSoFar, OvertradeBounded, TypeOK

\* From PENDING_NEW a record may be rejected, and neither filled nor cancelled.
LEMMA FromPendingNew ==
    /\ "REJECTED" \in ValidTransitions["PENDING_NEW"]
    /\ "FILLED" \notin ValidTransitions["PENDING_NEW"]
    /\ "CANCELLED" \notin ValidTransitions["PENDING_NEW"]
  BY DEF ValidTransitions, OrderStates

\* An ending call leaves a record and no more than the order's volume in fills.
LEMMA EndStep ==
    ASSUME IInv, NEW c \in Callers, call[c] # Idle,
           Confined(c, call[c].order), call'[c] = Idle,
           collected'[call[c].order] <= Quantity,
           traded'[call[c].order] <= MaxRetries * (2 * Quantity - Slice)
    PROVE  IInv'
<1>1. call[c].order \in Orders /\ \A d \in Callers : d # c /\ call[d] # Idle => call[d].order # call[c].order
  BY Running
<1>2. CallAllowed(c)'
  BY DEF CallAllowed
<1>3. QED
  BY <1>1, <1>2, Frame

\* The figures of the call's order after a step that lets it go on.
GoesOn(c) ==
    /\ call'[c] \in ActiveCalls /\ call'[c].order = call[c].order
    /\ call' = [call EXCEPT ![c] = call'[c]]
    /\ traded'[call[c].order] \in Nat
    /\ traded' = [traded EXCEPT ![call[c].order] = traded'[call[c].order]]
    /\ UNCHANGED <<records, collected, published>>
    /\ Scheduled(call'[c])
    /\ call'[c].pc = "pausing" => call'[c].child < NumChildren(call'[c].algo)
    /\ call'[c].pc = "backoff" => call'[c].attempt < MaxRetries
    /\ traded'[call[c].order] <= MaxRetries * VolumeScheduled(call'[c])
                                   + AttemptsMade(call'[c]) * ChildQty(call'[c])
    /\ traded'[call[c].order] <= MaxRetries * (2 * Quantity - Slice)

\* A call that goes on keeps its order, its record and its unreported fills.
LEMMA GoOnStep ==
    ASSUME IInv, NEW c \in Callers, call[c] # Idle, GoesOn(c)
    PROVE  IInv'
<1> DEFINE o == call[c].order
<1>1. /\ o \in Orders /\ records[o] = "PENDING_NEW" /\ collected[o] = 0
      /\ \A d \in Callers : d # c /\ call[d] # Idle => call[d].order # o
  BY Running
<1>2. Confined(c, o)
  BY <1>1 DEF GoesOn, IInv, TypeOK, Confined, NoRecord
<1>3. CallAllowed(c)'
  BY <1>1 DEF GoesOn, CallAllowed
<1>4. collected'[o] <= Quantity
  BY <1>1, Constants DEF GoesOn
<1>5. call'[c].order = o /\ traded'[o] <= MaxRetries * (2 * Quantity - Slice)
  BY DEF GoesOn
<1> HIDE DEF o
<1>6. QED
  BY <1>1, <1>2, <1>3, <1>4, <1>5, Frame

\* The end of a child order, whatever it filled.
LEMMA ChildDoneStep ==
    ASSUME IInv, NEW c \in Callers, call[c].pc = "sending",
           NEW v \in Nat, v <= ChildQty(call[c]),
           NEW remaining \in 0..Quantity, NEW fills \in Nat,
           fills <= Quantity, fills <= VolumeScheduled(call[c]) + ChildQty(call[c]),
           call[c].algo = "TWAP" => fills + remaining = Quantity,
           traded' = [traded EXCEPT ![call[c].order] = @ + v],
           ChildDone(c, remaining, fills)
    PROVE  IInv'
<1> DEFINE m == call[c]
           o == m.order
           t == traded[o] + v
           n == [m EXCEPT !.pc = "pausing", !.remaining = remaining, !.fills = fills]
<1>1. TypeOK /\ m # Idle
  BY Active DEF IInv
<1>2. /\ Scheduled(m) /\ o \in Orders /\ records[o] = "PENDING_NEW" /\ collected[o] = 0
      /\ traded[o] \in Nat
      /\ traded[o] <= MaxRetries * VolumeScheduled(m) + AttemptsMade(m) * ChildQty(m)
  BY <1>1, Running
<1>3. t <= MaxRetries * (VolumeScheduled(m) + ChildQty(m)) /\ t <= MaxRetries * (2 * Quantity - Slice)
      /\ t \in Nat
  BY <1>2, Attempt
<1>4. /\ ChildQty(m) \in Nat /\ VolumeScheduled(m) \in Nat
      /\ m.algo = "MARKET" => m.child = 1 /\ NumChildren(m.algo) = 1
      /\ m.child < NumChildren(m.algo) /\ m.algo = "TWAP"
         => m.child * Slice = VolumeScheduled(m) + ChildQty(m)
      /\ m.child < NumChildren(m.algo) /\ m.algo = "VWAP"
         => VolumeDue(m.child) = VolumeScheduled(m) + ChildQty(m)
  BY <1>2, Child
<1>5. CASE m.child < NumChildren(m.algo)
  <2>1. call' = [call EXCEPT ![c] = n] /\ UNCHANGED <<records, collected, published>>
    BY <1>5 DEF ChildDone
  <2>2. /\ m \in ActiveCalls /\ n \in ActiveCalls /\ n # Idle
        /\ n.pc = "pausing" /\ n.order = o /\ n.algo = m.algo /\ n.child = m.child
        /\ n.fills = fills /\ n.remaining = remaining
    BY <1>2 DEF Scheduled, ActiveCalls, Idle
  <2>3. m.algo \in {"TWAP", "VWAP"}
    BY <1>2, <1>4, <1>5 DEF Scheduled, ActiveCalls, Algorithms
  <2> HIDE DEF n
  <2>4. VolumeScheduled(n) = VolumeScheduled(m) + ChildQty(m)
    BY <1>4, <1>5, <2>2, <2>3 DEF VolumeScheduled, ChildrenDone
  <2>5. Scheduled(n)
    BY <1>2, <2>2, <2>4 DEF Scheduled
  <2>6. ChildQty(n) = ChildQty(m)
    BY <1>4, <1>5, <2>2, <2>3 DEF ChildQty, NumChildren
  <2>7. AttemptsMade(n) * ChildQty(n) = 0
    <3>1. AttemptsMade(n) = 0
      BY <2>2 DEF AttemptsMade
    <3>2. QED
      BY <1>4, <2>6, <3>1
  <2>8. MaxRetries * VolumeScheduled(n) \in Nat
    BY <1>4, <2>4, Constants, MulNat
  <2>9. t <= MaxRetries * VolumeScheduled(n) + AttemptsMade(n) * ChildQty(n)
    BY <1>3, <2>4, <2>7, <2>8
  <2>10. traded' = [traded EXCEPT ![o] = t]
    BY DEF IInv, TypeOK
  <2>11. call'[c] = n /\ traded'[o] = t
    BY <1>2, <2>1, <2>10 DEF IInv, TypeOK
  <2> HIDE DEF t
  <2>12. GoesOn(c)
    <3>1. call' = [call EXCEPT ![c] = call'[c]] /\ traded' = [traded EXCEPT ![o] = traded'[o]]
      BY <2>1, <2>10, <2>11
    <3>2. call'[c] \in ActiveCalls /\ call'[c].order = o /\ Scheduled(call'[c]) /\ traded'[o] \in Nat
      BY <1>3, <2>2, <2>5, <2>11
    <3>3. call'[c].pc = "pausing" /\ call'[c].child < NumChildren(call'[c].algo)
      BY <1>5, <2>2, <2>11
    <3>4. traded'[o] <= MaxRetries * VolumeScheduled(call'[c]) + AttemptsMade(call'[c]) * ChildQty(call'[c])
      BY <2>9, <2>11
    <3>5. traded'[o] <= MaxRetries * (2 * Quantity - Slice)
      BY <1>3, <2>11
    <3>6. QED
      BY <2>1, <3>1, <3>2, <3>3, <3>4, <3>5 DEF GoesOn
  <2>13. QED
    BY <1>1, <2>12, GoOnStep
<1>6. CASE ~(m.child < NumChildren(m.algo))
  <2>1. Settle(c, fills)
    BY <1>6 DEF ChildDone
  <2>2. /\ call' = [call EXCEPT ![c] = Idle] /\ published' = published
        /\ records' = [records EXCEPT ![o] = "REJECTED"]
        /\ collected' = [collected EXCEPT ![o] = fills]
    <3>1. "FILLED" \notin ValidTransitions[records[o]] /\ StateAfterRejection(o) = "REJECTED"
      BY <1>2, FromPendingNew DEF StateAfterRejection
    <3>2. collected[o] + fills = fills
      BY <1>2
    <3> HIDE DEF o, m
    <3>3. /\ call' = [call EXCEPT ![c] = Idle] /\ published' = published
          /\ records' = [records EXCEPT ![o] = "REJECTED"]
          /\ collected' = [collected EXCEPT ![o] = collected[o] + fills]
      BY <2>1, <3>1 DEF Settle, o, m
    <3>4. QED
      BY <3>2, <3>3
  <2>3. traded' = [traded EXCEPT ![o] = t]
    BY DEF IInv, TypeOK
  <2>4. Confined(c, o)
    BY <1>2, <1>3, <2>2, <2>3 DEF Confined, IInv, TypeOK, NoRecord, OrderStates
  <2>5. call'[c] = Idle /\ collected'[o] <= Quantity /\ traded'[o] <= MaxRetries * (2 * Quantity - Slice)
    BY <1>2, <1>3, <2>2, <2>3 DEF IInv, TypeOK
  <2>6. QED
    BY <1>1, <2>4, <2>5, EndStep
<1>7. QED
  BY <1>5, <1>6

-----------------------------------------------------------------------------
(* One lemma for each action.                                                *)

\* A call begins: the order has no record, so nobody works on it.
LEMMA SubmitStep ==
    ASSUME IInv, NEW c \in Callers, NEW o \in Orders, Submit(c, o)
    PROVE  IInv'
<1>1. PICK algo \in Algorithms : \E first \in FirstChildren(algo) :
         call' = [call EXCEPT ![c] =
                     [pc |-> "sending", order |-> o, algo |-> algo, child |-> first,
                      attempt |-> 1, remaining |-> Quantity, fills |-> 0]]
  BY DEF Submit
<1>0. PICK first \in FirstChildren(algo) :
         call' = [call EXCEPT ![c] =
                     [pc |-> "sending", order |-> o, algo |-> algo, child |-> first,
                      attempt |-> 1, remaining |-> Quantity, fills |-> 0]]
  BY <1>1
<1> DEFINE n == [pc |-> "sending", order |-> o, algo |-> algo, child |-> first,
                 attempt |-> 1, remaining |-> Quantity, fills |-> 0]
<1>2. /\ records[o] = NoRecord /\ traded[o] = 0 /\ collected[o] = 0
      /\ records' = [records EXCEPT ![o] = "PENDING_NEW"]
      /\ UNCHANGED <<traded, collected, published>>
  BY DEF Submit, AlreadySubmitted, IInv, SingleRun
<1>3. \A d \in Callers : call[d] # Idle => call[d].order # o
  BY <1>2 DEF IInv, SingleRun, NoRecord
<1>4. n \in ActiveCalls /\ n # Idle /\ n.pc = "sending" /\ n.order = o /\ n.algo = algo
      /\ n.child = first /\ n.attempt = 1 /\ n.remaining = Quantity /\ n.fills = 0
  BY Constants, Profile DEF ActiveCalls, Idle, FirstChildren
<1>5. first \in 1..NumChildren(algo) /\ (algo # "VWAP" => first = 1)
  BY Constants, Profile DEF FirstChildren, NumChildren, Algorithms
<1> HIDE DEF n
<1>6. VolumeScheduled(n) \in Nat /\ ChildQty(n) \in Nat
  <2>1. ChildrenDone(n) = first - 1
    BY <1>4 DEF ChildrenDone
  <2>2. CASE algo = "VWAP"
    <3>1. VolumeDue(first - 1) \in Nat /\ VolumeDue(first) \in Nat /\ VolumeDue(first - 1) <= VolumeDue(first)
      BY <1>5, <2>2, Profile DEF NumChildren
    <3>2. QED
      BY <1>4, <2>1, <2>2, <3>1 DEF VolumeScheduled, ChildQty, HourQty
  <2>3. CASE algo # "VWAP"
    <3>1. ChildrenDone(n) = 0
      BY <1>5, <2>1, <2>3
    <3>2. 0 * Slice = 0
      BY Constants
    <3>3. QED
      BY <1>4, <2>3, <3>1, <3>2, Constants DEF VolumeScheduled, ChildQty, Algorithms
  <2>4. QED
    BY <2>2, <2>3
<1>7. Scheduled(n)
  BY <1>4, <1>5, <1>6, Constants DEF Scheduled
<1>8. 0 <= MaxRetries * VolumeScheduled(n) + AttemptsMade(n) * ChildQty(n)
  <2>1. AttemptsMade(n) = 0
    BY <1>4 DEF AttemptsMade
  <2>2. AttemptsMade(n) * ChildQty(n) = 0 /\ MaxRetries * VolumeScheduled(n) \in Nat
    BY <1>6, <2>1, Constants, MulNat
  <2>3. QED
    BY <2>2
<1>9. call' = [call EXCEPT ![c] = n]
  BY <1>0 DEF n
<1>10. call'[c] = n /\ records'[o] = "PENDING_NEW" /\ traded'[o] = 0 /\ collected'[o] = 0
  BY <1>2, <1>9 DEF IInv, TypeOK
<1>11. Confined(c, o)
  BY <1>2, <1>4, <1>9 DEF Confined, IInv, TypeOK, OrderStates, NoRecord
<1>12. CallAllowed(c)'
  BY <1>4, <1>7, <1>8, <1>10 DEF CallAllowed
<1>13. MaxRetries * (2 * Quantity - Slice) \in Nat
  <2>1. 2 * Quantity - Slice \in Nat
    BY Constants
  <2>2. QED
    BY <2>1, Constants, MulNat
<1>14. collected'[o] <= Quantity /\ traded'[o] <= MaxRetries * (2 * Quantity - Slice)
       /\ call'[c].order = o
  BY <1>4, <1>10, <1>13, Constants
<1>15. QED
  BY <1>3, <1>11, <1>12, <1>14, Frame

\* The broker fills the child order.
LEMMA BrokerFillsStep ==
    ASSUME IInv, NEW c \in Callers, BrokerFills(c)
    PROVE  IInv'
<1> DEFINE m == call[c]
           q == ChildQty(m)
           r == IF m.algo = "TWAP" THEN m.remaining - q ELSE m.remaining
<1>1. m.pc = "sending" /\ traded' = [traded EXCEPT ![m.order] = @ + q] /\ ChildDone(c, r, m.fills + q)
  BY DEF BrokerFills
<1>2. Scheduled(m)
  BY <1>1, Active, Running DEF IInv
<1>3. /\ q \in Nat /\ VolumeScheduled(m) \in Nat /\ m.fills + q <= Quantity
      /\ m.algo = "TWAP" => q <= m.remaining
  BY <1>1, <1>2, Child
<1>4. m.fills \in Nat /\ m.remaining \in 0..Quantity /\ m.fills <= VolumeScheduled(m)
      /\ (m.algo = "TWAP" => m.fills + m.remaining = Quantity)
  BY <1>2 DEF Scheduled, ActiveCalls
<1> HIDE DEF m, q
<1>5. /\ r \in 0..Quantity /\ m.fills + q \in Nat /\ m.fills + q <= VolumeScheduled(m) + q
      /\ m.algo = "TWAP" => (m.fills + q) + r = Quantity
  BY <1>3, <1>4, Constants
<1> HIDE DEF r
<1> DEFINE f == m.fills + q
<1>6. /\ traded' = [traded EXCEPT ![m.order] = @ + q] /\ ChildDone(c, r, f)
      /\ f \in Nat /\ f <= Quantity /\ f <= VolumeScheduled(m) + q
      /\ m.algo = "TWAP" => f + r = Quantity
  BY <1>1, <1>3, <1>5
<1> HIDE DEF f
<1>7. call[c].pc = "sending" /\ q <= ChildQty(call[c])
  BY <1>1, <1>3 DEF m, q
<1>8. QED
  BY <1>3, <1>5, <1>6, <1>7, ChildDoneStep DEF m, q

\* The broker does not fill the child order, or says so.
LEMMA BrokerFailsStep ==
    ASSUME IInv, NEW c \in Callers, NEW v \in 0..Quantity, BrokerFails(c, v)
    PROVE  IInv'
<1> DEFINE m == call[c]
           o == m.order
           t == traded[o] + v
<1>1. m.pc = "sending" /\ v \in Nat /\ v <= ChildQty(m) /\ traded' = [traded EXCEPT ![o] = @ + v]
  BY Constants DEF BrokerFails
<1>2. m # Idle /\ m \in ActiveCalls
  BY <1>1, Active DEF IInv
<1>3. /\ Scheduled(m) /\ o \in Orders /\ traded[o] \in Nat
      /\ records[o] = "PENDING_NEW" /\ collected[o] = 0
      /\ traded[o] <= MaxRetries * VolumeScheduled(m) + AttemptsMade(m) * ChildQty(m)
  BY <1>2, Running
<1>4. /\ t <= MaxRetries * VolumeScheduled(m) + m.attempt * ChildQty(m)
      /\ t <= MaxRetries * (2 * Quantity - Slice) /\ t \in Nat
  BY <1>1, <1>3, Attempt
<1>5. /\ ChildQty(m) \in Nat /\ VolumeScheduled(m) \in Nat /\ m.fills + ChildQty(m) <= Quantity
  BY <1>1, <1>3, Child
<1>6. m.fills \in Nat /\ m.remaining \in 0..Quantity /\ m.fills <= VolumeScheduled(m)
      /\ (m.algo = "TWAP" => m.fills + m.remaining = Quantity)
  BY <1>3 DEF Scheduled, ActiveCalls
<1>7. traded' = [traded EXCEPT ![o] = t] /\ traded'[o] = t
  BY <1>1, <1>3 DEF IInv, TypeOK
<1>8. CASE RetriesLeft(m)
  <2> DEFINE n == [m EXCEPT !.pc = "backoff"]
  <2>1. call' = [call EXCEPT ![c] = n] /\ UNCHANGED <<records, collected, published>>
    BY <1>8 DEF BrokerFails
  <2>2. /\ n \in ActiveCalls /\ n.pc = "backoff" /\ n.order = o /\ n.algo = m.algo
        /\ n.child = m.child /\ n.attempt = m.attempt /\ n.remaining = m.remaining
        /\ n.fills = m.fills /\ m.attempt < MaxRetries
    BY <1>2, <1>8 DEF ActiveCalls, RetriesLeft
  <2> HIDE DEF n
  <2>3. VolumeScheduled(n) = VolumeScheduled(m) /\ ChildQty(n) = ChildQty(m) /\ AttemptsMade(n) = m.attempt
    BY <1>1, <2>2 DEF VolumeScheduled, ChildrenDone, ChildQty, AttemptsMade
  <2>4. Scheduled(n)
    BY <1>3, <2>2, <2>3 DEF Scheduled
  <2>5. call'[c] = n
    BY <2>1 DEF IInv, TypeOK
  <2> HIDE DEF t
  <2>6. call' = [call EXCEPT ![c] = call'[c]] /\ traded' = [traded EXCEPT ![o] = traded'[o]]
    BY <2>1, <2>5, <1>7
  <2>7. traded'[o] <= MaxRetries * VolumeScheduled(call'[c]) + AttemptsMade(call'[c]) * ChildQty(call'[c])
    BY <1>4, <1>7, <2>3, <2>5
  <2>8. call'[c] \in ActiveCalls /\ call'[c].order = o /\ Scheduled(call'[c]) /\ traded'[o] \in Nat
        /\ traded'[o] <= MaxRetries * (2 * Quantity - Slice)
    BY <1>4, <1>7, <2>2, <2>4, <2>5
  <2>9. call'[c].pc = "backoff" /\ call'[c].attempt < MaxRetries
    BY <2>2, <2>5
  <2>10. GoesOn(c)
    BY <2>1, <2>6, <2>7, <2>8, <2>9 DEF GoesOn
  <2>11. QED
    BY <1>2, <2>10, GoOnStep
<1>9. CASE ~RetriesLeft(m) /\ m.algo = "MARKET"
  <2>1. Reject(c)
    BY <1>9 DEF BrokerFails
  <2>2. StateAfterRejection(o) = "REJECTED"
    BY <1>3, FromPendingNew DEF StateAfterRejection
  <2>3. /\ call' = [call EXCEPT ![c] = Idle] /\ UNCHANGED <<collected, published>>
        /\ records' = [records EXCEPT ![o] = "REJECTED"]
    BY <2>1, <2>2 DEF Reject
  <2>4. Confined(c, o)
    BY <1>3, <1>4, <1>7, <2>3 DEF Confined, IInv, TypeOK, NoRecord, OrderStates
  <2>5. call'[c] = Idle /\ collected'[o] <= Quantity /\ traded'[o] <= MaxRetries * (2 * Quantity - Slice)
    BY <1>3, <1>4, <1>7, <2>3, Constants DEF IInv, TypeOK
  <2>6. QED
    BY <1>2, <2>4, <2>5, EndStep
<1>10. CASE ~RetriesLeft(m) /\ m.algo # "MARKET"
  <2>1. ChildDone(c, m.remaining, m.fills)
    BY <1>10 DEF BrokerFails
  <2>2. m.fills <= Quantity /\ m.fills <= VolumeScheduled(m) + ChildQty(m)
    BY <1>5, <1>6, Constants
  <2>3. QED
    BY <1>1, <1>6, <2>1, <2>2, ChildDoneStep
<1>11. QED
  BY <1>8, <1>9, <1>10

\* The next attempt at the same child.
LEMMA RetryStep ==
    ASSUME IInv, NEW c \in Callers, Retry(c)
    PROVE  IInv'
<1> DEFINE m == call[c]
           o == m.order
           n == [m EXCEPT !.pc = "sending", !.attempt = NextAttempt(m)]
<1>1. m.pc = "backoff" /\ call' = [call EXCEPT ![c] = n] /\ UNCHANGED <<records, traded, collected, published>>
  BY DEF Retry
<1>2. m # Idle /\ m \in ActiveCalls
  BY <1>1, Active DEF IInv
<1>3. /\ Scheduled(m) /\ o \in Orders /\ traded[o] \in Nat
      /\ traded[o] <= MaxRetries * VolumeScheduled(m) + AttemptsMade(m) * ChildQty(m)
      /\ traded[o] <= MaxRetries * (2 * Quantity - Slice)
  BY <1>2, Running
<1>4. m.attempt \in Nat /\ m.attempt < MaxRetries /\ m.attempt + 1 \in 1..MaxRetries
  BY <1>1, <1>2, Constants DEF IInv, TradedSoFar, ActiveCalls
<1>5. /\ n \in ActiveCalls /\ n.pc = "sending" /\ n.order = o /\ n.algo = m.algo
      /\ n.child = m.child /\ n.attempt = m.attempt + 1 /\ n.remaining = m.remaining
      /\ n.fills = m.fills
  BY <1>2, <1>4 DEF ActiveCalls, NextAttempt
<1> HIDE DEF n
<1>6. VolumeScheduled(n) = VolumeScheduled(m) /\ ChildQty(n) = ChildQty(m) /\ AttemptsMade(n) = AttemptsMade(m)
  BY <1>1, <1>4, <1>5 DEF VolumeScheduled, ChildrenDone, ChildQty, AttemptsMade
<1>7. Scheduled(n)
  BY <1>3, <1>5, <1>6 DEF Scheduled
<1>8. call'[c] = n /\ traded'[o] = traded[o] /\ traded' = [traded EXCEPT ![o] = traded[o]]
  BY <1>1, <1>3 DEF IInv, TypeOK
<1>9. call' = [call EXCEPT ![c] = call'[c]] /\ traded' = [traded EXCEPT ![o] = traded'[o]]
  BY <1>1, <1>8
<1>10. traded'[o] <= MaxRetries * VolumeScheduled(call'[c]) + AttemptsMade(call'[c]) * ChildQty(call'[c])
  BY <1>3, <1>6, <1>8
<1>11. call'[c] \in ActiveCalls /\ call'[c].order = o /\ Scheduled(call'[c]) /\ traded'[o] \in Nat
       /\ traded'[o] <= MaxRetries * (2 * Quantity - Slice) /\ call'[c].pc = "sending"
  BY <1>3, <1>5, <1>7, <1>8
<1>12. GoesOn(c)
  BY <1>1, <1>9, <1>10, <1>11 DEF GoesOn
<1>13. QED
  BY <1>2, <1>12, GoOnStep

\* The next child.
LEMMA NextChildStep ==
    ASSUME IInv, NEW c \in Callers, NextChild(c)
    PROVE  IInv'
<1> DEFINE m == call[c]
           o == m.order
           n == [m EXCEPT !.pc = "sending", !.attempt = 1, !.child = @ + 1]
<1>1. m.pc = "pausing" /\ call' = [call EXCEPT ![c] = n] /\ UNCHANGED <<records, traded, collected, published>>
  BY DEF NextChild
<1>2. m # Idle /\ m \in ActiveCalls /\ m.child < NumChildren(m.algo)
  BY <1>1, Active DEF IInv, SliceAccounting
<1>3. /\ Scheduled(m) /\ o \in Orders /\ traded[o] \in Nat
      /\ traded[o] <= MaxRetries * VolumeScheduled(m) + AttemptsMade(m) * ChildQty(m)
      /\ traded[o] <= MaxRetries * (2 * Quantity - Slice)
  BY <1>2, Running
<1>4. /\ n \in ActiveCalls /\ n.pc = "sending" /\ n.order = o /\ n.algo = m.algo
      /\ n.child = m.child + 1 /\ n.attempt = 1 /\ n.remaining = m.remaining /\ n.fills = m.fills
  <2> DEFINE p == [m EXCEPT !.pc = "sending", !.attempt = 1]
  <2>1. 1 \in 1..MaxRetries /\ m.child + 1 \in Nat
    BY <1>2, Constants DEF ActiveCalls
  <2>2. /\ p \in ActiveCalls /\ p.pc = "sending" /\ p.order = o /\ p.algo = m.algo
        /\ p.attempt = 1 /\ p.remaining = m.remaining /\ p.fills = m.fills
    BY <1>2, <2>1 DEF ActiveCalls
  <2>3. n = [p EXCEPT !.child = m.child + 1]
    OBVIOUS
  <2> HIDE DEF p, n
  <2>4. QED
    BY <2>1, <2>2, <2>3 DEF ActiveCalls
<1>5. NumChildren(m.algo) \in Nat /\ m.child \in Nat
  BY <1>2, Constants, Profile DEF NumChildren, ActiveCalls
<1> HIDE DEF n
<1>6. ChildrenDone(n) = m.child /\ ChildrenDone(m) = m.child
  BY <1>1, <1>4, <1>5 DEF ChildrenDone
<1>7. VolumeScheduled(n) = VolumeScheduled(m)
  BY <1>4, <1>6 DEF VolumeScheduled
<1>8. Scheduled(n)
  BY <1>2, <1>3, <1>4, <1>5, <1>7 DEF Scheduled
<1>9. ChildQty(n) \in Nat /\ VolumeScheduled(n) \in Nat
  BY <1>4, <1>8, Child
<1>10. AttemptsMade(n) = 0 /\ AttemptsMade(m) = 0
  BY <1>1, <1>4 DEF AttemptsMade
<1>11. traded[o] <= MaxRetries * VolumeScheduled(n) + AttemptsMade(n) * ChildQty(n)
  <2>1. ChildQty(m) \in Nat
    <3>1. CASE m.algo = "VWAP"
      <4>1. VolumeDue(m.child) \in Nat /\ VolumeDue(m.child - 1) \in Nat /\ VolumeDue(m.child - 1) <= VolumeDue(m.child)
        BY <1>3, <3>1, Profile DEF Scheduled, NumChildren
      <4>2. QED
        BY <3>1, <4>1 DEF ChildQty, HourQty
    <3>2. CASE m.algo # "VWAP"
      BY <1>2, <3>2, Constants DEF ChildQty, ActiveCalls, Algorithms
    <3>3. QED
      BY <3>1, <3>2
  <2>2. AttemptsMade(m) * ChildQty(m) = 0 /\ AttemptsMade(n) * ChildQty(n) = 0
    BY <1>9, <1>10, <2>1
  <2>3. QED
    BY <1>3, <1>7, <2>2
<1>12. call'[c] = n /\ traded'[o] = traded[o] /\ traded' = [traded EXCEPT ![o] = traded[o]]
  BY <1>1, <1>3 DEF IInv, TypeOK
<1>13. call' = [call EXCEPT ![c] = call'[c]] /\ traded' = [traded EXCEPT ![o] = traded'[o]]
  BY <1>1, <1>12
<1>14. traded'[o] <= MaxRetries * VolumeScheduled(call'[c]) + AttemptsMade(call'[c]) * ChildQty(call'[c])
  BY <1>11, <1>12
<1>15. call'[c] \in ActiveCalls /\ call'[c].order = o /\ Scheduled(call'[c]) /\ traded'[o] \in Nat
       /\ traded'[o] <= MaxRetries * (2 * Quantity - Slice) /\ call'[c].pc = "sending"
  BY <1>3, <1>4, <1>8, <1>12
<1>16. GoesOn(c)
  BY <1>1, <1>13, <1>14, <1>15 DEF GoesOn
<1>17. QED
  BY <1>2, <1>16, GoOnStep

\* A call that dies leaves its record as it is.
LEMMA AbandonStep ==
    ASSUME IInv, NEW c \in Callers, NEW v \in 0..Quantity, Abandon(c, v)
    PROVE  IInv'
<1> DEFINE m == call[c]
           o == m.order
           t == traded[o] + v
<1>1. /\ m # Idle /\ v \in Nat /\ (m.pc = "sending" => v <= ChildQty(m)) /\ (m.pc # "sending" => v <= 0)
      /\ traded' = [traded EXCEPT ![o] = @ + v] /\ call' = [call EXCEPT ![c] = Idle]
      /\ UNCHANGED <<records, collected, published>>
  BY Constants DEF Abandon
<1>2. /\ Scheduled(m) /\ o \in Orders /\ traded[o] \in Nat
      /\ records[o] = "PENDING_NEW" /\ collected[o] = 0
      /\ traded[o] <= MaxRetries * VolumeScheduled(m) + AttemptsMade(m) * ChildQty(m)
      /\ traded[o] <= MaxRetries * (2 * Quantity - Slice)
  BY <1>1, Running
<1>3. t \in Nat /\ t <= MaxRetries * (2 * Quantity - Slice)
  <2>1. CASE m.pc = "sending"
    BY <1>1, <1>2, <2>1, Attempt
  <2>2. CASE m.pc # "sending"
    <3>1. v = 0
      BY <1>1, <2>2
    <3>2. QED
      BY <1>2, <3>1
  <2>3. QED
    BY <2>1, <2>2
<1>4. traded' = [traded EXCEPT ![o] = t] /\ traded'[o] = t
  BY <1>1, <1>2 DEF IInv, TypeOK
<1>5. Confined(c, o)
  BY <1>1, <1>2, <1>3, <1>4 DEF Confined, IInv, TypeOK, NoRecord
<1>6. call'[c] = Idle /\ collected'[o] <= Quantity /\ traded'[o] <= MaxRetries * (2 * Quantity - Slice)
  BY <1>1, <1>2, <1>3, <1>4, Constants DEF IInv, TypeOK
<1>7. QED
  BY <1>1, <1>5, <1>6, EndStep

\* cancel_order leaves the record of a running call alone.
LEMMA CancelStep ==
    ASSUME IInv, NEW o \in Orders, Cancel(o)
    PROVE  IInv'
<1>1. UNCHANGED <<call, traded, collected, published>>
  BY DEF Cancel
<1>2. CASE records[o] = "PENDING_NEW"
  <2>1. records' = records
    BY <1>2, FromPendingNew DEF Cancel
  <2>2. QED
    BY <1>1, <2>1 DEF IInv, TypeOK, SingleRun, SliceAccounting, FillsWithinOrder, TradedSoFar,
                      OvertradeBounded
<1>3. CASE records[o] # "PENDING_NEW"
  <2>1. records[o] = "ACCEPTED" /\ (records' = records \/ records' = [records EXCEPT ![o] = "CANCELLED"])
    BY <1>3 DEF Cancel
  <2>2. /\ records' \in [Orders -> OrderStates \cup {NoRecord}]
        /\ \A p \in Orders : /\ records[p] = "PENDING_NEW" => records'[p] = "PENDING_NEW"
                             /\ records'[p] = NoRecord => records[p] = NoRecord
    BY <2>1 DEF IInv, TypeOK, OrderStates, NoRecord
  <2>3. TypeOK'
    BY <1>1, <2>2 DEF IInv, TypeOK
  <2>4. SingleRun'
    <3>1. \A c \in Callers : call[c] # Idle => call[c].order \in Orders
      BY Active DEF IInv
    <3>2. QED
      BY <1>1, <2>2, <3>1 DEF IInv, SingleRun
  <2>5. QED
    BY <1>1, <2>3, <2>4 DEF IInv, SliceAccounting, FillsWithinOrder, TradedSoFar, OvertradeBounded
<1>4. QED
  BY <1>2, <1>3

\* Every step preserves the invariant.
LEMMA StepInvariant == IInv /\ [Next]_vars => IInv'
<1> SUFFICES ASSUME IInv, [Next]_vars
             PROVE  IInv'
  OBVIOUS
<1>1. ASSUME NEW c \in Callers, NEW o \in Orders, Submit(c, o)
      PROVE  IInv'
  BY <1>1, SubmitStep
<1>2. CASE UNCHANGED vars
  BY <1>2 DEF vars, IInv, TypeOK, SingleRun, SliceAccounting, FillsWithinOrder, TradedSoFar,
              OvertradeBounded
<1>3. ASSUME NEW c \in Callers, NEW o \in Orders, SubmitDuplicate(c, o)
      PROVE  IInv'
  BY <1>2, <1>3 DEF SubmitDuplicate
<1>4. ASSUME NEW c \in Callers, BrokerFills(c)
      PROVE  IInv'
  BY <1>4, BrokerFillsStep
<1>5. ASSUME NEW c \in Callers, NEW v \in 0..Quantity, BrokerFails(c, v)
      PROVE  IInv'
  BY <1>5, BrokerFailsStep
<1>6. ASSUME NEW c \in Callers, Retry(c)
      PROVE  IInv'
  BY <1>6, RetryStep
<1>7. ASSUME NEW c \in Callers, NextChild(c)
      PROVE  IInv'
  BY <1>7, NextChildStep
<1>8. ASSUME NEW c \in Callers, NEW v \in 0..Quantity, Abandon(c, v)
      PROVE  IInv'
  BY <1>8, AbandonStep
<1>9. ASSUME NEW o \in Orders, Cancel(o)
      PROVE  IInv'
  BY <1>9, CancelStep
<1>10. QED
  BY <1>1, <1>2, <1>3, <1>4, <1>5, <1>6, <1>7, <1>8, <1>9 DEF Next

-----------------------------------------------------------------------------
(* The theorems.                                                             *)

\* The inductive invariant holds throughout: records, calls, schedules and
\* volumes stay consistent for any number of concurrent submit_order calls.
THEOREM InductiveInvariant == Spec => []IInv
<1>1. Init => IInv
  BY InitInvariant
<1>2. IInv /\ [Next]_vars => IInv'
  BY StepInvariant
<1>3. QED
  BY <1>1, <1>2, PTL DEF Spec

\* Every variable stays in its domain.
THEOREM TypeCorrect == Spec => []TypeOK
<1>1. IInv => TypeOK
  BY DEF IInv
<1>2. QED
  BY <1>1, InductiveInvariant, PTL

\* A TWAP call accounts for its whole order, and no algorithm returns fills
\* beyond the order, for any slices, profile and failures.
THEOREM WithinOrder == Spec => []FillsWithinOrder
<1>1. IInv => FillsWithinOrder
  BY DEF IInv
<1>2. QED
  BY <1>1, InductiveInvariant, PTL

\* What failed attempts can have the broker trade in excess is bounded, for any
\* slices, profile and number of attempts.
THEOREM Overtrade == Spec => []OvertradeBounded
<1>1. IInv => OvertradeBounded
  BY DEF IInv
<1>2. QED
  BY <1>1, InductiveInvariant, PTL

\* A step that starts a call is that call's Submit, of an order without a record.
LEMMA StartIsSubmit ==
    ASSUME IInv, [Next]_vars, NEW c \in Callers, call[c] = Idle, call'[c] # Idle
    PROVE  \E o \in Orders : Submit(c, o) /\ call'[c].order = o
<1>1. call \in [Callers -> ActiveCalls \cup {Idle}]
  BY DEF IInv, TypeOK
<1>2. ASSUME NEW d \in Callers, NEW x, call' = [call EXCEPT ![d] = x], x = Idle \/ call[d] # Idle
      PROVE  FALSE
  BY <1>1, <1>2
<1>3. \A d \in Callers : ~Retry(d) /\ ~NextChild(d)
  BY <1>1, <1>2 DEF Retry, NextChild, Idle
<1>4. \A d \in Callers, v \in 0..Quantity : ~Abandon(d, v)
  BY <1>1 DEF Abandon
<1>5. \A d \in Callers : \A r, f : call[d].pc = "sending" => ~ChildDone(d, r, f)
  BY <1>1, <1>2 DEF ChildDone, Settle, Idle
<1>6. \A d \in Callers : ~BrokerFills(d)
  BY <1>5 DEF BrokerFills
<1>7. \A d \in Callers, v \in 0..Quantity : ~BrokerFails(d, v)
  BY <1>1, <1>2, <1>5 DEF BrokerFails, Reject, Idle
<1>8. ~UNCHANGED call /\ (\A o \in Orders : ~Cancel(o))
      /\ \A d \in Callers, o \in Orders : ~SubmitDuplicate(d, o)
  BY DEF Cancel, SubmitDuplicate, vars
<1>9. PICK d \in Callers, o \in Orders : Submit(d, o)
  BY <1>3, <1>4, <1>6, <1>7, <1>8 DEF Next, vars
<1>10. d = c /\ call'[c].order = o
  BY <1>1, <1>9 DEF Submit
<1>11. QED
  BY <1>9, <1>10

\* An order id is executed at most once in the life of the process, for any
\* number of concurrent calls.
THEOREM ExecutedOnce == Spec => NeverExecutedTwice
<1>1. ASSUME IInv, [Next]_vars, NEW c \in Callers, call[c] = Idle, call'[c] # Idle
      PROVE  Executing(call'[c].order) = {} /\ traded[call'[c].order] = 0
  <2>1. PICK o \in Orders : Submit(c, o) /\ call'[c].order = o
    BY <1>1, StartIsSubmit
  <2>2. records[o] = NoRecord
    BY <2>1 DEF Submit, AlreadySubmitted
  <2>3. QED
    BY <1>1, <2>1, <2>2 DEF IInv, SingleRun, Executing, NoRecord
<1>2. IInv /\ [Next]_vars
      => [\A c \in Callers :
             call[c] = Idle /\ call'[c] # Idle
             => Executing(call'[c].order) = {} /\ traded[call'[c].order] = 0]_vars
  BY <1>1
<1>3. QED
  BY <1>2, InductiveInvariant, PTL DEF Spec, NeverExecutedTwice

\* A step that ends a call is the broker's last answer to it, or its death.
LEMMA EndIs ==
    ASSUME IInv, [Next]_vars, NEW c \in Callers, call[c] # Idle, call'[c] = Idle
    PROVE  \/ BrokerFills(c) /\ Settle(c, call[c].fills + ChildQty(call[c]))
              /\ call[c].child >= NumChildren(call[c].algo)
           \/ Reject(c)
           \/ Settle(c, call[c].fills)
           \/ \E v \in 0..Quantity : Abandon(c, v)
<1>1. call \in [Callers -> ActiveCalls \cup {Idle}] /\ call[c] \in ActiveCalls
  BY DEF IInv, TypeOK
<1>2. ASSUME NEW d \in Callers, NEW x, call' = [call EXCEPT ![d] = x], d # c \/ x \in ActiveCalls
      PROVE  FALSE
  BY <1>1, <1>2 DEF ActiveCalls, Idle
<1>3. ASSUME NEW d \in Callers, NEW r, NEW f, ChildDone(d, r, f), call[d].pc = "sending"
      PROVE  d = c /\ Settle(c, f) /\ call[c].child >= NumChildren(call[c].algo)
  <2>1. CASE call[d].child < NumChildren(call[d].algo)
    <3> DEFINE x == [call[d] EXCEPT !.pc = "pausing", !.remaining = r, !.fills = f]
    <3>1. call' = [call EXCEPT ![d] = x]
      BY <1>3, <2>1 DEF ChildDone
    <3>2. call[d] \in ActiveCalls
      BY <1>1, <1>3 DEF Idle
    <3>3. x.pc = "pausing"
      BY <3>2 DEF ActiveCalls
    <3>4. x # Idle
      BY <3>3 DEF Idle
    <3>5. QED
      BY <1>1, <3>1, <3>4
  <2>2. CASE ~(call[d].child < NumChildren(call[d].algo))
    <3>1. Settle(d, f)
      BY <1>3, <2>2 DEF ChildDone
    <3>2. d = c
      BY <1>2, <3>1 DEF Settle
    <3>3. call[c].child \in Nat /\ NumChildren(call[c].algo) \in Nat
      BY <1>1, Constants, Profile DEF ActiveCalls, NumChildren
    <3>4. QED
      BY <2>2, <3>1, <3>2, <3>3
  <2>3. QED
    BY <2>1, <2>2
<1>4. ASSUME NEW d \in Callers, BrokerFills(d)
      PROVE  BrokerFills(c) /\ Settle(c, call[c].fills + ChildQty(call[c]))
             /\ call[c].child >= NumChildren(call[c].algo)
  <2>1. d = c /\ Settle(c, call[d].fills + ChildQty(call[d]))
        /\ call[c].child >= NumChildren(call[c].algo)
    BY <1>3, <1>4 DEF BrokerFills
  <2>2. QED
    BY <1>4, <2>1
<1>5. ASSUME NEW d \in Callers, NEW v \in 0..Quantity, BrokerFails(d, v)
      PROVE  Reject(c) \/ Settle(c, call[c].fills)
  <2>1. call[d].pc = "sending"
    BY <1>5 DEF BrokerFails
  <2>2. CASE RetriesLeft(call[d])
    <3> DEFINE x == [call[d] EXCEPT !.pc = "backoff"]
    <3>1. call' = [call EXCEPT ![d] = x]
      BY <1>5, <2>2 DEF BrokerFails
    <3>2. x \in ActiveCalls
      BY <1>1, <2>1 DEF ActiveCalls, Idle
    <3>3. QED
      BY <1>2, <3>1, <3>2
  <2>3. CASE ~RetriesLeft(call[d]) /\ call[d].algo = "MARKET"
    <3>1. Reject(d)
      BY <1>5, <2>3 DEF BrokerFails
    <3>2. d = c
      BY <1>2, <3>1 DEF Reject
    <3>3. QED
      BY <3>1, <3>2
  <2>4. CASE ~RetriesLeft(call[d]) /\ call[d].algo # "MARKET"
    <3>1. ChildDone(d, call[d].remaining, call[d].fills)
      BY <1>5, <2>4 DEF BrokerFails
    <3>2. QED
      BY <1>3, <2>1, <3>1
  <2>5. QED
    BY <2>2, <2>3, <2>4
<1>6. ASSUME NEW d \in Callers, NEW v \in 0..Quantity, Abandon(d, v)
      PROVE  Abandon(c, v)
  <2>1. d = c
    BY <1>2, <1>6 DEF Abandon
  <2>2. QED
    BY <1>6, <2>1
<1>7. ASSUME NEW d \in Callers
      PROVE  ~Retry(d) /\ ~NextChild(d)
  <2>1. ASSUME call[d].pc # "idle", NEW x, call' = [call EXCEPT ![d] = x], x.pc = "sending"
        PROVE  FALSE
    BY <1>1, <2>1 DEF Idle
  <2>2. call[d].pc # "idle" => call[d] \in ActiveCalls
    BY <1>1 DEF Idle
  <2>3. ~Retry(d)
    <3> SUFFICES ASSUME Retry(d) PROVE FALSE
      OBVIOUS
    <3> DEFINE x == [call[d] EXCEPT !.pc = "sending", !.attempt = NextAttempt(call[d])]
    <3>1. call' = [call EXCEPT ![d] = x] /\ call[d].pc # "idle"
      BY DEF Retry
    <3>2. x.pc = "sending"
      BY <2>2, <3>1 DEF ActiveCalls
    <3>3. QED
      BY <2>1, <3>1, <3>2
  <2>4. ~NextChild(d)
    <3> SUFFICES ASSUME NextChild(d) PROVE FALSE
      OBVIOUS
    <3> DEFINE x == [call[d] EXCEPT !.pc = "sending", !.attempt = 1, !.child = @ + 1]
    <3>1. call' = [call EXCEPT ![d] = x] /\ call[d].pc # "idle"
      BY DEF NextChild
    <3>2. x.pc = "sending"
      BY <2>2, <3>1 DEF ActiveCalls
    <3>3. QED
      BY <2>1, <3>1, <3>2
  <2>5. QED
    BY <2>3, <2>4
<1>8. ASSUME NEW d \in Callers, NEW o \in Orders
      PROVE  ~Submit(d, o)
  <2> SUFFICES ASSUME Submit(d, o) PROVE FALSE
    OBVIOUS
  <2>1. PICK algo \in Algorithms : \E first \in FirstChildren(algo) :
          call' = [call EXCEPT ![d] =
                      [pc |-> "sending", order |-> o, algo |-> algo, child |-> first,
                       attempt |-> 1, remaining |-> Quantity, fills |-> 0]]
    BY DEF Submit
  <2>2. call[d] = Idle
    BY DEF Submit
  <2>3. QED
    BY <1>1, <2>1, <2>2
<1>9. ~UNCHANGED call /\ (\A o \in Orders : ~Cancel(o))
      /\ \A d \in Callers, o \in Orders : ~SubmitDuplicate(d, o)
  BY DEF Cancel, SubmitDuplicate, vars
<1>10. QED
  BY <1>4, <1>5, <1>6, <1>7, <1>8, <1>9 DEF Next, vars

\* A call that has ended has left its record rejected, unless it died: the
\* transition to FILLED is refused from PENDING_NEW.
LEMMA EndRejects ==
    ASSUME IInv, NEW c \in Callers, call[c] # Idle,
           Reject(c) \/ \E f \in Nat : Settle(c, f)
    PROVE  records'[call[c].order] = "REJECTED"
<1>1. call[c].order \in Orders /\ records[call[c].order] = "PENDING_NEW"
  BY Running
<1>2. StateAfterRejection(call[c].order) = "REJECTED"
  BY <1>1, FromPendingNew DEF StateAfterRejection
<1>3. records' = [records EXCEPT ![call[c].order] = "REJECTED"]
  BY <1>1, <1>2, FromPendingNew DEF Reject, Settle
<1>4. QED
  BY <1>1, <1>3 DEF IInv, TypeOK

\* get_open_orders lists exactly the orders being executed, for any number of
\* concurrent calls, but for those whose call was abandoned by a stopping bus.
THEOREM RecordTracks == Spec => RecordTracksExecution
<1>1. ASSUME IInv, [Next]_vars, NEW c \in Callers
      PROVE  /\ call'[c] # Idle => call'[c].order \in OpenOrders'
             /\ call[c] # Idle /\ call'[c] = Idle
                => \/ call[c].order \notin OpenOrders'
                   \/ \E volume \in 0..Quantity : Abandon(c, volume)
  <2>1. IInv'
    BY <1>1, StepInvariant
  <2>2. call'[c] # Idle => call'[c].order \in OpenOrders'
    <3>1. ASSUME call'[c] # Idle
          PROVE  call'[c].order \in Orders /\ records'[call'[c].order] = "PENDING_NEW"
      BY <2>1, <3>1 DEF IInv, SingleRun, TypeOK, ActiveCalls
    <3>2. QED
      BY <3>1 DEF OpenOrders, NoRecord
  <2>3. ASSUME call[c] # Idle, call'[c] = Idle
        PROVE  \/ call[c].order \notin OpenOrders'
               \/ \E volume \in 0..Quantity : Abandon(c, volume)
    <3>1. call[c].fills \in Nat
      BY <1>1, <2>3 DEF IInv, TypeOK, ActiveCalls
    <3>2. ASSUME BrokerFills(c)
          PROVE  call[c].fills + ChildQty(call[c]) \in Nat
      <4>1. Scheduled(call[c]) /\ call[c].pc # "pausing"
        BY <1>1, <2>3, <3>2, Running DEF BrokerFills
      <4>2. QED
        BY <3>1, <4>1, Child
    <3>3. CASE BrokerFills(c) /\ Settle(c, call[c].fills + ChildQty(call[c]))
      BY <1>1, <2>3, <3>2, <3>3, EndRejects, Running DEF OpenOrders
    <3>4. CASE Reject(c) \/ Settle(c, call[c].fills)
      BY <1>1, <2>3, <3>1, <3>4, EndRejects, Running DEF OpenOrders
    <3>5. QED
      BY <1>1, <2>3, <3>3, <3>4, EndIs
  <2>4. QED
    BY <2>2, <2>3
<1>2. IInv /\ [Next]_vars
      => [\A c \in Callers :
             /\ call'[c] # Idle => call'[c].order \in OpenOrders'
             /\ call[c] # Idle /\ call'[c] = Idle
                => \/ call[c].order \notin OpenOrders'
                   \/ \E volume \in 0..Quantity : Abandon(c, volume)]_vars
  BY <1>1
<1>3. QED
  BY <1>2, InductiveInvariant, PTL DEF Spec, RecordTracksExecution

\* A TWAP execution whose last slice is filled has filled the whole order, for
\* any number and size of slices and whichever of the earlier ones had failed.
THEOREM LastSliceMakesUp == Spec => LastSliceCompletes
<1>1. ASSUME IInv, [Next]_vars, NEW c \in Callers, call[c] # Idle, call'[c] = Idle,
             call[c].algo = "TWAP", collected'[call[c].order] > call[c].fills
      PROVE  collected'[call[c].order] = Quantity
  <2> DEFINE m == call[c]
             o == m.order
  <2>1. /\ o \in Orders /\ collected[o] = 0 /\ collected \in [Orders -> Nat]
        /\ m.fills \in Nat /\ m.remaining \in Nat /\ m.child \in 1..NumSlices
        /\ m.fills + m.remaining = Quantity
    <3>1. Scheduled(m) /\ o \in Orders /\ collected[o] = 0 /\ collected \in [Orders -> Nat]
      BY <1>1, Running DEF IInv, TypeOK
    <3>2. m.fills \in Nat /\ m.remaining \in Nat
      BY <3>1, Constants DEF Scheduled, ActiveCalls
    <3>3. m.child \in 1..NumSlices /\ m.fills + m.remaining = Quantity
      BY <1>1, <3>1 DEF Scheduled, NumChildren
    <3>4. QED
      BY <3>1, <3>2, <3>3
  <2>2. ASSUME NEW f \in Nat, Settle(c, f)
        PROVE  collected'[o] = f
    BY <2>1, <2>2 DEF Settle
  <2>3. CASE /\ BrokerFills(c) /\ Settle(c, m.fills + ChildQty(m))
             /\ m.child >= NumChildren(m.algo)
    <3>1. m.child = NumSlices
      BY <1>1, <2>1, <2>3, Constants DEF NumChildren
    <3>2. ChildQty(m) = m.remaining
      BY <1>1, <3>1, Constants DEF ChildQty
    <3>3. QED
      BY <2>1, <2>2, <2>3, <3>2, Constants
  <2>4. CASE Settle(c, m.fills)
    BY <1>1, <2>1, <2>2, <2>4
  <2>5. CASE Reject(c) \/ \E v \in 0..Quantity : Abandon(c, v)
    <3>1. collected'[o] = 0
      BY <2>1, <2>5 DEF Reject, Abandon
    <3>2. QED
      BY <1>1, <2>1, <3>1
  <2>6. QED
    BY <1>1, <2>3, <2>4, <2>5, EndIs
<1>2. IInv /\ [Next]_vars
      => [\A c \in Callers :
             /\ call[c] # Idle /\ call'[c] = Idle
             /\ call[c].algo = "TWAP"
             /\ collected'[call[c].order] > call[c].fills
             => collected'[call[c].order] = Quantity]_vars
  BY <1>1
<1>3. QED
  BY <1>2, InductiveInvariant, PTL DEF Spec, LastSliceCompletes

=============================================================================
