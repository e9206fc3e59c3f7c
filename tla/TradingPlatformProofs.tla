----------------------- MODULE TradingPlatformProofs -----------------------
(***************************************************************************)
(* Proofs about TradingPlatform: for any processes, capital, retries,      *)
(* batches, stream lengths and share of an entry, what an exit or an entry *)
(* decided on an up-to-date book can do to the position at the broker, and *)
(* what parts the books from it.                                           *)
(***************************************************************************)
EXTENDS TradingPlatform, SumTheorems

\* The smaller of two numbers.
LEMMA MinOfTwo ==
    ASSUME NEW m \in Int, NEW n \in Int
    PROVE  Min({m, n}) \in {m, n} /\ Min({m, n}) <= m /\ Min({m, n}) <= n
  BY DEF Min

\* The larger of two numbers.
LEMMA MaxOfTwo ==
    ASSUME NEW m \in Int, NEW n \in Int
    PROVE  Max({m, n}) \in {m, n} /\ Max({m, n}) >= m /\ Max({m, n}) >= n
  BY DEF Max

\* A batch and the rest of a stream are made of its entries.
LEMMA BatchType ==
    ASSUME NEW S, NEW stream \in Seq(S)
    PROVE  Batch(stream) \in Seq(S) /\ Rest(stream) \in Seq(S)
<1> DEFINE n == Min({BatchSize, Len(stream)})
<1>1. BatchSize \in Int /\ Len(stream) \in Nat /\ BatchSize >= 1
  BY BusAssumption
<1>2. n \in Int /\ n <= Len(stream) /\ n >= 0
  <2> DEFINE len == Len(stream)
  <2>1. len \in Int /\ len >= 0
    BY <1>1
  <2> HIDE DEF len
  <2>2. Min({BatchSize, len}) \in {BatchSize, len} /\ Min({BatchSize, len}) <= len
    BY <1>1, <2>1, MinOfTwo, Zenon
  <2>3. n = Min({BatchSize, len})
    BY DEF len
  <2> HIDE DEF n
  <2>4. n \in Int /\ n <= len /\ n >= 0
    BY <1>1, <2>1, <2>2, <2>3
  <2>5. QED
    BY <2>4 DEF len
<1>3. Batch(stream) = SubSeq(stream, 1, n) /\ Rest(stream) = SubSeq(stream, n + 1, Len(stream))
  BY DEF Batch, Rest
<1> HIDE DEF n
<1>4. SubSeq(stream, 1, n) \in Seq(S)
  BY <1>1, <1>2
<1>5. SubSeq(stream, n + 1, Len(stream)) \in Seq(S)
  BY <1>1, <1>2
<1>6. QED
  BY <1>3, <1>4, <1>5

\* An entry takes no more than the equity there is.
LEMMA EntryWithinEquity ==
    ASSUME NEW p \in Processes, book[p] \in Int
    PROVE  /\ EntrySize(p) \in Nat
           /\ Equity(p) >= 0 => EntrySize(p) <= Equity(p)
<1>1. Equity(p) \in Int /\ Share \in Nat /\ Share <= 100
  BY CapitalAssumption, ShareAssumption DEF Equity
<1>2. CASE Equity(p) <= 0
  BY <1>1, <1>2 DEF EntrySize
<1>3. CASE Equity(p) > 0
  <2> DEFINE e == Equity(p)
             x == 2 * e * Share + 100
             q == x \div 200
  <2>1. e \in Nat
    BY <1>1, <1>3
  <2>2. e * Share \in Nat /\ e * Share <= e * 100
    <3> HIDE DEF e
    <3> QED
      BY <1>1, <2>1
  <2>3. x \in Nat /\ x >= 100 /\ x <= 200 * e + 100
    <3>1. x = 2 * (e * Share) + 100
      <4> HIDE DEF e
      <4> QED
        BY <1>1, <2>1
    <3>2. QED
      BY <2>1, <2>2, <3>1
  <2>4. q \in Int /\ 200 * q <= x /\ x < 200 * (q + 1)
    <3> HIDE DEF x
    <3> QED
      BY <2>3
  <2>5. EntrySize(p) = q
    BY <1>1, <1>3 DEF EntrySize
  <2>6. q \in Nat /\ q <= e
    <3> HIDE DEF x, q, e
    <3> QED
      BY <2>1, <2>3, <2>4
  <2>7. QED
    BY <2>5, <2>6
<1>4. QED
  BY <1>1, <1>2, <1>3

\* The capital that a position leaves.
LEMMA CapitalLeftIs ==
    ASSUME NEW position \in Int
    PROVE  /\ CapitalLeft(position) \in Nat
           /\ CapitalLeft(position) >= Initial - position
<1>1. 0 \in Int /\ Initial - position \in Int
  BY CapitalAssumption
<1> DEFINE m == Max({0, Initial - position})
<1>2. m \in {0, Initial - position} /\ m >= 0 /\ m >= Initial - position
  BY <1>1, MaxOfTwo, Zenon
<1>3. CapitalLeft(position) = m
  BY DEF CapitalLeft
<1> HIDE DEF m
<1> QED
  BY <1>1, <1>2, <1>3

\* What a signal makes an order of: an exit asks for the position of the book,
\* an entry for no more than the capital that it leaves.
LEMMA OrderOutcome ==
    ASSUME NEW p \in Processes, NEW d \in Directions, book[p] \in Int
    PROVE  /\ OrderFor(p, d) \in Int
           /\ d = "FLAT" => OrderFor(p, d) = -book[p]
           /\ d = "LONG" => OrderFor(p, d) \in Parts(CapitalLeft(book[p]))
           /\ d = "SHORT" => OrderFor(p, d) \in Parts(-CapitalLeft(book[p]))
<1> DEFINE size == EntrySize(p)
           left == CapitalLeft(book[p])
<1>1. size \in Nat /\ (Equity(p) >= 0 => size <= Equity(p)) /\ Equity(p) = Initial - book[p]
  BY EntryWithinEquity DEF Equity
<1>2. left \in Nat /\ left >= Initial - book[p]
  BY CapitalLeftIs
<1>3. Initial \in Nat /\ (Equity(p) < 0 => size = 0)
  BY <1>1, CapitalAssumption DEF EntrySize
<1>4. d \in {"LONG", "SHORT", "FLAT"}
  BY DEF Directions
<1>5. /\ d = "LONG" => OrderFor(p, d) = size
      /\ d = "SHORT" => OrderFor(p, d) = -size
      /\ d = "FLAT" => OrderFor(p, d) = -book[p]
  BY DEF OrderFor
<1> HIDE DEF size, left
<1>6. size <= left
  BY <1>1, <1>2, <1>3
<1>7. size \in Parts(left) /\ -size \in Parts(-left)
  BY <1>1, <1>2, <1>6 DEF Parts
<1> QED
  BY <1>1, <1>4, <1>5, <1>7 DEF left
-----------------------------------------------------------------------------
(* Parts of quantities                                                       *)

\* A multiple of a quantity has its sign.
LEMMA MultipleHasSign ==
    ASSUME NEW n \in Nat, NEW a \in Int
    PROVE  /\ n * a \in Int
           /\ a >= 0 => n * a >= 0
           /\ a <= 0 => n * a <= 0
  OBVIOUS

\* One attempt more trades one part more.
LEMMA PartsAdd ==
    ASSUME NEW n \in Nat, NEW a \in Int, NEW x \in Parts(n * a), NEW y \in Parts(a)
    PROVE  x + y \in Parts((n + 1) * a)
<1>1. (n + 1) * a = n * a + a
  OBVIOUS
<1> DEFINE k == n * a
<1>2. k \in Int /\ (a >= 0 => k >= 0) /\ (a <= 0 => k <= 0)
  BY MultipleHasSign
<1>3. x \in Parts(k)
  OBVIOUS
<1> HIDE DEF k
<1>4. x + y \in Parts(k + a)
  BY <1>2, <1>3 DEF Parts
<1> QED
  BY <1>1, <1>4 DEF k

\* What trades in n attempts may trade in more of them.
LEMMA PartsGrow ==
    ASSUME NEW n \in Nat, NEW m \in Nat, n <= m, NEW a \in Int, NEW x \in Parts(n * a)
    PROVE  x \in Parts(m * a)
<1> DEFINE k == n * a
           j == (m - n) * a
<1>1. m * a = k + j /\ m - n \in Nat
  OBVIOUS
<1>2. k \in Int /\ (a >= 0 => k >= 0) /\ (a <= 0 => k <= 0)
  BY MultipleHasSign
<1>3. j \in Int /\ (a >= 0 => j >= 0) /\ (a <= 0 => j <= 0)
  BY <1>1, MultipleHasSign
<1>4. x \in Parts(k)
  OBVIOUS
<1> HIDE DEF k, j
<1>5. x \in Parts(k + j)
  BY <1>2, <1>3, <1>4 DEF Parts
<1> QED
  BY <1>1, <1>5

\* n times a part is a part of n times the quantity.
LEMMA PartsOfPart ==
    ASSUME NEW n \in Nat, NEW a \in Int, NEW b \in Parts(a), NEW x \in Parts(n * b)
    PROVE  x \in Parts(n * a)
<1>1. b \in Int /\ (a >= 0 => b >= 0 /\ b <= a) /\ (a <= 0 => b <= 0 /\ b >= a)
  BY DEF Parts
<1> DEFINE k == n * b
           j == n * (a - b)
<1>2. n * a = k + j
  BY <1>1
<1>3. k \in Int /\ (b >= 0 => k >= 0) /\ (b <= 0 => k <= 0)
  BY <1>1, MultipleHasSign
<1>4. j \in Int /\ (a - b >= 0 => j >= 0) /\ (a - b <= 0 => j <= 0)
  BY <1>1, MultipleHasSign
<1>5. x \in Parts(k)
  OBVIOUS
<1> HIDE DEF k, j
<1>6. x \in Parts(k + j)
  <2>1. CASE a >= 0
    BY <1>1, <1>3, <1>4, <1>5, <2>1 DEF Parts
  <2>2. CASE a < 0
    BY <1>1, <1>3, <1>4, <1>5, <2>2 DEF Parts
  <2> QED
    BY <2>1, <2>2
<1> QED
  BY <1>2, <1>6

\* Nothing is a part of anything, and so is all of it.
LEMMA PartsEnds ==
    ASSUME NEW a \in Int
    PROVE  0 \in Parts(a) /\ a \in Parts(a) /\ Parts(0) = {0} /\ Parts(a) \subseteq Int
  BY DEF Parts
-----------------------------------------------------------------------------
\* Initially no process runs and nothing has been decided.
LEMMA InitInvariant == Init => IInv
<1> SUFFICES ASSUME Init PROVE IInv
  OBVIOUS
<1>1. 0 \in 0..MaxSignals /\ 0 \in 0..MaxStarts /\ 0 \in 0..(MaxRetries - 1)
  BY BoundsAssumption, RetriesAssumption
<1>2. "FLAT" \in Directions /\ <<>> \in Seq(Directions) /\ <<>> \in Seq(Int)
  BY DEF Directions
<1>3. ~decision.current
  BY DEF Init, Uncurrent
<1>4. TypeOK
  <2>1. /\ tracker \in [Processes -> Directions]
        /\ book \in [Processes -> Int] /\ order \in [Processes -> Int]
        /\ attempts \in [Processes -> 0..(MaxRetries - 1)]
        /\ inbox \in [Processes -> Seq(Directions)] /\ booking \in [Processes -> Seq(Int)]
    BY <1>1, <1>2 DEF Init
  <2>2. /\ \A p \in Processes \ up :
              tracker[p] = "FLAT" /\ book[p] = 0 /\ inbox[p] = <<>> /\ booking[p] = <<>>
        /\ \A p \in Processes : order[p] = 0 => attempts[p] = 0
    BY DEF Init
  <2>3. /\ up \subseteq Processes /\ broker \in Int
        /\ signals \in Seq(Directions) /\ fills \in Seq(Int)
        /\ generated \in 0..MaxSignals /\ starts \in 0..MaxStarts
    BY <1>1, <1>2 DEF Init
  <2>4. decision \in [said : Directions \cup {"none"}, current : BOOLEAN, from : Int, asked : Int]
    BY DEF Init, Uncurrent
  <2>5. unclear \in BOOLEAN
    BY Zenon DEF Init
  <2> QED
    BY <2>1, <2>2, <2>3, <2>4, <2>5, Zenon DEF TypeOK
<1> QED
  BY <1>3, <1>4 DEF IInv, OneOrder, AsksWithinMeans

\* What XADD leaves of a stream is made of its entries and the new one.
LEMMA AddedType ==
    ASSUME NEW S, NEW stream \in Seq(S), NEW entry \in S, NEW t \in Added(stream, entry)
    PROVE  t \in Seq(S)
<1> DEFINE all == Append(stream, entry)
           top == Max({1, Len(all) - MaxLen + 1})
<1>1. all \in Seq(S) /\ Len(all) \in Nat
  OBVIOUS
<1>2. top \in Int
  <2> HIDE DEF all
  <2>1. 1 \in Int /\ Len(all) - MaxLen + 1 \in Int
    BY <1>1, BusAssumption
  <2>2. top \in {1, Len(all) - MaxLen + 1}
    BY <2>1, MaxOfTwo, Zenon
  <2> HIDE DEF top
  <2> QED
    BY <2>1, <2>2
<1>3. PICK k \in 1..top : t = SubSeq(all, k, Len(all))
  BY DEF Added
<1> HIDE DEF all, top
<1>4. k \in Nat /\ k >= 1
  BY <1>2
<1>5. SubSeq(all, k, Len(all)) \in Seq(S)
  BY <1>1, <1>4
<1> QED
  BY <1>3, <1>5

\* Every step keeps every variable in its domain.
LEMMA TypeStep == TypeOK /\ [Next]_vars => TypeOK'
<1> SUFFICES ASSUME TypeOK, [Next]_vars PROVE TypeOK'
  OBVIOUS
<1> USE DEF TypeOK
<1>1. ASSUME NEW p \in Processes, Start(p) PROVE TypeOK'
  <2>1. starts' \in 0..MaxStarts
    BY <1>1, BoundsAssumption DEF Start
  <2> QED
    BY <1>1, <2>1 DEF Start, memory, sending, streams, history
<1>2. ASSUME NEW p \in Processes, NEW d \in Directions, Bar(p, d) PROVE TypeOK'
  <2>1. generated' \in 0..MaxSignals
    BY <1>2, BoundsAssumption DEF Bar
  <2>2. signals' \in Seq(Directions)
    BY <1>2, AddedType DEF Bar
  <2>3. tracker' \in [Processes -> Directions] /\ \A q \in Processes \ up' : tracker'[q] = "FLAT"
    BY <1>2 DEF Bar
  <2> QED
    BY <1>2, <2>1, <2>2, <2>3 DEF Bar, sending, history
<1>3. ASSUME NEW p \in Processes, ReadSignals(p) PROVE TypeOK'
  <2>1. Batch(signals) \in Seq(Directions) /\ Rest(signals) \in Seq(Directions)
    BY BatchType
  <2>2. inbox' \in [Processes -> Seq(Directions)] /\ \A q \in Processes \ up' : inbox'[q] = <<>>
    BY <1>3, <2>1 DEF ReadSignals
  <2> QED
    BY <1>3, <2>1, <2>2 DEF ReadSignals, sending, history
<1>4. ASSUME NEW p \in Processes, ReadFills(p) PROVE TypeOK'
  <2>1. Batch(fills) \in Seq(Int) /\ Rest(fills) \in Seq(Int)
    BY BatchType
  <2>2. booking' \in [Processes -> Seq(Int)] /\ \A q \in Processes \ up' : booking'[q] = <<>>
    BY <1>4, <2>1 DEF ReadFills
  <2> QED
    BY <1>4, <2>1, <2>2 DEF ReadFills, sending, history
<1>5. ASSUME NEW p \in Processes, LoseSignals(p) PROVE TypeOK'
  BY <1>5, BatchType DEF LoseSignals, memory, sending, history
<1>6. ASSUME NEW p \in Processes, LoseFills(p) PROVE TypeOK'
  BY <1>6, BatchType DEF LoseFills, memory, sending, history
<1>7. ASSUME NEW p \in Processes, HandleSignal(p) PROVE TypeOK'
  <2> DEFINE d == Head(inbox[p])
  <2>1. d \in Directions /\ Tail(inbox[p]) \in Seq(Directions) /\ attempts[p] = 0
    BY <1>7 DEF HandleSignal
  <2>2. OrderFor(p, d) \in Int
    BY <2>1, OrderOutcome
  <2>3. /\ order' = [order EXCEPT ![p] = OrderFor(p, d)]
        /\ inbox' = [inbox EXCEPT ![p] = Tail(inbox[p])]
        /\ decision' = Decision(p, d) /\ unclear' = FALSE
        /\ UNCHANGED <<up, tracker, book, booking, attempts, signals, fills, broker, generated, starts>>
    BY <1>7 DEF HandleSignal, streams
  <2>4. p \in up
    BY <1>7 DEF HandleSignal
  <2> HIDE DEF d
  <2>5. decision' \in [said : Directions \cup {"none"}, current : BOOLEAN, from : Int, asked : Int]
    BY <2>1, <2>2, <2>3 DEF Decision, Uncurrent
  <2>6. /\ order' \in [Processes -> Int] /\ inbox' \in [Processes -> Seq(Directions)]
        /\ \A q \in Processes : order'[q] = 0 => attempts'[q] = 0
        /\ \A q \in Processes \ up' : inbox'[q] = <<>>
    BY <2>1, <2>2, <2>3, <2>4
  <2> QED
    BY <2>3, <2>5, <2>6
<1>8. ASSUME NEW p \in Processes, EndOrder(p)
      PROVE  /\ order' \in [Processes -> Int] /\ attempts' \in [Processes -> 0..(MaxRetries - 1)]
             /\ \A q \in Processes : order'[q] = 0 => attempts'[q] = 0
  <2>1. 0 \in 0..(MaxRetries - 1)
    BY RetriesAssumption
  <2> QED
    BY <1>8, <2>1 DEF EndOrder
<1>9. ASSUME NEW p \in Processes, Execute(p) PROVE TypeOK'
  <2>1. fills' \in Seq(Int) /\ broker' \in Int
    BY <1>9, AddedType DEF Execute
  <2>2. EndOrder(p)
    BY <1>9 DEF Execute
  <2>3. /\ order' \in [Processes -> Int] /\ attempts' \in [Processes -> 0..(MaxRetries - 1)]
        /\ \A q \in Processes : order'[q] = 0 => attempts'[q] = 0
    BY <1>8, <2>2
  <2>4. UNCHANGED <<up, tracker, book, inbox, booking, signals, generated, starts, decision, unclear>>
    BY <1>9 DEF Execute, memory, history
  <2> QED
    BY <2>1, <2>3, <2>4
<1>10. ASSUME NEW p \in Processes, ExecuteUnrecorded(p) PROVE TypeOK'
  <2>1. broker' \in Int
    BY <1>10 DEF ExecuteUnrecorded
  <2>2. EndOrder(p)
    BY <1>10 DEF ExecuteUnrecorded
  <2>3. /\ order' \in [Processes -> Int] /\ attempts' \in [Processes -> 0..(MaxRetries - 1)]
        /\ \A q \in Processes : order'[q] = 0 => attempts'[q] = 0
    BY <1>8, <2>2
  <2>4. UNCHANGED <<up, tracker, book, inbox, booking, signals, fills, generated, starts, decision, unclear>>
    BY <1>10 DEF ExecuteUnrecorded, memory, streams, history
  <2> QED
    BY <2>1, <2>3, <2>4
<1>11. ASSUME NEW p \in Processes, NEW part \in Parts(order[p]), AttemptFails(p, part) PROVE TypeOK'
  <2>1. broker' \in Int
    BY <1>11, PartsEnds DEF AttemptFails
  <2>2. /\ order' \in [Processes -> Int] /\ attempts' \in [Processes -> 0..(MaxRetries - 1)]
        /\ \A q \in Processes : order'[q] = 0 => attempts'[q] = 0
    <3>1. CASE RetriesLeft(p)
      <4>1. attempts[p] + 1 \in 0..(MaxRetries - 1)
        BY <3>1, RetriesAssumption DEF RetriesLeft
      <4> QED
        BY <1>11, <3>1, <4>1 DEF AttemptFails
    <3>2. CASE ~RetriesLeft(p)
      BY <1>8, <1>11, <3>2 DEF AttemptFails
    <3> QED
      BY <3>1, <3>2
  <2> QED
    BY <1>11, <2>1, <2>2 DEF AttemptFails, memory, streams
<1>12. ASSUME NEW p \in Processes, NEW part \in Parts(order[p]), AttemptUnobserved(p, part) PROVE TypeOK'
  <2>1. broker' \in Int
    BY <1>12, PartsEnds DEF AttemptUnobserved
  <2> QED
    BY <1>8, <1>12, <2>1 DEF AttemptUnobserved, memory, streams
<1>13. ASSUME NEW p \in Processes, BookFill(p) PROVE TypeOK'
  <2>1. Head(booking[p]) \in Int /\ Tail(booking[p]) \in Seq(Int)
    BY <1>13 DEF BookFill
  <2>2. p \in up /\ book[p] + Head(booking[p]) \in Int
    BY <1>13, <2>1 DEF BookFill
  <2>3. book' \in [Processes -> Int] /\ \A q \in Processes \ up : book'[q] = 0
    BY <1>13, <2>2 DEF BookFill
  <2>4. booking' \in [Processes -> Seq(Int)] /\ \A q \in Processes \ up : booking'[q] = <<>>
    BY <1>13, <2>1, <2>2 DEF BookFill
  <2> QED
    BY <1>13, <2>3, <2>4 DEF BookFill, sending, streams, history
<1>14. ASSUME NEW p \in Processes, DropFill(p) PROVE TypeOK'
  <2>1. Tail(booking[p]) \in Seq(Int)
    BY <1>14 DEF DropFill
  <2> QED
    BY <1>14, <2>1 DEF DropFill, sending, streams, history
<1>15. ASSUME NEW p \in Processes, Down(p) PROVE TypeOK'
  <2>1. "FLAT" \in Directions
    BY DEF Directions
  <2> QED
    BY <1>15, <2>1 DEF Down, sending, streams, history
<1>16. CASE UNCHANGED vars
  BY <1>16 DEF vars, memory, sending, streams, history
<1> QED
  BY <1>1, <1>2, <1>3, <1>4, <1>5, <1>6, <1>7, <1>9, <1>10, <1>11, <1>12, <1>13, <1>14, <1>15, <1>16
     DEF Next, Answered
-----------------------------------------------------------------------------
\* A step that leaves the orders, the broker and the decision alone.
LEMMA SameOrders ==
    OneOrder /\ UNCHANGED <<order, attempts, broker, decision, unclear>> => OneOrder'
  BY DEF OneOrder, Trades, NothingSent

\* What AsksWithinMeans says is about the decision only.
LEMMA SameDecision == AsksWithinMeans /\ UNCHANGED decision => AsksWithinMeans'
  BY DEF AsksWithinMeans

\* The number of times that the order of the last decision can have traded.
LEMMA TradesIs == TypeOK => Trades \in Nat /\ Trades >= 1
  BY RetriesAssumption DEF TypeOK, Trades

\* The order of a current decision is the only one, and what it has traded so
\* far are parts of it, one for each failed attempt.
LEMMA TheOrder ==
    ASSUME IInv, NEW p \in Processes, order[p] # 0, decision.current
    PROVE  /\ order[p] = decision.asked /\ order[p] \in Int
           /\ attempts[p] \in Nat /\ attempts[p] + 1 <= MaxRetries /\ MaxRetries \in Nat
           /\ broker \in Int /\ decision.from \in Int
           /\ broker - decision.from \in Parts(attempts[p] * order[p])
           /\ ~unclear => attempts[p] = 0
           /\ \A q \in Processes : order[q] # 0 => q = p
  BY RetriesAssumption DEF IInv, TypeOK, OneOrder

\* An order that ends, after trading a part of it once more, leaves none.
LEMMA OrderEnds ==
    ASSUME IInv, NEW p \in Processes, order[p] # 0, EndOrder(p),
           NEW part \in Parts(order[p]), broker' = broker + part,
           decision' = decision,
           \/ unclear' = TRUE
           \/ unclear' = unclear /\ part = order[p]
    PROVE  OneOrder'
<1> SUFFICES ASSUME decision.current PROVE OneOrder'
  BY DEF OneOrder
<1> DEFINE n == attempts[p]
           a == decision.asked
           x == broker - decision.from
<1>1. /\ order[p] = a /\ a \in Int /\ n \in Nat /\ n + 1 <= MaxRetries /\ MaxRetries \in Nat
      /\ broker \in Int /\ decision.from \in Int /\ x \in Parts(n * a) /\ (~unclear => n = 0)
      /\ \A q \in Processes : order[q] # 0 => q = p
  BY TheOrder
<1>2. NothingSent'
  BY <1>1 DEF EndOrder, NothingSent, IInv, TypeOK
<1>3. part \in Int /\ x \in Int /\ broker' - decision.from = x + part
  BY <1>1, PartsEnds
<1>4. x + part \in Parts((n + 1) * a)
  BY <1>1, PartsAdd
<1>5. x + part \in Parts(MaxRetries * a)
  <2>1. n + 1 \in Nat
    BY <1>1
  <2> HIDE DEF n, a, x
  <2> QED
    BY <1>1, <1>4, <2>1, PartsGrow
<1>6. ~unclear' => broker' = decision.from + a /\ x + part \in Parts(1 * a)
  <2> SUFFICES ASSUME ~unclear' PROVE broker' = decision.from + a /\ x + part \in Parts(1 * a)
    OBVIOUS
  <2>1. ~unclear /\ part = a /\ n = 0
    BY <1>1
  <2>2. x \in Parts(0 * a) /\ 0 * a = 0 /\ 0 + 1 = 1
    BY <1>1, <2>1
  <2>3. x = 0
    BY <2>2, PartsEnds
  <2>4. x + part \in Parts(1 * a)
    BY <1>4, <2>1
  <2> QED
    BY <1>1, <1>3, <2>1, <2>3, <2>4
<1>7. broker' - decision.from \in Parts(Trades' * a)
  BY <1>3, <1>5, <1>6 DEF Trades
<1> QED
  BY <1>2, <1>6, <1>7 DEF OneOrder, NothingSent

\* An order that is sent again has traded one part more.
LEMMA OrderResent ==
    ASSUME IInv, NEW p \in Processes, NEW part \in Parts(order[p]), AttemptFails(p, part), RetriesLeft(p)
    PROVE  OneOrder'
<1> SUFFICES ASSUME decision.current PROVE OneOrder'
  BY DEF OneOrder, AttemptFails
<1> DEFINE n == attempts[p]
           a == decision.asked
           x == broker - decision.from
<1>1. order[p] # 0 /\ broker' = broker + part /\ order' = order /\ unclear' = TRUE
      /\ decision' = decision /\ attempts' = [attempts EXCEPT ![p] = attempts[p] + 1]
  BY DEF AttemptFails
<1>2. /\ order[p] = a /\ a \in Int /\ n \in Nat /\ n + 1 <= MaxRetries /\ MaxRetries \in Nat
      /\ broker \in Int /\ decision.from \in Int /\ x \in Parts(n * a)
      /\ \A q \in Processes : order[q] # 0 => q = p
  BY <1>1, TheOrder
<1>3. part \in Int /\ x \in Int /\ broker' - decision.from = x + part
  BY <1>1, <1>2, PartsEnds
<1>4. x + part \in Parts((n + 1) * a) /\ n + 1 \in Nat
  BY <1>2, PartsAdd
<1>5. x + part \in Parts(MaxRetries * a)
  <2> HIDE DEF n, a, x
  <2> QED
    BY <1>2, <1>4, PartsGrow
<1>6. attempts'[p] = n + 1
  BY <1>1 DEF IInv, TypeOK
<1>7. \A q \in Processes : order'[q] # 0 =>
          order'[q] = a /\ broker' - decision.from \in Parts(attempts'[q] * a)
  BY <1>1, <1>2, <1>3, <1>4, <1>6
<1>8. Trades' = MaxRetries /\ ~NothingSent'
  BY <1>1 DEF Trades, NothingSent
<1> QED
  BY <1>1, <1>2, <1>3, <1>5, <1>7, <1>8 DEF OneOrder

\* A signal handled on an up-to-date book makes the only order there is, and
\* asks within its means.
LEMMA OrderMade ==
    ASSUME IInv, NEW p \in Processes, HandleSignal(p)
    PROVE  OneOrder' /\ AsksWithinMeans'
<1> SUFFICES ASSUME decision'.current PROVE OneOrder' /\ AsksWithinMeans'
  BY DEF OneOrder, AsksWithinMeans
<1> DEFINE d == Head(inbox[p])
           a == OrderFor(p, d)
<1>1. /\ order' = [order EXCEPT ![p] = a] /\ decision' = Decision(p, d) /\ unclear' = FALSE
      /\ attempts' = attempts /\ broker' = broker /\ order[p] = 0 /\ inbox[p] # <<>>
  BY DEF HandleSignal
<1>2. /\ d \in Directions /\ order \in [Processes -> Int] /\ book[p] \in Int /\ broker \in Int
      /\ \A q \in Processes : order[q] = 0 => attempts[q] = 0
  BY <1>1 DEF IInv, TypeOK
<1>3. /\ a \in Int /\ (d = "FLAT" => a = -book[p])
      /\ d = "LONG" => a \in Parts(CapitalLeft(book[p]))
      /\ d = "SHORT" => a \in Parts(-CapitalLeft(book[p]))
  BY <1>2, OrderOutcome
<1> HIDE DEF d
<1>4. /\ book[p] = broker /\ Settled
      /\ decision' = [said |-> d, current |-> TRUE, from |-> broker, asked |-> a]
  BY <1>1 DEF Decision, Uncurrent
<1>5. AsksWithinMeans'
  BY <1>2, <1>3, <1>4 DEF AsksWithinMeans
<1>6. \A q \in Processes : order[q] = 0 /\ attempts[q] = 0
  BY <1>2, <1>4 DEF Settled, NothingSent
<1> HIDE DEF a
<1>7. \A q \in Processes : order'[q] # 0 => q = p /\ order'[q] = a
  BY <1>1, <1>2, <1>6
<1>8. 0 * a = 0 /\ 1 * a = a /\ 0 \in Parts(0) /\ 0 \in Parts(a)
  BY <1>3, PartsEnds
<1>9. broker' - decision'.from = 0 /\ Trades' = 1 /\ decision'.asked = a
  BY <1>1, <1>2, <1>4 DEF Trades
<1>10. NothingSent' => a = 0
  BY <1>1, <1>2 DEF NothingSent
<1>11. OneOrder'
  <2>1. \A q \in Processes : order'[q] # 0 =>
            /\ order'[q] = decision'.asked
            /\ broker' - decision'.from \in Parts(attempts'[q] * decision'.asked)
            /\ ~unclear' => attempts'[q] = 0
    BY <1>1, <1>6, <1>7, <1>8, <1>9
  <2>2. broker' - decision'.from \in Parts(Trades' * decision'.asked)
    BY <1>8, <1>9
  <2>3. NothingSent' /\ ~unclear' => broker' = decision'.from + decision'.asked
    BY <1>1, <1>2, <1>4, <1>9, <1>10
  <2> QED
    BY <1>7, <2>1, <2>2, <2>3 DEF OneOrder
<1> QED
  BY <1>5, <1>11

\* No step of the platform breaks IInv.
LEMMA StepInvariant == IInv /\ [Next]_vars => IInv'
<1> SUFFICES ASSUME IInv, [Next]_vars PROVE IInv'
  OBVIOUS
<1>1. TypeOK'
  BY TypeStep DEF IInv
<1>2. OneOrder' /\ AsksWithinMeans'
  <2>1. ASSUME NEW p \in Processes,
               \/ Start(p) \/ ReadSignals(p) \/ LoseSignals(p) \/ ReadFills(p)
               \/ LoseFills(p) \/ BookFill(p) \/ DropFill(p) \/ Down(p)
        PROVE  OneOrder' /\ AsksWithinMeans'
    <3>1. UNCHANGED <<order, attempts, broker, decision, unclear>>
      BY <2>1 DEF Start, ReadSignals, LoseSignals, ReadFills, LoseFills, BookFill, DropFill, Down,
                  sending, history
    <3> QED
      BY <3>1, SameOrders, SameDecision DEF IInv
  <2>2. ASSUME NEW p \in Processes, NEW d \in Directions, Bar(p, d) PROVE OneOrder' /\ AsksWithinMeans'
    BY <2>2, SameOrders, SameDecision DEF IInv, Bar, sending, history
  <2>3. ASSUME NEW p \in Processes, HandleSignal(p) PROVE OneOrder' /\ AsksWithinMeans'
    BY <2>3, OrderMade
  <2>4. ASSUME NEW p \in Processes, Execute(p) \/ ExecuteUnrecorded(p)
        PROVE  OneOrder' /\ AsksWithinMeans'
    <3>1. /\ order[p] # 0 /\ EndOrder(p) /\ broker' = broker + order[p]
          /\ UNCHANGED <<decision, unclear>>
      BY <2>4 DEF Execute, ExecuteUnrecorded, history
    <3>2. order[p] \in Parts(order[p])
      BY PartsEnds DEF IInv, TypeOK
    <3> QED
      BY <3>1, <3>2, OrderEnds, SameDecision DEF IInv
  <2>5. ASSUME NEW p \in Processes, NEW part \in Parts(order[p]), AttemptFails(p, part)
        PROVE  OneOrder' /\ AsksWithinMeans'
    <3>1. AsksWithinMeans'
      BY <2>5, SameDecision DEF IInv, AttemptFails
    <3>2. CASE RetriesLeft(p)
      BY <2>5, <3>1, <3>2, OrderResent
    <3>3. CASE ~RetriesLeft(p)
      BY <2>5, <3>1, <3>3, OrderEnds DEF AttemptFails
    <3> QED
      BY <3>2, <3>3
  <2>6. ASSUME NEW p \in Processes, NEW part \in Parts(order[p]), AttemptUnobserved(p, part)
        PROVE  OneOrder' /\ AsksWithinMeans'
    BY <2>6, OrderEnds, SameDecision DEF IInv, AttemptUnobserved
  <2>7. CASE UNCHANGED vars
    BY <2>7, SameOrders, SameDecision DEF IInv, vars, sending, history
  <2> QED
    BY <2>1, <2>2, <2>3, <2>4, <2>5, <2>6, <2>7 DEF Next, Answered
<1> QED
  BY <1>1, <1>2 DEF IInv
-----------------------------------------------------------------------------
\* In every reachable state the order of a current decision is the only one
\* under way and asks within its means, and what the broker has traded of it is
\* a part for each attempt.
THEOREM InductiveInvariant == Spec => []IInv
<1>1. Init => IInv
  BY InitInvariant
<1>2. IInv /\ [Next]_vars => IInv'
  BY StepInvariant
<1> QED
  BY <1>1, <1>2, PTL DEF Spec

\* Every variable stays in its domain, and a process that is down remembers
\* nothing.
THEOREM TypeCorrect == Spec => []TypeOK
<1>1. IInv => TypeOK
  BY DEF IInv
<1> QED
  BY <1>1, InductiveInvariant, PTL

\* An exit decided on an up-to-date book leaves nothing at the broker when it is
\* answered at the first attempt, and turns the position round MaxRetries - 1
\* times over at most when attempts fail.
THEOREM ExitsClose == Spec => []CurrentExitCloses
<1>1. IInv => CurrentExitCloses
  <2> SUFFICES ASSUME IInv, decision.current, decision.said = "FLAT"
               PROVE  /\ broker - decision.from \in Parts(-Trades * decision.from)
                      /\ NothingSent /\ ~unclear => broker = 0
    BY DEF CurrentExitCloses
  <2>1. /\ broker - decision.from \in Parts(Trades * decision.asked)
        /\ NothingSent /\ ~unclear => broker = decision.from + decision.asked
        /\ decision.asked = -decision.from
    BY DEF IInv, OneOrder, AsksWithinMeans
  <2>2. decision.from \in Int /\ broker \in Int /\ Trades \in Nat
    BY TradesIs DEF IInv, TypeOK
  <2> DEFINE f == decision.from
             t == Trades
  <2>3. t * (-f) = -t * f
    <3>1. f \in Int /\ t \in Int
      BY <2>2
    <3> HIDE DEF f, t
    <3> QED
      BY <3>1
  <2> QED
    BY <2>1, <2>2, <2>3
<1> QED
  BY <1>1, InductiveInvariant, PTL

\* An entry decided on an up-to-date book trades no more than the capital that
\* is left, or MaxRetries times that when attempts fail.
THEOREM WithinCapital == Spec => []EntriesWithinCapital
<1>1. IInv => EntriesWithinCapital
  <2> SUFFICES ASSUME IInv, decision.current PROVE EntriesWithinCapital
    BY DEF EntriesWithinCapital
  <2> DEFINE c == CapitalLeft(decision.from)
             t == Trades
             x == broker - decision.from
             a == decision.asked
  <2>1. decision.from \in Int /\ t \in Nat
    BY TradesIs DEF IInv, TypeOK
  <2>2. c \in Nat
    BY <2>1, CapitalLeftIs
  <2>3. /\ x \in Parts(t * a)
        /\ decision.said = "LONG" => a \in Parts(c)
        /\ decision.said = "SHORT" => a \in Parts(-c)
    BY DEF IInv, OneOrder, AsksWithinMeans
  <2>4. /\ decision.said = "LONG" => x \in Parts(t * c)
        /\ decision.said = "SHORT" => x \in Parts(-(t * c))
    <3> HIDE DEF c, t, x, a
    <3>1. -c \in Int /\ t * (-c) = -(t * c)
      BY <2>1, <2>2
    <3>2. ASSUME decision.said = "LONG" PROVE x \in Parts(t * c)
      BY <2>1, <2>2, <2>3, <3>2, PartsOfPart
    <3>3. ASSUME decision.said = "SHORT" PROVE x \in Parts(t * (-c))
      BY <2>1, <2>3, <3>1, <3>3, PartsOfPart
    <3> QED
      BY <3>1, <3>2, <3>3
  <2> QED
    BY <2>4 DEF EntriesWithinCapital
<1> QED
  BY <1>1, InductiveInvariant, PTL
-----------------------------------------------------------------------------
(* What the quantities of a stream or of a book add up to                    *)

\* A stream of integers adds up to an integer, nothing to zero.
LEMMA TotalOfSeq ==
    ASSUME NEW s \in Seq(Int)
    PROVE  Total(s) = SumFunctionOnSet(s, 1..Len(s)) /\ Total(s) \in Int /\ Integral(s, 1..Len(s))
<1>1. DOMAIN s = 1..Len(s) /\ Len(s) \in Nat
  OBVIOUS
<1>2. Integral(s, 1..Len(s)) /\ IsFiniteSet(1..Len(s))
  BY <1>1, FS_Interval DEF Integral
<1>3. SumFunctionOnSet(s, 1..Len(s)) \in Int
  BY <1>2, SumType
<1>4. Total(s) = SumFunctionOnSet(s, 1..Len(s))
  BY <1>1 DEF Total, SumFunction
<1> QED
  BY <1>2, <1>3, <1>4

\* A stream without entries adds up to nothing.
LEMMA TotalOfNothing == Total(<<>>) = 0
<1> DEFINE e == <<>>
<1>1. DOMAIN e = {}
  OBVIOUS
<1> HIDE DEF e
<1>2. Total(e) = 0
  BY <1>1, SumEmpty DEF Total, SumFunction
<1> QED
  BY <1>2 DEF e

\* Each entry of a stream counts once.
LEMMA TotalOfAppend ==
    ASSUME NEW s \in Seq(Int), NEW x \in Int
    PROVE  Total(Append(s, x)) = Total(s) + x
<1> DEFINE t == Append(s, x)
           n == Len(s)
<1>1. t \in Seq(Int) /\ Len(t) = n + 1 /\ n \in Nat /\ t[n + 1] = x /\ \A i \in 1..n : t[i] = s[i]
  OBVIOUS
<1>2. Agree(s, t, 1..n) /\ IsFiniteSet(1..n)
  BY <1>1, FS_Interval DEF Agree
<1> HIDE DEF t
<1>3. Total(t) = SumFunctionOnSet(t, 1..(n + 1)) /\ Integral(t, 1..(n + 1))
  BY <1>1, TotalOfSeq
<1>4. Total(s) = SumFunctionOnSet(s, 1..n)
  BY TotalOfSeq
<1>5. SumFunctionOnSet(s, 1..n) = SumFunctionOnSet(t, 1..n)
  BY <1>2, SumSame
<1> HIDE DEF n
<1>6. SumFunctionOnSet(t, 1..(n + 1)) = SumFunctionOnSet(t, 1..n) + t[n + 1]
  <2>1. 1 \in Nat /\ 1 <= n + 1
    BY <1>1
  <2> QED
    BY <1>1, <1>3, <2>1, SumLast
<1>7. Total(t) = Total(s) + x
  BY <1>1, <1>3, <1>4, <1>5, <1>6
<1> QED
  BY <1>7 DEF t

\* A stream may be cut in two anywhere.
LEMMA TotalOfParts ==
    ASSUME NEW s \in Seq(Int), NEW n \in Nat, n <= Len(s)
    PROVE  /\ Total(SubSeq(s, 1, n)) \in Int
           /\ Total(SubSeq(s, n + 1, Len(s))) \in Int
           /\ Total(s) = Total(SubSeq(s, 1, n)) + Total(SubSeq(s, n + 1, Len(s)))
<1> DEFINE m == Len(s)
           u == SubSeq(s, 1, n)
           v == SubSeq(s, n + 1, m)
<1>1. /\ m \in Nat /\ m - n \in Nat
      /\ u \in Seq(Int) /\ Len(u) = n /\ \A i \in 1..n : u[i] = s[i]
      /\ v \in Seq(Int) /\ Len(v) = m - n /\ \A i \in 1..(m - n) : v[i] = s[n + i]
  OBVIOUS
<1> HIDE DEF u, v
<1>2. Agree(u, s, 1..n) /\ IsFiniteSet(1..n)
  BY <1>1, FS_Interval DEF Agree
<1>3. /\ Total(s) = SumFunctionOnSet(s, 1..m) /\ Integral(s, 1..m)
      /\ Total(u) = SumFunctionOnSet(u, 1..n) /\ Total(u) \in Int
      /\ Total(v) = SumFunctionOnSet(v, 1..(m - n)) /\ Total(v) \in Int
  BY <1>1, TotalOfSeq
<1>4. SumFunctionOnSet(u, 1..n) = SumFunctionOnSet(s, 1..n)
  BY <1>2, SumSame
<1> DEFINE k == m - n
<1>5. SumFunctionOnSet(v, 1..k) = SumFunctionOnSet(s, (n + 1)..(n + k))
  <2>1. Integral(s, (n + 1)..(n + k))
    BY <1>1, <1>3 DEF Integral
  <2>2. k \in Nat /\ \A i \in 1..k : v[i] = s[n + i]
    BY <1>1
  <2> HIDE DEF k, m
  <2> QED
    BY <2>1, <2>2, SumShift
<1>6. n + k = m
  BY <1>1
<1>7. SumFunctionOnSet(s, 1..m) = SumFunctionOnSet(s, 1..n) + SumFunctionOnSet(s, (n + 1)..m)
  BY <1>1, <1>3, SumSplit
<1>8. Total(s) = Total(u) + Total(v)
  BY <1>3, <1>4, <1>5, <1>6, <1>7
<1> QED
  BY <1>3, <1>8 DEF u, v

\* A batch and what it leaves add up to the stream.
LEMMA TotalOfBatch ==
    ASSUME NEW s \in Seq(Int)
    PROVE  /\ Total(Batch(s)) \in Int /\ Total(Rest(s)) \in Int
           /\ Total(s) = Total(Batch(s)) + Total(Rest(s))
<1> DEFINE len == Len(s)
           n == Min({BatchSize, len})
<1>1. BatchSize \in Nat /\ len \in Nat
  BY BusAssumption
<1>2. n \in Nat /\ n <= len
  <2> HIDE DEF len
  <2>1. n \in {BatchSize, len} /\ n <= len
    <3>1. BatchSize \in Int /\ len \in Int
      BY <1>1
    <3> QED
      BY <3>1, MinOfTwo, Zenon
  <2> HIDE DEF n
  <2> QED
    BY <1>1, <2>1
<1>3. Batch(s) = SubSeq(s, 1, n) /\ Rest(s) = SubSeq(s, n + 1, len)
  BY DEF Batch, Rest
<1> HIDE DEF n
<1> QED
  BY <1>2, <1>3, TotalOfParts

\* What is taken from the head of a stream leaves it.
LEMMA TotalOfTail ==
    ASSUME NEW s \in Seq(Int), s # <<>>
    PROVE  Head(s) \in Int /\ Tail(s) \in Seq(Int) /\ Total(s) = Head(s) + Total(Tail(s))
<1> DEFINE u == SubSeq(s, 1, 1)
           v == SubSeq(s, 2, Len(s))
<1>1. /\ Head(s) \in Int /\ 1 <= Len(s) /\ Tail(s) = v /\ Tail(s) \in Seq(Int)
      /\ u \in Seq(Int) /\ Len(u) = 1 /\ u[1] = Head(s)
  <2>1. Head(s) \in Int /\ Tail(s) \in Seq(Int)
    OBVIOUS
  <2>2. Len(s) \in Nat /\ Len(s) # 0
    OBVIOUS
  <2>3. Tail(s) = v
    OBVIOUS
  <2>4. u \in Seq(Int) /\ Len(u) = 1 /\ u[1] = Head(s)
    BY <2>2
  <2> QED
    BY <2>1, <2>2, <2>3, <2>4
<1>2. 1 + 1 = 2 /\ 1 \in Nat
  OBVIOUS
<1>3. Total(s) = Total(u) + Total(v)
  <2>1. Total(s) = Total(SubSeq(s, 1, 1)) + Total(SubSeq(s, 1 + 1, Len(s)))
    BY <1>1, <1>2, TotalOfParts
  <2> QED
    BY <1>2, <2>1
<1>4. Total(u) = Head(s)
  <2> HIDE DEF u
  <2>1. Total(u) = SumFunctionOnSet(u, 1..1) /\ Integral(u, 1..1)
    BY <1>1, TotalOfSeq
  <2>2. 0 + 1 = 1 /\ 1..0 = {}
    OBVIOUS
  <2>3. SumFunctionOnSet(u, 1..(0 + 1)) = SumFunctionOnSet(u, 1..0) + u[0 + 1]
    <3>1. 1 \in Nat /\ 0 \in Nat /\ 1 <= 0 + 1 /\ Integral(u, 1..(0 + 1))
      BY <2>1, <2>2
    <3> QED
      BY ONLY <3>1, SumLast
  <2>4. SumFunctionOnSet(u, 1..1) = 0 + u[1]
    BY <2>2, <2>3, SumEmpty
  <2> QED
    BY <1>1, <2>1, <2>4
<1> QED
  BY <1>1, <1>3, <1>4

\* A quantity that changes changes the total of the processes by as much.
LEMMA TotalMoves ==
    ASSUME NEW f \in [Processes -> Int], NEW g \in [Processes -> Int], NEW p \in Processes,
           \A q \in Processes \ {p} : g[q] = f[q]
    PROVE  Total(f) \in Int /\ Total(g) = Total(f) + (g[p] - f[p])
<1>1. /\ IsFiniteSet(Processes) /\ Integral(f, Processes) /\ Integral(g, Processes)
      /\ Agree(f, g, Processes \ {p})
  BY ProcessesAssumption DEF Integral, Agree
<1>2. Total(f) = SumFunctionOnSet(f, Processes) /\ Total(g) = SumFunctionOnSet(g, Processes)
  BY DEF Total, SumFunction
<1>3. SumFunctionOnSet(f, Processes) \in Int
  BY <1>1, SumType
<1>4. SumFunctionOnSet(g, Processes) = SumFunctionOnSet(f, Processes) + (g[p] - f[p])
  BY <1>1, SumChange
<1> QED
  BY <1>2, <1>3, <1>4
-----------------------------------------------------------------------------
(* Drift                                                                     *)

\* What the fills delivered to each process and not yet booked add up to.
BookingTotals == [p \in Processes |-> Total(booking[p])]

\* Drift as a difference of sums, each of which is a number.
LEMMA DriftTypes ==
    ASSUME TypeOK
    PROVE  /\ Drift = broker - Total(book) - Total(fills) - Total(BookingTotals)
           /\ broker \in Int /\ Total(fills) \in Int
           /\ book \in [Processes -> Int] /\ BookingTotals \in [Processes -> Int]
           /\ \A p \in Processes : Total(book) \in Int /\ Total(BookingTotals) \in Int
<1>1. Drift = broker - Total(book) - Total(fills) - Total(BookingTotals)
  BY DEF Drift, BookingTotals
<1>2. broker \in Int /\ Total(fills) \in Int /\ book \in [Processes -> Int]
  BY TotalOfSeq DEF TypeOK
<1>3. BookingTotals \in [Processes -> Int]
  BY TotalOfSeq DEF TypeOK, BookingTotals
<1>4. ASSUME NEW p \in Processes PROVE Total(book) \in Int /\ Total(BookingTotals) \in Int
  <2> DEFINE b == BookingTotals
  <2>1. b \in [Processes -> Int] /\ \A q \in Processes \ {p} : b[q] = b[q] /\ book[q] = book[q]
    BY <1>3
  <2> HIDE DEF b
  <2>2. Total(b) \in Int /\ Total(book) \in Int
    BY <1>2, <2>1, TotalMoves
  <2> QED
    BY <2>2 DEF b
<1> QED
  BY <1>1, <1>2, <1>3, <1>4

\* XADD trims nothing from a stream that has room, and what it trims is missed.
LEMMA ExecuteDrift ==
    ASSUME TypeOK, NEW p \in Processes, Execute(p)
    PROVE  /\ Drift' = Drift + Total(Append(fills, order[p])) - Total(fills')
           /\ Len(fills) < MaxLen => Drift' = Drift
<1> DEFINE all == Append(fills, order[p])
<1>1. /\ broker' = broker + order[p] /\ UNCHANGED <<book, booking>>
      /\ order[p] \in Int /\ fills \in Seq(Int) /\ fills' \in Seq(Int)
      /\ fills' \in Added(fills, order[p])
  <2>1. order[p] \in Int /\ fills \in Seq(Int) /\ fills' \in Added(fills, order[p])
    BY DEF Execute, TypeOK
  <2> QED
    BY <2>1, AddedType DEF Execute, memory
<1>2. Total(all) = Total(fills) + order[p] /\ Total(fills) \in Int /\ Total(fills') \in Int
  BY <1>1, TotalOfAppend, TotalOfSeq
<1>3. Drift' = broker' - Total(book) - Total(fills') - Total(BookingTotals)
  BY <1>1 DEF Drift, BookingTotals
<1>4. Drift' = Drift + Total(all) - Total(fills')
  <2>1. /\ Drift = broker - Total(book) - Total(fills) - Total(BookingTotals)
        /\ broker \in Int /\ Total(book) \in Int /\ Total(BookingTotals) \in Int
    BY DriftTypes
  <2> DEFINE x == Total(all)
             y == Total(fills')
             z == Total(fills)
             b == Total(book)
             t == Total(BookingTotals)
             o == order[p]
  <2>2. x = z + o /\ z \in Int /\ y \in Int /\ o \in Int
    BY <1>1, <1>2
  <2>3. broker' = broker + o /\ Drift' = broker' - b - y - t
    <3>1. broker' = broker + o
      BY <1>1
    <3>2. Drift' = broker' - b - y - t
      BY <1>3
    <3> QED
      BY <3>1, <3>2
  <2>4. Drift = broker - b - z - t /\ broker \in Int /\ b \in Int /\ t \in Int
    BY <2>1
  <2>5. Drift' = Drift + x - y
    <3> HIDE DEF x, y, z, b, t, o
    <3> QED
      BY <2>2, <2>3, <2>4
  <2> QED
    BY <2>5
<1>5. ASSUME Len(fills) < MaxLen PROVE fills' = all
  <2>1. all \in Seq(Int) /\ Len(all) = Len(fills) + 1 /\ Len(fills) \in Nat
    BY <1>1
  <2> HIDE DEF all
  <2>2. SubSeq(all, 1, Len(all)) = all
    BY <2>1
  <2> DEFINE top == Len(all) - MaxLen + 1
  <2>3. top \in Int /\ top <= 1
    BY <1>5, <2>1, BusAssumption
  <2>4. fills' \in {SubSeq(all, k, Len(all)) : k \in 1..Max({1, top})}
    BY <1>1 DEF Added, all
  <2> HIDE DEF top
  <2>5. Max({1, top}) \in {1, top} /\ Max({1, top}) >= 1
    <3>1. 1 \in Int
      OBVIOUS
    <3> QED
      BY <2>3, <3>1, MaxOfTwo, Zenon
  <2>6. Max({1, top}) = 1
    BY <2>3, <2>5
  <2> QED
    BY <2>2, <2>4, <2>6
<1>6. ASSUME Len(fills) < MaxLen PROVE Drift' = Drift
  <2> DEFINE x == Total(all)
  <2>1. Total(fills') = x /\ x \in Int
    BY <1>1, <1>2, <1>5, <1>6
  <2>2. Drift \in Int
    BY DriftTypes
  <2>3. Drift' = Drift + x - x
    BY <1>4, <2>1
  <2> HIDE DEF x
  <2> QED
    BY <2>1, <2>2, <2>3
<1> QED
  BY <1>4, <1>6

\* The fills of a batch leave the stream for the process they are delivered to.
LEMMA ReadKeepsDrift ==
    ASSUME TypeOK, NEW p \in Processes, ReadFills(p)
    PROVE  Drift' = Drift
<1> DEFINE old == BookingTotals
           new == [q \in Processes |-> Total(booking'[q])]
<1>1. /\ booking[p] = <<>> /\ booking' = [booking EXCEPT ![p] = Batch(fills)]
      /\ fills' = Rest(fills) /\ UNCHANGED <<book, broker>>
      /\ fills \in Seq(Int) /\ booking \in [Processes -> Seq(Int)]
  BY DEF ReadFills, TypeOK
<1>2. Total(Batch(fills)) \in Int /\ Total(Rest(fills)) \in Int
      /\ Total(fills) = Total(Batch(fills)) + Total(Rest(fills))
  BY <1>1, TotalOfBatch
<1>3. old[p] = 0 /\ new[p] = Total(Batch(fills)) /\ \A q \in Processes \ {p} : new[q] = old[q]
  BY <1>1, TotalOfNothing DEF BookingTotals
<1>4. old \in [Processes -> Int] /\ new \in [Processes -> Int]
  BY <1>1, <1>2, <1>3, DriftTypes
<1> HIDE DEF old, new
<1>5. Total(old) \in Int /\ Total(new) = Total(old) + (new[p] - old[p])
  BY <1>3, <1>4, TotalMoves
<1>6. Drift' = broker - Total(book) - Total(fills') - Total(new)
  BY <1>1 DEF Drift, new
<1>7. Drift = broker - Total(book) - Total(fills) - Total(old) /\ broker \in Int /\ Total(book) \in Int
  BY DriftTypes DEF old
<1> QED
  BY <1>1, <1>2, <1>3, <1>5, <1>6, <1>7

\* A fill that is booked leaves the deliveries for the book.
LEMMA BookKeepsDrift ==
    ASSUME TypeOK, NEW p \in Processes, BookFill(p)
    PROVE  Drift' = Drift
<1> DEFINE old == BookingTotals
           new == [q \in Processes |-> Total(booking'[q])]
           h == Head(booking[p])
<1>1. /\ booking[p] # <<>> /\ booking' = [booking EXCEPT ![p] = Tail(booking[p])]
      /\ book' = [book EXCEPT ![p] = book[p] + h] /\ UNCHANGED <<fills, broker>>
      /\ booking[p] \in Seq(Int) /\ booking \in [Processes -> Seq(Int)] /\ book \in [Processes -> Int]
  <2>1. /\ booking[p] \in Seq(Int) /\ booking \in [Processes -> Seq(Int)]
        /\ book \in [Processes -> Int]
    BY DEF TypeOK
  <2>2. /\ booking[p] # <<>> /\ booking' = [booking EXCEPT ![p] = Tail(booking[p])]
        /\ book' = [book EXCEPT ![p] = book[p] + h]
    BY DEF BookFill
  <2>3. UNCHANGED <<fills, broker>>
    BY DEF BookFill, streams
  <2> QED
    BY <2>1, <2>2, <2>3
<1>2. /\ h \in Int /\ Tail(booking[p]) \in Seq(Int)
      /\ Total(booking[p]) = h + Total(Tail(booking[p]))
  BY <1>1, TotalOfTail
<1>3. Total(Tail(booking[p])) \in Int
  BY <1>2, TotalOfSeq
<1>4. /\ old[p] = Total(booking[p]) /\ new[p] = Total(Tail(booking[p]))
      /\ \A q \in Processes \ {p} : new[q] = old[q]
  BY <1>1 DEF BookingTotals
<1>5. old \in [Processes -> Int] /\ new \in [Processes -> Int]
  BY <1>3, <1>4, DriftTypes
<1> HIDE DEF old, new, h
<1>6. Total(old) \in Int /\ Total(new) = Total(old) + (new[p] - old[p])
  BY <1>4, <1>5, TotalMoves
<1>7. Total(book) \in Int /\ Total(book') = Total(book) + h
  <2>1. book' \in [Processes -> Int] /\ book'[p] = book[p] + h /\ book[p] \in Int
        /\ \A q \in Processes \ {p} : book'[q] = book[q]
    BY <1>1, <1>2
  <2>2. Total(book) \in Int /\ Total(book') = Total(book) + (book'[p] - book[p])
    BY <1>1, <2>1, TotalMoves
  <2> QED
    BY <1>2, <2>1, <2>2
<1>8. Drift' = broker - Total(book') - Total(fills) - Total(new)
  BY <1>1 DEF Drift, new
<1>9. /\ Drift = broker - Total(book) - Total(fills) - Total(old)
      /\ broker \in Int /\ Total(fills) \in Int
  BY DriftTypes DEF old
<1> DEFINE t == Total(Tail(booking[p]))
<1>10. t \in Int /\ new[p] = t /\ old[p] = h + t
  BY <1>2, <1>3, <1>4
<1> HIDE DEF t
<1> QED
  BY <1>2, <1>6, <1>7, <1>8, <1>9, <1>10

\* What a broker trades without a fill is missed.
LEMMA TradeDrift ==
    ASSUME TypeOK, NEW p \in Processes, NEW part \in Int, broker' = broker + part,
           UNCHANGED <<book, fills, booking>>
    PROVE  Drift' = Drift + part
<1>1. Drift' = broker' - Total(book) - Total(fills) - Total(BookingTotals)
  BY DEF Drift, BookingTotals
<1> QED
  BY <1>1, DriftTypes

\* Fills lost with the reply that carries them are missed.
LEMMA LoseDrift ==
    ASSUME TypeOK, NEW p \in Processes, LoseFills(p)
    PROVE  Drift' = Drift + Total(Batch(fills))
<1>1. fills' = Rest(fills) /\ UNCHANGED <<broker, book, booking>> /\ fills \in Seq(Int)
  BY DEF LoseFills, memory, TypeOK
<1>2. /\ Total(Batch(fills)) \in Int /\ Total(Rest(fills)) \in Int
      /\ Total(fills) = Total(Batch(fills)) + Total(Rest(fills))
  BY <1>1, TotalOfBatch
<1>3. Drift' = broker - Total(book) - Total(fills') - Total(BookingTotals)
  BY <1>1 DEF Drift, BookingTotals
<1> QED
  BY <1>1, <1>2, <1>3, DriftTypes

\* So is a fill that an exception drops.
LEMMA DropDrift ==
    ASSUME TypeOK, NEW p \in Processes, DropFill(p)
    PROVE  Drift' = Drift + Head(booking[p])
<1> DEFINE old == BookingTotals
           new == [q \in Processes |-> Total(booking'[q])]
           h == Head(booking[p])
           t == Total(Tail(booking[p]))
<1>1. /\ booking[p] # <<>> /\ booking' = [booking EXCEPT ![p] = Tail(booking[p])]
      /\ UNCHANGED <<fills, broker, book>>
      /\ booking[p] \in Seq(Int) /\ booking \in [Processes -> Seq(Int)]
  BY DEF DropFill, streams, TypeOK
<1>2. h \in Int /\ Total(booking[p]) = h + t /\ t \in Int
  BY <1>1, TotalOfTail, TotalOfSeq
<1>3. old[p] = Total(booking[p]) /\ new[p] = t /\ \A q \in Processes \ {p} : new[q] = old[q]
  BY <1>1 DEF BookingTotals
<1>4. old \in [Processes -> Int] /\ new \in [Processes -> Int]
  BY <1>2, <1>3, DriftTypes
<1>5. Drift' = broker - Total(book) - Total(fills) - Total(new)
  BY <1>1 DEF Drift
<1>6. /\ Drift = broker - Total(book) - Total(fills) - Total(old)
      /\ broker \in Int /\ Total(fills) \in Int /\ Total(book) \in Int
  BY DriftTypes
<1> HIDE DEF old, new, h, t
<1>7. Total(old) \in Int /\ Total(new) = Total(old) + (new[p] - old[p])
  BY <1>3, <1>4, TotalMoves
<1>8. Drift' = Drift + h
  BY <1>2, <1>3, <1>5, <1>6, <1>7
<1> QED
  BY <1>8 DEF h

\* A process that goes down forgets its book and the fills delivered to it.
LEMMA DownDrift ==
    ASSUME TypeOK, NEW p \in Processes, Down(p)
    PROVE  Drift' = Drift + book[p] + Total(booking[p])
<1> DEFINE old == BookingTotals
           new == [q \in Processes |-> Total(booking'[q])]
           t == Total(booking[p])
<1>1. /\ booking' = [booking EXCEPT ![p] = <<>>] /\ book' = [book EXCEPT ![p] = 0]
      /\ UNCHANGED <<fills, broker>>
      /\ booking \in [Processes -> Seq(Int)] /\ book \in [Processes -> Int]
  BY DEF Down, streams, TypeOK
<1>2. t \in Int
  BY <1>1, TotalOfSeq
<1>3. old[p] = t /\ new[p] = 0 /\ \A q \in Processes \ {p} : new[q] = old[q]
  BY <1>1, TotalOfNothing DEF BookingTotals
<1>4. old \in [Processes -> Int] /\ new \in [Processes -> Int]
  BY <1>2, <1>3, DriftTypes
<1>5. Drift' = broker - Total(book') - Total(fills) - Total(new)
  BY <1>1 DEF Drift
<1>6. /\ Drift = broker - Total(book) - Total(fills) - Total(old)
      /\ broker \in Int /\ Total(fills) \in Int
  BY DriftTypes
<1> HIDE DEF old, new, t
<1>7. Total(old) \in Int /\ Total(new) = Total(old) + (new[p] - old[p])
  BY <1>3, <1>4, TotalMoves
<1>8. Total(book) \in Int /\ Total(book') = Total(book) - book[p] /\ book[p] \in Int
  <2>1. /\ book' \in [Processes -> Int] /\ book'[p] = 0 /\ book[p] \in Int
        /\ \A q \in Processes \ {p} : book'[q] = book[q]
    BY <1>1
  <2>2. Total(book) \in Int /\ Total(book') = Total(book) + (book'[p] - book[p])
    BY <1>1, <2>1, TotalMoves
  <2> QED
    BY <2>1, <2>2
<1>9. Drift' = Drift + book[p] + t
  BY <1>2, <1>3, <1>5, <1>6, <1>7, <1>8
<1> QED
  BY <1>9 DEF t

\* The books follow the broker but for failed and unobserved attempts, trades
\* that no fill records, fills that are trimmed, lost or dropped and processes
\* that go down; each moves them apart by what it trades or forgets, and no
\* other step moves them.
THEOREM DriftIsFromFailures == Spec => DriftOnlyFromFailures
<1> DEFINE Failure(p) ==
             \/ \E part \in Parts(order[p]) :
                   (AttemptFails(p, part) \/ AttemptUnobserved(p, part)) /\ Drift' = Drift + part
             \/ ExecuteUnrecorded(p) /\ Drift' = Drift + order[p]
             \/ /\ Execute(p) /\ Len(fills) >= MaxLen
                /\ Drift' = Drift + Total(Append(fills, order[p])) - Total(fills')
             \/ LoseFills(p) /\ Drift' = Drift + Total(Batch(fills))
             \/ DropFill(p) /\ Drift' = Drift + Head(booking[p])
             \/ Down(p) /\ Drift' = Drift + book[p] + Total(booking[p])
<1>1. IInv /\ [Next]_vars => [Drift' = Drift \/ \E p \in Processes : Failure(p)]_vars
  <2> SUFFICES ASSUME IInv, Next PROVE Drift' = Drift \/ \E p \in Processes : Failure(p)
    OBVIOUS
  <2>1. ASSUME NEW p \in Processes,
               \/ Start(p) \/ (\E d \in Directions : Bar(p, d))
               \/ ReadSignals(p) \/ LoseSignals(p) \/ HandleSignal(p)
        PROVE  Drift' = Drift
    <3>1. UNCHANGED <<broker, book, fills, booking>>
      BY <2>1 DEF Start, Bar, ReadSignals, LoseSignals, HandleSignal, memory, streams
    <3> QED
      BY <3>1 DEF Drift
  <2>2. ASSUME NEW p \in Processes, ReadFills(p) \/ BookFill(p) PROVE Drift' = Drift
    BY <2>2, ReadKeepsDrift, BookKeepsDrift DEF IInv
  <2>3. ASSUME NEW p \in Processes, Execute(p) PROVE Drift' = Drift \/ Failure(p)
    <3>1. Len(fills) \in Nat /\ MaxLen \in Nat
      BY BusAssumption DEF IInv, TypeOK
    <3> QED
      BY <2>3, <3>1, ExecuteDrift DEF IInv
  <2>4. ASSUME NEW p \in Processes, ExecuteUnrecorded(p) PROVE Failure(p)
    <3>1. /\ broker' = broker + order[p] /\ UNCHANGED <<book, fills, booking>> /\ order[p] \in Int
      BY <2>4 DEF ExecuteUnrecorded, memory, streams, IInv, TypeOK
    <3>2. Drift' = Drift + order[p]
      BY <3>1, TradeDrift DEF IInv
    <3> QED
      BY <2>4, <3>2
  <2>5. ASSUME NEW p \in Processes, NEW part \in Parts(order[p]),
               AttemptFails(p, part) \/ AttemptUnobserved(p, part)
        PROVE  Failure(p)
    <3>1. part \in Int
      BY PartsEnds DEF IInv, TypeOK
    <3>2. broker' = broker + part /\ UNCHANGED <<book, fills, booking>>
      BY <2>5 DEF AttemptFails, AttemptUnobserved, memory, streams
    <3>3. Drift' = Drift + part
      BY <3>1, <3>2, TradeDrift DEF IInv
    <3> QED
      BY <2>5, <3>3
  <2>6. ASSUME NEW p \in Processes, LoseFills(p) \/ DropFill(p) \/ Down(p) PROVE Failure(p)
    <3>1. /\ LoseFills(p) => Drift' = Drift + Total(Batch(fills))
          /\ DropFill(p) => Drift' = Drift + Head(booking[p])
          /\ Down(p) => Drift' = Drift + book[p] + Total(booking[p])
      BY LoseDrift, DropDrift, DownDrift DEF IInv
    <3> QED
      BY <2>6, <3>1
  <2> HIDE DEF Failure
  <2> QED
    BY <2>1, <2>2, <2>3, <2>4, <2>5, <2>6 DEF Next, Answered
<1> QED
  BY <1>1, InductiveInvariant, PTL DEF Spec, DriftOnlyFromFailures
=============================================================================
