-------------------------- MODULE PortfolioProofs --------------------------
(***************************************************************************)
(* Theorems about Portfolio, for any symbols, prices, quantities,          *)
(* commission, capital, cent and shares of the sizer.                      *)
(***************************************************************************)
EXTENDS Portfolio, SumTheorems
-----------------------------------------------------------------------------
(* Rounding *)

\* Integer division, bounded by its divisor.
LEMMA DivisionBounds ==
    ASSUME NEW a \in Int, NEW b \in Nat \ {0}
    PROVE  /\ a \div b \in Int
           /\ b * (a \div b) <= a
           /\ a < b * (a \div b) + b
  OBVIOUS

\* HalfUp is within one half of the exact quotient.
LEMMA HalfUpNearest ==
    ASSUME NEW n \in Int, NEW d \in Nat \ {0}
    PROVE  /\ HalfUp(n, d) \in Int
           /\ 2 * (d * HalfUp(n, d)) <= 2 * n + d
           /\ 2 * n - d <= 2 * (d * HalfUp(n, d))
<1>1. CASE n >= 0
  <2> DEFINE q == (2 * n + d) \div (2 * d)
  <2>1. /\ q \in Int
        /\ (2 * d) * q <= 2 * n + d
        /\ 2 * n + d < (2 * d) * q + 2 * d
    <3>1. 2 * n + d \in Int /\ 2 * d \in Nat \ {0}
      OBVIOUS
    <3> QED
      BY <3>1, DivisionBounds, Zenon
  <2>2. (2 * d) * q = 2 * (d * q)
    BY <2>1
  <2>3. HalfUp(n, d) = q
    BY <1>1 DEF HalfUp
  <2> QED
    BY <2>1, <2>2, <2>3
<1>2. CASE n < 0
  <2> DEFINE q == (d - 2 * n) \div (2 * d)
  <2>1. /\ q \in Int
        /\ (2 * d) * q <= d - 2 * n
        /\ d - 2 * n < (2 * d) * q + 2 * d
    <3>1. d - 2 * n \in Int /\ 2 * d \in Nat \ {0}
      OBVIOUS
    <3> QED
      BY <3>1, DivisionBounds, Zenon
  <2>2. (2 * d) * q = 2 * (d * q) /\ d * (-q) = -(d * q)
    BY <2>1
  <2>3. HalfUp(n, d) = -q
    BY <1>2 DEF HalfUp
  <2> QED
    BY <2>1, <2>2, <2>3
<1> QED
  BY <1>1, <1>2

\* The sign of a factor is the sign of the product.
LEMMA NegativeFactor ==
    ASSUME NEW x \in Int, NEW y \in Int
    PROVE  (-x) * y = -(x * y)
  OBVIOUS

\* A difference and its factor, both with their signs changed.
LEMMA OppositeFactors ==
    ASSUME NEW x \in Int, NEW y \in Int, NEW z \in Int
    PROVE  (x - y) * (-z) = (y - x) * z
  OBVIOUS

\* quantize moves an amount by half a cent at most.
LEMMA QuantizeNearest ==
    ASSUME NEW x \in Int
    PROVE  /\ Quantize(x) \in Int
           /\ 2 * Quantize(x) <= 2 * x + Cent
           /\ 2 * x - Cent <= 2 * Quantize(x)
<1> DEFINE h == HalfUp(x, Cent)
<1>1. Cent \in Nat \ {0}
  BY AmountsAssumption
<1>2. /\ h \in Int
      /\ 2 * (Cent * h) <= 2 * x + Cent
      /\ 2 * x - Cent <= 2 * (Cent * h)
  BY <1>1, HalfUpNearest, Zenon
<1>3. Quantize(x) = Cent * h
  BY DEF Quantize
<1> QED
  BY <1>1, <1>2, <1>3

\* Nothing is added to an amount of nothing.
LEMMA QuantizeZero == Quantize(0) = 0
<1> DEFINE h == HalfUp(0, Cent)
<1>1. Cent \in Nat \ {0} /\ 0 \in Int
  BY AmountsAssumption
<1>2. /\ h \in Int
      /\ 2 * (Cent * h) <= 2 * 0 + Cent
      /\ 2 * 0 - Cent <= 2 * (Cent * h)
  BY <1>1, HalfUpNearest, Zenon
<1>3. ASSUME h >= 1 PROVE FALSE
  <2>1. Cent * h >= Cent
    BY <1>1, <1>2, <1>3
  <2> QED
    BY <2>1, <1>1, <1>2
<1>4. ASSUME h <= -1 PROVE FALSE
  <2>1. Cent * h <= -Cent
    BY <1>1, <1>2, <1>4
  <2> QED
    BY <2>1, <1>1, <1>2
<1>5. h = 0
  BY <1>2, <1>3, <1>4
<1> QED
  BY <1>1, <1>5 DEF Quantize

\* The smaller of two numbers.
LEMMA MinOfTwo ==
    ASSUME NEW a \in Int, NEW b \in Int
    PROVE  Min({a, b}) = IF a <= b THEN a ELSE b
  BY DEF Min

\* The larger of two numbers.
LEMMA MaxOfTwo ==
    ASSUME NEW a \in Int, NEW b \in Int
    PROVE  Max({a, b}) = IF a >= b THEN a ELSE b
  BY DEF Max
-----------------------------------------------------------------------------
(* One position *)

\* A position as a fill finds it: NewPosition or an open one.
Fillable(pos) ==
    /\ pos \in [net : Int, avg : Nat, unrealised : Int, price : Nat]
    /\ pos.net # 0 => pos.avg > 0

\* A fill adds its quantity, and leaves an average price that is positive.
LEMMA ApplyFillType ==
    ASSUME NEW pos, Fillable(pos), NEW signed \in Int \ {0}, NEW p \in Nat \ {0}
    PROVE  /\ ApplyFill(pos, signed, p) \in [net : Int, avg : Nat \ {0}, unrealised : Int, price : Nat]
           /\ ApplyFill(pos, signed, p).net = pos.net + signed
           /\ ApplyFill(pos, signed, p).avg = AverageAfter(pos, signed, p)
           /\ ApplyFill(pos, signed, p).unrealised = pos.unrealised
           /\ ApplyFill(pos, signed, p).price = pos.price
<1>1. AverageAfter(pos, signed, p) \in Nat \ {0}
  <2>1. CASE pos.net = 0
    BY <2>1 DEF AverageAfter
  <2>2. CASE pos.net # 0 /\ Closes(pos, signed)
    BY <2>2 DEF AverageAfter, Fillable
  <2>3. CASE pos.net # 0 /\ ~Closes(pos, signed)
    <3> DEFINE n == Abs(pos.net)
               k == Abs(signed)
               total == pos.avg * n + p * k
               a == HalfUp(total, n + k)
    <3>1. /\ n \in Nat \ {0} /\ k \in Nat \ {0} /\ pos.avg \in Nat \ {0}
      BY <2>3 DEF Abs, Fillable
    <3>2. pos.avg * n \in Nat /\ pos.avg * n >= n /\ p * k \in Nat /\ p * k >= k
      BY <3>1
    <3> HIDE DEF n, k
    <3>3. total \in Int /\ n + k \in Nat \ {0} /\ total >= n + k
      BY <3>1, <3>2
    <3> HIDE DEF total
    <3>4. a \in Int /\ 2 * total - (n + k) <= 2 * ((n + k) * a)
      BY <3>3, HalfUpNearest, Zenon
    <3> HIDE DEF a
    <3>5. (n + k) * a > 0
      BY <3>3, <3>4
    <3>6. a > 0
      BY <3>3, <3>4, <3>5
    <3>7. AverageAfter(pos, signed, p) = a
      BY <2>3 DEF AverageAfter, a, total, n, k
    <3> QED
      BY <3>4, <3>6, <3>7
  <2> QED
    BY <2>1, <2>2, <2>3
<1> DEFINE avg == AverageAfter(pos, signed, p)
<1>2. ApplyFill(pos, signed, p) = [pos EXCEPT !.net = pos.net + signed, !.avg = avg]
  BY DEF ApplyFill
<1>3. avg \in Nat \ {0} /\ avg = AverageAfter(pos, signed, p)
  BY <1>1
<1> HIDE DEF avg
<1>4. ApplyFill(pos, signed, p) =
        [net |-> pos.net + signed, avg |-> avg, unrealised |-> pos.unrealised, price |-> pos.price]
  BY <1>2 DEF Fillable
<1>5. pos.net \in Int /\ pos.unrealised \in Int /\ pos.price \in Nat
  BY DEF Fillable
<1> QED
  BY <1>3, <1>4, <1>5

\* What a fill realises is a number.
LEMMA GainType ==
    ASSUME NEW pos, Fillable(pos), NEW signed \in Int \ {0}, NEW p \in Nat \ {0}
    PROVE  Gain(pos, signed, p) \in Int
<1> DEFINE closed == Min({Abs(signed), Abs(pos.net)})
           perUnit == IF pos.net > 0 THEN p - pos.avg ELSE pos.avg - p
<1>1. Abs(signed) \in Int /\ Abs(pos.net) \in Int
  BY DEF Abs, Fillable
<1>2. closed \in Int
  BY <1>1, MinOfTwo
<1>3. perUnit \in Int
  BY DEF Fillable
<1>4. Gain(pos, signed, p) = IF Closes(pos, signed) THEN perUnit * closed ELSE 0
  BY DEF Gain
<1> HIDE DEF closed, perUnit
<1>5. perUnit * closed \in Int
  BY <1>2, <1>3
<1> QED
  BY <1>4, <1>5

\* What a fill that does not cross zero pays, it adds to the cost of the
\* position, up to the gain and the rounding.
LEMMA FillDrift ==
    ASSUME NEW pos, Fillable(pos), NEW signed \in Int \ {0}, NEW p \in Nat \ {0},
           pos.net * (pos.net + signed) >= 0
    PROVE  /\ SlackOf(pos, ApplyFill(pos, signed, p), signed) \in Nat
           /\ 2 * Abs((pos.net + signed) * AverageAfter(pos, signed, p) - pos.net * pos.avg
                        - signed * p - Quantize(Gain(pos, signed, p)))
                <= SlackOf(pos, ApplyFill(pos, signed, p), signed)
<1> DEFINE after == pos.net + signed
           avg == AverageAfter(pos, signed, p)
           gain == Gain(pos, signed, p)
           drift == after * avg - pos.net * pos.avg - signed * p - Quantize(gain)
           slk == SlackOf(pos, ApplyFill(pos, signed, p), signed)
<1>1. pos.net \in Int /\ pos.avg \in Nat /\ Cent \in Nat \ {0}
  BY AmountsAssumption DEF Fillable
<1>2. slk = IF Closes(pos, signed) THEN Cent ELSE Abs(after)
  BY ApplyFillType DEF SlackOf
<1>3. slk \in Nat
  BY <1>1, <1>2 DEF Abs
<1>4. CASE pos.net = 0
  <2>1. ~Closes(pos, signed)
    BY <1>4 DEF Closes
  <2>2. gain = 0 /\ avg = p
    BY <1>4, <2>1 DEF Gain, AverageAfter
  <2>3. drift = 0
    BY <1>4, <1>1, <2>2, QuantizeZero
  <2> QED
    BY <1>3, <2>3 DEF Abs
<1>5. CASE pos.net # 0 /\ Closes(pos, signed)
  <2>1. \/ pos.net > 0 /\ signed < 0 /\ after >= 0
        \/ pos.net < 0 /\ signed > 0 /\ after <= 0
    BY <1>1, <1>5 DEF Closes
  <2>2. Min({Abs(signed), Abs(pos.net)}) = Abs(signed)
    BY <1>1, <2>1, MinOfTwo DEF Abs
  <2>3. gain = (pos.avg - p) * signed
    <3>1. CASE pos.net > 0
      <4>1. gain = (p - pos.avg) * (-signed)
        BY <1>1, <1>5, <2>1, <2>2, <3>1 DEF Gain, Abs
      <4>2. p \in Int /\ pos.avg \in Int /\ signed \in Int
        BY <1>1
      <4> QED
        BY <4>1, <4>2, OppositeFactors, Zenon
    <3>2. CASE pos.net < 0
      <4>1. gain = (pos.avg - p) * signed
        BY <1>1, <1>5, <2>1, <2>2, <3>2 DEF Gain, Abs
      <4> QED
        BY <4>1
    <3> QED
      BY <1>1, <1>5, <3>1, <3>2
  <2>4. avg = pos.avg
    BY <1>5 DEF AverageAfter
  <2>5. gain \in Int
    BY GainType
  <2>6. drift = gain - Quantize(gain)
    <3>1. after * pos.avg - pos.net * pos.avg = signed * pos.avg
      BY <1>1
    <3>2. (pos.avg - p) * signed = signed * pos.avg - signed * p
      BY <1>1
    <3> QED
      BY <1>1, <2>3, <2>4, <2>5, <3>1, <3>2, QuantizeNearest
  <2>7. 2 * Abs(drift) <= slk
    <3>1. /\ Quantize(gain) \in Int
          /\ 2 * Quantize(gain) <= 2 * gain + Cent
          /\ 2 * gain - Cent <= 2 * Quantize(gain)
      BY <2>5, QuantizeNearest
    <3>2. slk = Cent
      BY <1>2, <1>5
    <3> HIDE DEF drift, slk, gain
    <3> QED
      BY <1>1, <2>5, <2>6, <3>1, <3>2 DEF Abs
  <2> QED
    BY <1>3, <2>7
<1>6. CASE pos.net # 0 /\ ~Closes(pos, signed)
  <2> DEFINE n == Abs(pos.net)
             k == Abs(signed)
             total == pos.avg * n + p * k
             a == HalfUp(total, n + k)
  <2>1. \/ pos.net > 0 /\ signed > 0
        \/ pos.net < 0 /\ signed < 0
    BY <1>1, <1>6 DEF Closes
  <2>2. n \in Nat \ {0} /\ k \in Nat \ {0}
    BY <1>1, <2>1 DEF Abs
  <2>3. total \in Int /\ n + k \in Nat \ {0}
    BY <1>1, <2>2
  <2>4. /\ a \in Int
        /\ 2 * ((n + k) * a) <= 2 * total + (n + k)
        /\ 2 * total - (n + k) <= 2 * ((n + k) * a)
    <3> HIDE DEF n, k, total
    <3> QED
      BY <2>3, HalfUpNearest, Zenon
  <2>5. gain = 0 /\ avg = a
    BY <1>6 DEF Gain, AverageAfter
  <2>6. Abs(after) = n + k
    BY <1>1, <2>1 DEF Abs
  <2>7. drift = (n + k) * a - total \/ drift = total - (n + k) * a
    <3>1. drift = after * a - pos.net * pos.avg - signed * p
      <4>1. after * a \in Int /\ pos.net * pos.avg \in Int /\ signed * p \in Int
        BY <1>1, <2>4
      <4> QED
        BY <2>5, <4>1, QuantizeZero
    <3>2. CASE pos.net > 0
      BY <1>1, <2>1, <2>4, <3>1, <3>2 DEF Abs
    <3>3. CASE pos.net < 0
      <4>1. after = -(n + k) /\ pos.net = -n /\ signed = -k
        BY <1>1, <2>1, <3>3 DEF Abs
      <4> HIDE DEF n, k, a, after
      <4>2. (-(n + k)) * a = -((n + k) * a) /\ (-n) * pos.avg = -(n * pos.avg) /\ (-k) * p = -(k * p)
        <5>1. /\ n + k \in Int /\ n \in Int /\ k \in Int
              /\ a \in Int /\ pos.avg \in Int /\ p \in Int
          BY <1>1, <2>2, <2>4
        <5> QED
          BY <5>1, NegativeFactor, Zenon
      <4> QED
        BY <1>1, <2>2, <2>4, <3>1, <4>1, <4>2
    <3> QED
      BY <1>1, <1>6, <3>2, <3>3
  <2>8. (n + k) * a \in Int
    BY <2>3, <2>4
  <2> HIDE DEF n, k, a, total
  <2> QED
    BY <1>2, <1>6, <2>2, <2>3, <2>4, <2>6, <2>7, <2>8 DEF Abs
<1> QED
  BY <1>3, <1>4, <1>5, <1>6
-----------------------------------------------------------------------------
(* The books *)

\* midnight is a past moment: without it the daily bound is not inductive.
MidnightIsPast == midnight.fills <= fills

IInv ==
    /\ BooksTypeOK
    /\ PositionsMatchFills
    /\ MidnightIsPast
    /\ DailyMatchesCumulative

\* Initially the books are empty.
LEMMA InitIInv == Init => IInv
<1> SUFFICES ASSUME Init PROVE IInv
  OBVIOUS
<1>1. BooksTypeOK
  <2>1. Open = {} /\ positions \in [Open -> PositionType]
    BY DEF Init, Open
  <2>2. filled \in [Symbols -> Int]
    BY DEF Init
  <2>3. midnight \in [realised : Int, fills : 0..MaxFills]
    BY FillsAssumption DEF Init
  <2>4. crossed \in BOOLEAN /\ fresh \subseteq Open
    BY Zenon DEF Init
  <2>5. /\ cash \in Int /\ realised \in Int /\ commissions \in Nat /\ daily \in Int
        /\ fills \in 0..MaxFills /\ slack \in Nat
    BY AmountsAssumption, FillsAssumption DEF Init
  <2> QED
    BY <2>1, <2>2, <2>3, <2>4, <2>5 DEF BooksTypeOK
<1>2. PositionsMatchFills
  BY DEF Init, PositionsMatchFills, PositionOf, Open, NewPosition
<1>3. MidnightIsPast
  BY DEF Init, MidnightIsPast
<1>4. DailyMatchesCumulative
  BY AmountsAssumption DEF Init, DailyMatchesCumulative, Abs
<1> QED
  BY <1>1, <1>2, <1>3, <1>4 DEF IInv

\* Every symbol has a position that a fill can be applied to, the open ones
\* theirs and the others a new one.
LEMMA FillableInBook ==
    ASSUME BooksTypeOK, NEW s \in Symbols
    PROVE  Fillable(PositionOf(s))
<1>1. CASE s \in Open
  <2>1. PositionOf(s) \in PositionType
    BY <1>1 DEF BooksTypeOK, PositionOf
  <2> QED
    BY <2>1 DEF PositionType, Fillable
<1>2. CASE s \notin Open
  BY <1>2 DEF PositionOf, NewPosition, Fillable
<1> QED
  BY <1>1, <1>2

\* A fill moves the position by a number other than zero.
LEMMA SignedType ==
    ASSUME NEW side, NEW q \in Quantities
    PROVE  Signed(side, q) \in Int \ {0}
  BY MarketAssumption DEF Signed

\* The dict after a fill.
LEMMA FillBook ==
    ASSUME BooksTypeOK, NEW s \in Symbols, NEW side \in Sides,
           NEW q \in Quantities, NEW p \in Prices, Fill(s, side, q, p)
    PROVE  LET after == ApplyFill(PositionOf(s), Signed(side, q), p)
           IN  /\ Open' \subseteq Symbols
               /\ positions' \in [Open' -> PositionType]
               /\ Open \ {s} \subseteq Open'
               /\ Open' \subseteq Open \cup {s}
               /\ \A t \in Open \ {s} : positions'[t] = positions[t]
               /\ s \in Open' <=> after.net # 0
               /\ s \in Open' => positions'[s] = after
<1> DEFINE after == ApplyFill(PositionOf(s), Signed(side, q), p)
<1>1. /\ after \in [net : Int, avg : Nat \ {0}, unrealised : Int, price : Nat]
  BY FillableInBook, SignedType, MarketAssumption, ApplyFillType
<1>2. positions' = BookWith(s, after)
  BY DEF Fill
<1> HIDE DEF after
<1>3. CASE after.net = 0
  <2>1. positions' = [t \in Open \ {s} |-> positions[t]]
    BY <1>2, <1>3 DEF BookWith, Restrict
  <2>2. Open' = Open \ {s}
    BY <2>1 DEF Open
  <2> QED
    BY <1>3, <2>1, <2>2 DEF BooksTypeOK, after
<1>4. CASE after.net # 0
  <2>1. positions' = [t \in Open \cup {s} |-> IF t = s THEN after ELSE positions[t]]
    BY <1>2, <1>4 DEF BookWith
  <2>2. Open' = Open \cup {s}
    BY <2>1 DEF Open
  <2>3. after \in PositionType
    BY <1>1, <1>4 DEF PositionType
  <2> QED
    BY <1>4, <2>1, <2>2, <2>3 DEF BooksTypeOK, after
<1> QED
  BY <1>3, <1>4

\* The position of the filled symbol moves by the fill, the others stay.
LEMMA FillMoves ==
    ASSUME BooksTypeOK, NEW s \in Symbols, NEW side \in Sides,
           NEW q \in Quantities, NEW p \in Prices, Fill(s, side, q, p)
    PROVE  /\ PositionOf(s)'.net = PositionOf(s).net + Signed(side, q)
           /\ PositionOf(s)'.net # 0 =>
                PositionOf(s)'.avg = AverageAfter(PositionOf(s), Signed(side, q), p)
           /\ \A t \in Symbols \ {s} : PositionOf(t)' = PositionOf(t)
<1> DEFINE after == ApplyFill(PositionOf(s), Signed(side, q), p)
<1>1. /\ after.net = PositionOf(s).net + Signed(side, q)
      /\ after.avg = AverageAfter(PositionOf(s), Signed(side, q), p)
  BY FillableInBook, SignedType, MarketAssumption, ApplyFillType
<1>2. /\ Open \ {s} \subseteq Open'
      /\ Open' \subseteq Open \cup {s}
      /\ \A t \in Open \ {s} : positions'[t] = positions[t]
      /\ s \in Open' <=> after.net # 0
      /\ s \in Open' => positions'[s] = after
  BY FillBook
<1> HIDE DEF after
<1>3. PositionOf(s)'.net = after.net /\ (after.net # 0 => PositionOf(s)' = after)
  BY <1>2 DEF PositionOf, NewPosition
<1>4. \A t \in Symbols \ {s} : PositionOf(t)' = PositionOf(t)
  BY <1>2 DEF PositionOf
<1> QED
  BY <1>1, <1>3, <1>4

\* A fill keeps the books in agreement with the fills.
LEMMA FillKeeps ==
    ASSUME IInv, NEW s \in Symbols, NEW side \in Sides,
           NEW q \in Quantities, NEW p \in Prices, Fill(s, side, q, p)
    PROVE  IInv'
<1> DEFINE before == PositionOf(s)
           signed == Signed(side, q)
           after == ApplyFill(before, signed, p)
           gain == Gain(before, signed, p)
<1>1. /\ Fillable(before)
      /\ signed \in Int \ {0}
      /\ p \in Nat \ {0}
  BY FillableInBook, SignedType, MarketAssumption DEF IInv
<1>2. /\ after \in [net : Int, avg : Nat \ {0}, unrealised : Int, price : Nat]
      /\ gain \in Int
      /\ before.net \in Int
  BY <1>1, ApplyFillType, GainType DEF Fillable
<1>3. /\ Quantize(gain) \in Int
      /\ 2 * Quantize(gain) <= 2 * gain + Cent
      /\ 2 * gain - Cent <= 2 * Quantize(gain)
  BY <1>2, QuantizeNearest
<1>4. /\ fills < MaxFills
      /\ realised' = realised + Quantize(gain)
      /\ commissions' = commissions + Commission
      /\ cash' = cash - signed * p - Commission
      /\ daily' = daily + gain
      /\ filled' = [filled EXCEPT ![s] = @ + signed]
      /\ fills' = fills + 1
      /\ slack' = slack + SlackOf(before, after, signed)
      /\ crossed' = (crossed \/ before.net * after.net < 0)
      /\ fresh' = fresh \ {s}
      /\ midnight' = midnight
  BY DEF Fill
<1>5. SlackOf(before, after, signed) \in Nat
  BY <1>2, AmountsAssumption DEF SlackOf, Abs
<1>6. BooksTypeOK'
  <2>1. /\ Open' \subseteq Symbols
        /\ positions' \in [Open' -> PositionType]
        /\ Open \ {s} \subseteq Open'
    BY FillBook DEF IInv
  <2>2. cash' \in Int
    <3>1. signed * p \in Int
      BY <1>1
    <3> HIDE DEF signed
    <3> QED
      BY <1>4, <3>1, AmountsAssumption DEF IInv, BooksTypeOK
  <2>3. realised' \in Int /\ daily' \in Int /\ commissions' \in Nat
    BY <1>2, <1>3, <1>4, AmountsAssumption DEF IInv, BooksTypeOK
  <2>4. filled' \in [Symbols -> Int]
    BY <1>1, <1>4 DEF IInv, BooksTypeOK
  <2>5. fills' \in 0..MaxFills /\ midnight' \in [realised : Int, fills : 0..MaxFills]
    BY <1>4, FillsAssumption DEF IInv, BooksTypeOK
  <2>6. slack' \in Nat
    BY <1>4, <1>5 DEF IInv, BooksTypeOK
  <2>7. crossed' \in BOOLEAN
    BY <1>4, Zenon DEF IInv, BooksTypeOK
  <2>8. fresh' \subseteq Open'
    BY <1>4, <2>1 DEF IInv, BooksTypeOK
  <2> QED
    BY <2>1, <2>2, <2>3, <2>4, <2>5, <2>6, <2>7, <2>8 DEF BooksTypeOK
<1>7. PositionsMatchFills'
  <2>1. /\ PositionOf(s)'.net = before.net + signed
        /\ \A t \in Symbols \ {s} : PositionOf(t)' = PositionOf(t)
    BY FillMoves DEF IInv
  <2>2. /\ filled'[s] = filled[s] + signed
        /\ \A t \in Symbols \ {s} : filled'[t] = filled[t]
    BY <1>4 DEF IInv, BooksTypeOK
  <2>3. SUFFICES ASSUME NEW t \in Symbols PROVE PositionOf(t)'.net = filled'[t]
    BY DEF PositionsMatchFills
  <2>4. PositionOf(t).net = filled[t] /\ before.net = filled[s]
    BY DEF IInv, PositionsMatchFills
  <2> QED
    BY <2>1, <2>2, <2>4
<1>8. MidnightIsPast'
  BY <1>4 DEF IInv, MidnightIsPast, BooksTypeOK
<1>9. DailyMatchesCumulative'
  <2>1. /\ daily \in Int /\ realised \in Int /\ midnight.realised \in Int
        /\ fills \in Int /\ midnight.fills \in Int /\ Cent \in Int
    BY AmountsAssumption DEF IInv, BooksTypeOK
  <2> DEFINE gap == daily - (realised - midnight.realised)
             days == Cent * (fills - midnight.fills)
  <2>2. 2 * Abs(gap) <= days
    BY DEF IInv, DailyMatchesCumulative
  <2>3. daily' - (realised' - midnight'.realised) = gap + (gain - Quantize(gain))
    BY <1>2, <1>3, <1>4, <2>1
  <2>4. Cent * (fills' - midnight'.fills) = days + Cent
    BY <1>4, <2>1
  <2>5. gap \in Int /\ days \in Int
    BY <2>1
  <2> HIDE DEF gap, days, gain
  <2>6. 2 * Abs(gap + (gain - Quantize(gain))) <= days + Cent
    BY <1>2, <1>3, <2>1, <2>2, <2>5 DEF Abs
  <2> QED
    BY <2>3, <2>4, <2>6 DEF DailyMatchesCumulative
<1> QED
  BY <1>6, <1>7, <1>8, <1>9 DEF IInv

\* So does a tick, which only marks a position.
LEMMA TickKeeps ==
    ASSUME IInv, NEW s \in Symbols, NEW mid \in Prices, Tick(s, mid)
    PROVE  IInv'
<1>1. /\ s \in Open
      /\ positions' = [positions EXCEPT ![s] = Marked(@, mid)]
      /\ fresh' = fresh \cup {s}
      /\ UNCHANGED <<cash, realised, commissions, daily, filled, fills, slack, crossed, midnight>>
  BY DEF Tick
<1>2. positions[s] \in PositionType /\ positions \in [Open -> PositionType]
  BY <1>1 DEF IInv, BooksTypeOK
<1>3. Marked(positions[s], mid) \in PositionType /\ Marked(positions[s], mid).net = positions[s].net
  <2> DEFINE u == Quantize((mid - positions[s].avg) * positions[s].net)
  <2>1. (mid - positions[s].avg) * positions[s].net \in Int
    BY <1>2, MarketAssumption DEF PositionType
  <2>2. u \in Int
    BY <2>1, QuantizeNearest
  <2>3. Marked(positions[s], mid) = [positions[s] EXCEPT !.price = mid, !.unrealised = u]
    BY DEF Marked
  <2> HIDE DEF u
  <2>4. Marked(positions[s], mid) =
          [net |-> positions[s].net, avg |-> positions[s].avg, unrealised |-> u, price |-> mid]
    BY <1>2, <2>3 DEF PositionType
  <2> QED
    BY <1>2, <2>2, <2>4, MarketAssumption DEF PositionType
<1> DEFINE m == Marked(positions[s], mid)
<1>4. positions' = [positions EXCEPT ![s] = m]
  BY <1>1
<1> HIDE DEF m
<1>5. /\ Open' = Open
      /\ positions' \in [Open -> PositionType]
      /\ \A t \in Open : positions'[t].net = positions[t].net
  BY <1>1, <1>2, <1>3, <1>4 DEF Open, m
<1>6. BooksTypeOK'
  BY <1>1, <1>5 DEF IInv, BooksTypeOK
<1>7. PositionsMatchFills'
  <2>1. \A t \in Symbols : PositionOf(t)'.net = PositionOf(t).net
    BY <1>5 DEF PositionOf, NewPosition
  <2> QED
    BY <1>1, <2>1 DEF IInv, PositionsMatchFills
<1>8. MidnightIsPast' /\ DailyMatchesCumulative'
  BY <1>1 DEF IInv, MidnightIsPast, DailyMatchesCumulative
<1> QED
  BY <1>6, <1>7, <1>8 DEF IInv

\* So does midnight, which starts a new day.
LEMMA MidnightKeeps ==
    ASSUME IInv, Midnight
    PROVE  IInv'
<1>1. /\ daily' = 0
      /\ midnight' = [realised |-> realised, fills |-> fills]
      /\ UNCHANGED <<positions, cash, realised, commissions, filled, fills, slack, crossed, fresh>>
  BY DEF Midnight
<1>2. BooksTypeOK'
  BY <1>1 DEF IInv, BooksTypeOK, Open
<1>3. PositionsMatchFills'
  BY <1>1 DEF IInv, PositionsMatchFills, PositionOf, Open
<1>4. MidnightIsPast'
  BY <1>1 DEF IInv, BooksTypeOK, MidnightIsPast
<1>5. DailyMatchesCumulative'
  <2>1. realised \in Int /\ fills \in Int /\ Cent \in Int
    BY AmountsAssumption DEF IInv, BooksTypeOK
  <2>2. daily' - (realised' - midnight'.realised) = 0 /\ Cent * (fills' - midnight'.fills) = 0
    BY <1>1, <2>1
  <2> QED
    BY <2>2 DEF DailyMatchesCumulative, Abs
<1> QED
  BY <1>2, <1>3, <1>4, <1>5 DEF IInv

\* Neither a reading of the drawdown nor a stutter touches the invariant.
LEMMA SameBooksKeep ==
    ASSUME IInv, UNCHANGED <<positions, cash, realised, commissions, daily>>, UNCHANGED ghosts
    PROVE  IInv'
<1>1. UNCHANGED <<filled, fills, slack, crossed, midnight, fresh>>
  BY DEF ghosts
<1> QED
  BY <1>1 DEF IInv, BooksTypeOK, PositionsMatchFills, PositionOf, Open, MidnightIsPast,
              DailyMatchesCumulative

\* The inductive invariant the theorems on the books rest on.
THEOREM InductiveInvariant == Spec => []IInv
<1>1. Init => IInv
  BY InitIInv
<1>2. IInv /\ [Next]_vars => IInv'
  <2> SUFFICES ASSUME IInv, [Next]_vars PROVE IInv'
    OBVIOUS
  <2>1. CASE \E s \in Symbols, side \in Sides, q \in Quantities, p \in Prices : Fill(s, side, q, p)
    BY <2>1, FillKeeps
  <2>2. CASE \E s \in Symbols, mid \in Prices : Tick(s, mid)
    BY <2>2, TickKeeps
  <2>3. CASE ReadDrawdown
    BY <2>3, SameBooksKeep DEF ReadDrawdown
  <2>4. CASE Midnight
    BY <2>4, MidnightKeeps
  <2>5. CASE UNCHANGED vars
    BY <2>5, SameBooksKeep DEF vars, books
  <2> QED
    BY <2>1, <2>2, <2>3, <2>4, <2>5 DEF Next
<1> QED
  BY <1>1, <1>2, PTL DEF Spec

\* Every variable of the books stays in its domain: the dict holds open
\* positions only, at positive average prices.
THEOREM BooksTypeCorrect == Spec => []BooksTypeOK
<1>1. IInv => BooksTypeOK
  BY DEF IInv
<1> QED
  BY <1>1, InductiveInvariant, PTL

\* The positions are the sums of the fills.
THEOREM PositionsAreFills == Spec => []PositionsMatchFills
<1>1. IInv => PositionsMatchFills
  BY DEF IInv
<1> QED
  BY <1>1, InductiveInvariant, PTL

\* The daily P&L is the gain of the cumulative P&L since midnight, up to half a
\* cent a fill.
THEOREM DailyIsToday == Spec => []DailyMatchesCumulative
<1>1. IInv => DailyMatchesCumulative
  BY DEF IInv
<1> QED
  BY <1>1, InductiveInvariant, PTL

\* A fill moves the cash and the value of the position by amounts that
\* balance.
LEMMA FillStepBalances ==
    ASSUME IInv, NEW s \in Symbols, NEW side \in Sides,
           NEW q \in Quantities, NEW p \in Prices, Fill(s, side, q, p)
    PROVE  FillBalances
<1> DEFINE before == PositionOf(s)
           signed == Signed(side, q)
           after == ApplyFill(before, signed, p)
           gain == Gain(before, signed, p)
           avg == AverageAfter(before, signed, p)
<1>1. /\ Fillable(before)
      /\ signed \in Int \ {0}
      /\ p \in Nat \ {0}
  BY FillableInBook, SignedType, MarketAssumption DEF IInv
<1>2. /\ PositionOf(s)'.net = before.net + signed
      /\ PositionOf(s)'.net # 0 => PositionOf(s)'.avg = avg
      /\ \A t \in Symbols \ {s} : PositionOf(t)' = PositionOf(t)
  BY FillMoves DEF IInv
<1>3. /\ realised' = realised + Quantize(gain)
      /\ commissions' = commissions + Commission
      /\ cash' = cash - signed * p - Commission
      /\ filled' = [filled EXCEPT ![s] = @ + signed]
      /\ slack' = slack + SlackOf(before, after, signed)
  BY DEF Fill
<1>4. \A t \in Symbols \ {s} : filled'[t] = filled[t]
  BY <1>3 DEF IInv, BooksTypeOK
<1>5. SUFFICES ASSUME before.net * (before.net + signed) >= 0
               PROVE  2 * Abs((cash' - cash) + (Cost(s)' - Cost(s))
                                + (commissions' - commissions) - (realised' - realised))
                        <= slack' - slack
  BY <1>2, <1>4 DEF FillBalances
<1>6. /\ SlackOf(before, after, signed) \in Nat
      /\ 2 * Abs((before.net + signed) * avg - before.net * before.avg
                   - signed * p - Quantize(gain))
           <= SlackOf(before, after, signed)
  BY <1>1, <1>5, FillDrift
<1>7. Cost(s)' = (before.net + signed) * avg /\ Cost(s) = before.net * before.avg
  <2>1. /\ before.net \in Int /\ avg \in Int
        /\ Cost(s)' = (before.net + signed) * PositionOf(s)'.avg
    <3>1. before.net \in Int
      BY <1>1 DEF Fillable
    <3>2. avg \in Int
      BY <1>1, ApplyFillType
    <3>3. Cost(s)' = PositionOf(s)'.net * PositionOf(s)'.avg
      BY DEF Cost
    <3> QED
      BY <1>2, <3>1, <3>2, <3>3
  <2>2. CASE before.net + signed # 0
    BY <1>2, <2>1, <2>2 DEF Cost
  <2>3. CASE before.net + signed = 0
    <3>1. before.net + signed = 0 => Cost(s)' = 0
      <4>1. CASE s \in Open'
        BY <1>2, <2>3, <4>1, FillBook DEF IInv, PositionOf, PositionType
      <4>2. CASE s \notin Open'
        BY <4>2 DEF Cost, PositionOf, NewPosition
      <4> QED
        BY <4>1, <4>2
    <3> QED
      BY <2>1, <2>3, <3>1 DEF Cost
  <2> QED
    BY <2>2, <2>3
<1>8. /\ cash \in Int /\ realised \in Int /\ commissions \in Int /\ slack \in Int
      /\ Commission \in Int /\ Quantize(gain) \in Int /\ signed * p \in Int
      /\ Cost(s) \in Int /\ Cost(s)' \in Int
  <2>1. /\ cash \in Int /\ realised \in Int /\ commissions \in Int /\ slack \in Int
        /\ Commission \in Int
    BY AmountsAssumption DEF IInv, BooksTypeOK
  <2>2. Quantize(gain) \in Int
    BY <1>1, GainType, QuantizeNearest
  <2>3. before.net \in Int /\ before.avg \in Int /\ avg \in Int
    BY <1>1, ApplyFillType DEF Fillable
  <2> HIDE DEF before, signed, avg, gain
  <2>4. signed * p \in Int /\ (before.net + signed) * avg \in Int /\ before.net * before.avg \in Int
    BY <1>1, <2>3
  <2> QED
    BY <1>7, <2>1, <2>2, <2>4
<1> DEFINE drift == (before.net + signed) * avg - before.net * before.avg - signed * p - Quantize(gain)
<1>9. (cash' - cash) + (Cost(s)' - Cost(s)) + (commissions' - commissions) - (realised' - realised)
        = drift
  <2> HIDE DEF before, signed, avg, gain, after
  <2> QED
    BY <1>3, <1>7, <1>8
<1>10. slack' - slack = SlackOf(before, after, signed)
  BY <1>3, <1>6, <1>8
<1> QED
  BY <1>6, <1>9, <1>10

\* Fill by fill, unless it takes the position through zero, what is paid is
\* held as the cost of the position, kept as a gain or spent as a commission,
\* up to half a cent of a gain and half a digit of each unit's cost.
THEOREM FillsBalance == Spec => EveryFillBalances
<1>1. IInv /\ [Next]_vars => [FillBalances]_vars
  <2> SUFFICES ASSUME IInv, Next PROVE FillBalances
    BY DEF vars
  <2>1. CASE \E s \in Symbols, side \in Sides, q \in Quantities, p \in Prices : Fill(s, side, q, p)
    BY <2>1, FillStepBalances
  <2>2. CASE UNCHANGED filled
    BY <2>2 DEF FillBalances
  <2> QED
    BY <2>1, <2>2 DEF Next, Tick, ReadDrawdown, Midnight, ghosts
<1> QED
  BY <1>1, InductiveInvariant, PTL DEF Spec, EveryFillBalances
-----------------------------------------------------------------------------
(* The balance of the books                                                  *)

\* What a symbol's position in a book costs, nothing without one.
CostIn(book, s) == IF s \in DOMAIN book THEN book[s].net * book[s].avg ELSE 0

Costs(book) == [s \in Symbols |-> CostIn(book, s)]

IsBook(book) == DOMAIN book \subseteq Symbols /\ book \in [DOMAIN book -> PositionType]

\* The open positions cost what all symbols cost together.
LEMMA CostOfBook ==
    ASSUME NEW book, IsBook(book)
    PROVE  /\ Integral(Costs(book), Symbols)
           /\ SumFunction([s \in DOMAIN book |-> book[s].net * book[s].avg])
                = SumFunctionOnSet(Costs(book), Symbols)
<1> DEFINE D == DOMAIN book
           c == [s \in D |-> book[s].net * book[s].avg]
<1>1. \A s \in D : book[s].net \in Int /\ book[s].avg \in Int
  BY DEF IsBook, PositionType
<1>2. \A s \in D : book[s].net * book[s].avg \in Int
  BY <1>1
<1>3. Integral(Costs(book), Symbols) /\ Integral(Costs(book), D) /\ Agree(c, Costs(book), D)
  BY <1>2 DEF Integral, Agree, Costs, CostIn, IsBook
<1>4. IsFiniteSet(Symbols) /\ D \subseteq Symbols /\ IsFiniteSet(D)
  BY SymbolsAssumption, FS_Subset DEF IsBook
<1>5. \A s \in Symbols \ D : Costs(book)[s] = 0
  BY DEF Costs, CostIn
<1> DEFINE k == Costs(book)
<1>6. Integral(k, D) /\ Agree(c, k, D) /\ \A s \in Symbols \ D : k[s] = 0
  BY <1>3, <1>5
<1>7. DOMAIN c = D
  OBVIOUS
<1> HIDE DEF k, c, D
<1>8. SumFunctionOnSet(c, D) = SumFunctionOnSet(k, D)
  BY <1>4, <1>6, SumSame
<1>9. SumFunctionOnSet(k, Symbols) = SumFunctionOnSet(k, D)
  BY <1>4, <1>6, SumOfNonZero
<1>10. SumFunction(c) = SumFunctionOnSet(k, Symbols)
  BY <1>7, <1>8, <1>9 DEF SumFunction
<1> QED
  BY <1>3, <1>10 DEF c, k, D

\* A position that changes changes the cost of the book by as much.
LEMMA CostMoves ==
    ASSUME NEW old, NEW new, IsBook(old), IsBook(new), NEW s \in Symbols,
           \A t \in Symbols \ {s} : CostIn(new, t) = CostIn(old, t)
    PROVE  /\ SumFunctionOnSet(Costs(old), Symbols) \in Int
           /\ SumFunctionOnSet(Costs(new), Symbols)
                = SumFunctionOnSet(Costs(old), Symbols) + (CostIn(new, s) - CostIn(old, s))
<1> DEFINE f == Costs(old)
           g == Costs(new)
<1>1. Integral(f, Symbols) /\ Integral(g, Symbols) /\ IsFiniteSet(Symbols)
  BY CostOfBook, SymbolsAssumption
<1>2. Agree(f, g, Symbols \ {s}) /\ f[s] = CostIn(old, s) /\ g[s] = CostIn(new, s)
  BY DEF Agree, Costs
<1> HIDE DEF f, g
<1>3. SumFunctionOnSet(f, Symbols) \in Int
  BY <1>1, SumType
<1>4. SumFunctionOnSet(g, Symbols) = SumFunctionOnSet(f, Symbols) + (g[s] - f[s])
  BY <1>1, <1>2, SumChange
<1> QED
  BY <1>2, <1>3, <1>4 DEF f, g

\* The same of the books of this module: OpenCost, and Cost of a symbol.
LEMMA OpenCostIs ==
    ASSUME BooksTypeOK
    PROVE  /\ IsBook(positions) /\ OpenCost \in Int
           /\ OpenCost = SumFunctionOnSet(Costs(positions), Symbols)
           /\ \A s \in Symbols : Cost(s) = CostIn(positions, s)
<1>1. IsBook(positions)
  BY DEF BooksTypeOK, IsBook, Open
<1>2. OpenCost = SumFunctionOnSet(Costs(positions), Symbols)
  BY <1>1, CostOfBook DEF OpenCost, Open
<1>3. OpenCost \in Int
  <2> DEFINE k == Costs(positions)
  <2>1. Integral(k, Symbols)
    BY <1>1, CostOfBook
  <2> HIDE DEF k
  <2>2. SumFunctionOnSet(k, Symbols) \in Int
    BY <2>1, SymbolsAssumption, SumType
  <2> QED
    BY <1>2, <2>2 DEF k
<1>4. \A s \in Symbols : Cost(s) = CostIn(positions, s)
  BY DEF Cost, CostIn, PositionOf, Open, NewPosition
<1> QED
  BY <1>1, <1>2, <1>3, <1>4

\* A miss added to another one is within what both of them may be.
LEMMA AbsAdds ==
    ASSUME NEW a \in Int, NEW b \in Int, NEW m \in Int, NEW n \in Int,
           2 * Abs(a) <= m, 2 * Abs(b) <= n - m
    PROVE  2 * Abs(a + b) <= n
  BY DEF Abs

\* A fill that does not cross zero adds to the miss at most what it may lose
\* to rounding.
LEMMA FillKeepsBalance ==
    ASSUME IInv, IInv', BooksBalance, NEW s \in Symbols, NEW side \in Sides,
           NEW q \in Quantities, NEW p \in Prices, Fill(s, side, q, p)
    PROVE  BooksBalance'
<1> DEFINE before == PositionOf(s)
           signed == Signed(side, q)
           after == ApplyFill(before, signed, p)
<1>1. SUFFICES ASSUME ~crossed' PROVE (Imbalance <= slack)'
  BY DEF BooksBalance
<1>2. crossed' = (crossed \/ before.net * after.net < 0)
  BY DEF Fill
<1>3. ~crossed /\ ~(before.net * after.net < 0)
  BY <1>1, <1>2
<1>4. Imbalance <= slack
  BY <1>3 DEF BooksBalance
<1>5. /\ before.net \in Int /\ after.net \in Int
      /\ PositionOf(s)'.net = after.net /\ after.net = before.net + signed /\ signed \in Int \ {0}
  <2>1. Fillable(before) /\ signed \in Int \ {0} /\ p \in Nat \ {0} /\ BooksTypeOK
    BY FillableInBook, SignedType, MarketAssumption DEF IInv
  <2>2. after.net = before.net + signed /\ before.net \in Int
    BY <2>1, ApplyFillType DEF Fillable
  <2>3. PositionOf(s)'.net = before.net + signed
    BY <2>1, FillMoves
  <2> QED
    BY <2>1, <2>2, <2>3
<1>6. before.net * PositionOf(s)'.net >= 0
  <2> HIDE DEF before, after
  <2> QED
    BY <1>3, <1>5
<1>7. filled'[s] # filled[s]
  <2>1. filled' = [filled EXCEPT ![s] = @ + signed] /\ filled \in [Symbols -> Int]
    BY DEF Fill, IInv, BooksTypeOK
  <2> QED
    BY <1>5, <2>1
<1>8. 2 * Abs((cash' - cash) + (Cost(s)' - Cost(s))
                + (commissions' - commissions) - (realised' - realised))
        <= slack' - slack
  BY <1>6, <1>7, FillStepBalances DEF FillBalances
<1>9. /\ OpenCost \in Int /\ OpenCost' \in Int /\ Cost(s) \in Int /\ Cost(s)' \in Int
      /\ OpenCost' = OpenCost + (Cost(s)' - Cost(s))
  <2>1. /\ IsBook(positions) /\ OpenCost \in Int
        /\ OpenCost = SumFunctionOnSet(Costs(positions), Symbols)
        /\ \A t \in Symbols : Cost(t) = CostIn(positions, t)
    BY OpenCostIs DEF IInv
  <2>2. IsBook(positions')
    BY DEF IInv, BooksTypeOK, IsBook, Open
  <2>3. OpenCost' = SumFunctionOnSet(Costs(positions'), Symbols)
    BY <2>2, CostOfBook DEF OpenCost, Open
  <2>4. \A t \in Symbols : Cost(t)' = CostIn(positions', t)
    BY DEF Cost, CostIn, PositionOf, Open, NewPosition
  <2>5. \A t \in Symbols \ {s} : CostIn(positions', t) = CostIn(positions, t)
    <3>1. \A t \in Symbols \ {s} : PositionOf(t)' = PositionOf(t)
      BY FillMoves DEF IInv
    <3> QED
      BY <2>1, <2>4, <3>1 DEF Cost
  <2>6. Integral(Costs(positions), Symbols) /\ Integral(Costs(positions'), Symbols)
    BY <2>1, <2>2, CostOfBook
  <2>7. Cost(s) \in Int /\ Cost(s)' \in Int
    BY <2>1, <2>4, <2>6 DEF Integral, Costs
  <2>8. OpenCost' = OpenCost + (CostIn(positions', s) - CostIn(positions, s))
    <3>1. SumFunctionOnSet(Costs(positions'), Symbols)
            = SumFunctionOnSet(Costs(positions), Symbols) + (CostIn(positions', s) - CostIn(positions, s))
      BY <2>1, <2>2, <2>5, CostMoves
    <3> QED
      BY <2>1, <2>3, <3>1
  <2> QED
    BY <2>1, <2>4, <2>7, <2>8
<1>10. /\ cash \in Int /\ cash' \in Int /\ realised \in Int /\ realised' \in Int /\ Initial \in Int
       /\ commissions \in Int /\ commissions' \in Int /\ slack \in Int /\ slack' \in Int
  BY AmountsAssumption DEF IInv, BooksTypeOK
<1> DEFINE miss == (cash + OpenCost) - (Initial + realised - commissions)
           drift == (cash' - cash) + (Cost(s)' - Cost(s)) + (commissions' - commissions) - (realised' - realised)
<1>11. miss \in Int /\ drift \in Int /\ miss' = miss + drift
  BY <1>9, <1>10
<1>12. 2 * Abs(miss) <= slack /\ 2 * Abs(drift) <= slack' - slack
  BY <1>4, <1>8 DEF Imbalance
<1>13. Imbalance' = 2 * Abs(miss')
  BY DEF Imbalance
<1> HIDE DEF drift, miss
<1>14. 2 * Abs(miss + drift) <= slack'
  BY <1>10, <1>11, <1>12, AbsAdds
<1> QED
  BY <1>11, <1>13, <1>14

\* A step that moves no money and no position leaves the balance as it is.
LEMMA SameMoneyBalances ==
    ASSUME IInv, IInv', BooksBalance,
           \A t \in Symbols : CostIn(positions', t) = CostIn(positions, t),
           UNCHANGED <<cash, realised, commissions, slack, crossed>>
    PROVE  BooksBalance'
<1>1. Costs(positions') = Costs(positions)
  BY DEF Costs
<1>2. IsBook(positions) /\ IsBook(positions')
  BY DEF IInv, BooksTypeOK, IsBook, Open
<1>3. OpenCost' = OpenCost
  BY <1>1, <1>2, CostOfBook DEF OpenCost, Open
<1> QED
  BY <1>3 DEF BooksBalance, Imbalance

\* Until a fill takes a position through zero the books balance: cash and open
\* positions hold the capital and the gains less the commissions, up to what
\* each fill may have lost to rounding.
THEOREM BalanceHolds == Spec => []BooksBalance
<1>1. Init => BooksBalance
  <2> SUFFICES ASSUME Init PROVE BooksBalance
    OBVIOUS
  <2>1. Open = {} /\ cash = Initial /\ realised = 0 /\ commissions = 0 /\ slack = 0 /\ Initial \in Int
    BY AmountsAssumption DEF Init, Open
  <2>2. OpenCost = 0
    <3> DEFINE c == [s \in {} |-> positions[s].net * positions[s].avg]
    <3>1. OpenCost = SumFunction(c) /\ DOMAIN c = {}
      BY <2>1 DEF OpenCost
    <3> HIDE DEF c
    <3> QED
      BY <3>1, SumEmpty DEF SumFunction
  <2> QED
    BY <2>1, <2>2 DEF BooksBalance, Imbalance, Abs
<1>2. IInv /\ IInv' /\ BooksBalance /\ [Next]_vars => BooksBalance'
  <2> SUFFICES ASSUME IInv, IInv', BooksBalance, [Next]_vars PROVE BooksBalance'
    OBVIOUS
  <2>1. CASE \E s \in Symbols, side \in Sides, q \in Quantities, p \in Prices : Fill(s, side, q, p)
    BY <2>1, FillKeepsBalance
  <2>2. ASSUME NEW s \in Symbols, NEW mid \in Prices, Tick(s, mid) PROVE BooksBalance'
    <3>1. /\ positions' = [positions EXCEPT ![s] = Marked(@, mid)]
          /\ UNCHANGED <<cash, realised, commissions, slack, crossed>>
      BY <2>2 DEF Tick
    <3>2. positions \in [Open -> PositionType]
      BY DEF IInv, BooksTypeOK
    <3>3. \A t \in Open : positions'[t].net = positions[t].net /\ positions'[t].avg = positions[t].avg
      BY <3>1, <3>2 DEF Marked, PositionType
    <3>4. \A t \in Symbols : CostIn(positions', t) = CostIn(positions, t)
      BY <3>1, <3>2, <3>3 DEF CostIn, Open
    <3> QED
      BY <3>1, <3>4, SameMoneyBalances
  <2>3. CASE ReadDrawdown \/ Midnight \/ UNCHANGED vars
    <3>1. UNCHANGED <<positions, cash, realised, commissions, slack, crossed>>
      BY <2>3 DEF ReadDrawdown, Midnight, vars, books, ghosts
    <3> QED
      BY <3>1, SameMoneyBalances
  <2> QED
    BY <2>1, <2>2, <2>3 DEF Next
<1> QED
  BY <1>1, <1>2, InductiveInvariant, PTL DEF Spec
-----------------------------------------------------------------------------
(* Equity                                                                    *)

\* update_unrealised was the last to touch the position.
IsMarked(pos) == pos.unrealised = Quantize((pos.price - pos.avg) * pos.net)

\* What a fill leaves behind is never counted as a fresh mark.
FreshMarks == \A s \in fresh : IsMarked(positions[s])

\* update_unrealised leaves a position marked.
LEMMA MarkedIsMarked ==
    ASSUME NEW pos \in PositionType, NEW mid \in Nat
    PROVE  IsMarked(Marked(pos, mid))
<1> DEFINE u == Quantize((mid - pos.avg) * pos.net)
<1>1. Marked(pos, mid) = [pos EXCEPT !.price = mid, !.unrealised = u]
  BY DEF Marked
<1>2. Marked(pos, mid).price = mid /\ Marked(pos, mid).avg = pos.avg /\ Marked(pos, mid).net = pos.net
  BY <1>1 DEF PositionType
<1>3. Marked(pos, mid).unrealised = u
  <2> HIDE DEF u
  <2> QED
    BY <1>1 DEF PositionType
<1> QED
  BY <1>2, <1>3 DEF IsMarked

\* The unrealised P&L of a freshly ticked position is that of its last mark,
\* whatever marks and fills came before.
THEOREM FreshlyMarked == Spec => []FreshMarks
<1>1. Init => FreshMarks
  BY DEF Init, FreshMarks
<1>2. IInv /\ FreshMarks /\ [Next]_vars => FreshMarks'
  <2> SUFFICES ASSUME IInv, FreshMarks, [Next]_vars PROVE FreshMarks'
    OBVIOUS
  <2>1. ASSUME NEW s \in Symbols, NEW side \in Sides, NEW q \in Quantities, NEW p \in Prices,
               Fill(s, side, q, p)
        PROVE  FreshMarks'
    <3>1. fresh' = fresh \ {s} /\ fresh \subseteq Open
      BY <2>1 DEF Fill, IInv, BooksTypeOK
    <3>2. \A t \in Open \ {s} : positions'[t] = positions[t]
      BY <2>1, FillBook DEF IInv
    <3> QED
      BY <3>1, <3>2 DEF FreshMarks, IsMarked
  <2>2. ASSUME NEW s \in Symbols, NEW mid \in Prices, Tick(s, mid) PROVE FreshMarks'
    <3>1. /\ s \in Open /\ fresh' = fresh \cup {s} /\ fresh \subseteq Open
          /\ positions' = [positions EXCEPT ![s] = Marked(@, mid)]
          /\ positions \in [Open -> PositionType]
      BY <2>2 DEF Tick, IInv, BooksTypeOK
    <3>2. positions'[s] = Marked(positions[s], mid)
          /\ \A t \in Open \ {s} : positions'[t] = positions[t]
      BY <3>1 DEF Open
    <3>3. IsMarked(Marked(positions[s], mid))
      BY <3>1, MarkedIsMarked, MarketAssumption
    <3> QED
      BY <3>1, <3>2, <3>3 DEF FreshMarks, IsMarked
  <2>3. CASE ReadDrawdown \/ Midnight \/ UNCHANGED vars
    <3>1. UNCHANGED <<positions, fresh>>
      BY <2>3 DEF ReadDrawdown, Midnight, vars, books, ghosts
    <3> QED
      BY <3>1 DEF FreshMarks
  <2> QED
    BY <2>1, <2>2, <2>3 DEF Next
<1> QED
  BY <1>1, <1>2, InductiveInvariant, PTL DEF Spec

\* The three sums over the open positions, as sums over one set.
LEMMA OpenSums ==
    ASSUME BooksTypeOK
    PROVE  LET u == [s \in Open |-> positions[s].unrealised]
               v == [s \in Open |-> positions[s].net * positions[s].price]
               c == [s \in Open |-> positions[s].net * positions[s].avg]
           IN  /\ IsFiniteSet(Open)
               /\ Integral(u, Open) /\ Integral(v, Open) /\ Integral(c, Open)
               /\ Unrealised = SumFunctionOnSet(u, Open) /\ Unrealised \in Int
               /\ MarkedValue = SumFunctionOnSet(v, Open) /\ MarkedValue \in Int
               /\ OpenCost = SumFunctionOnSet(c, Open) /\ OpenCost \in Int
<1> DEFINE u == [s \in Open |-> positions[s].unrealised]
           v == [s \in Open |-> positions[s].net * positions[s].price]
           c == [s \in Open |-> positions[s].net * positions[s].avg]
<1>1. IsFiniteSet(Open)
  BY SymbolsAssumption, FS_Subset DEF BooksTypeOK
<1>2. \A s \in Open : /\ positions[s].unrealised \in Int /\ positions[s].net \in Int
                      /\ positions[s].price \in Int /\ positions[s].avg \in Int
  BY DEF BooksTypeOK, PositionType
<1>3. \A s \in Open : positions[s].net * positions[s].price \in Int /\ positions[s].net * positions[s].avg \in Int
  BY <1>2
<1>4. Integral(u, Open) /\ Integral(v, Open) /\ Integral(c, Open)
  BY <1>2, <1>3 DEF Integral
<1>5. DOMAIN u = Open /\ DOMAIN v = Open /\ DOMAIN c = Open
  OBVIOUS
<1>6. /\ Unrealised = SumFunctionOnSet(u, Open)
      /\ MarkedValue = SumFunctionOnSet(v, Open)
      /\ OpenCost = SumFunctionOnSet(c, Open)
  BY <1>5, Zenon DEF Unrealised, MarkedValue, OpenCost, SumFunction
<1>7. Unrealised \in Int /\ MarkedValue \in Int /\ OpenCost \in Int
  <2> HIDE DEF u, v, c
  <2> QED
    BY <1>1, <1>4, <1>6, SumType
<1> QED
  BY <1>1, <1>4, <1>6, <1>7

\* The equity is an amount, whatever is open.
LEMMA EquityType ==
    ASSUME BooksTypeOK
    PROVE  Equity \in Int
<1>1. cash \in Int /\ Unrealised \in Int
  BY OpenSums DEF BooksTypeOK
<1>2. cash + Unrealised \in Int
  BY <1>1
<1> QED
  BY <1>2, QuantizeNearest DEF Equity

\* Every variable stays in its domain, the high-water mark included, which the
\* reader of the drawdown writes.
THEOREM TypeCorrect == Spec => []TypeOK
<1>1. Init => peak \in Int
  BY AmountsAssumption DEF Init
<1>2. IInv /\ peak \in Int /\ [Next]_vars => (peak \in Int)'
  <2> SUFFICES ASSUME IInv, peak \in Int, [Next]_vars PROVE peak' \in Int
    OBVIOUS
  <2>1. CASE ReadDrawdown
    <3>1. Equity \in Int /\ peak' = Max({peak, Equity})
      BY <2>1, EquityType DEF IInv, ReadDrawdown
    <3> QED
      BY <3>1, MaxOfTwo
  <2>2. CASE UNCHANGED peak
    BY <2>2
  <2> QED
    BY <2>1, <2>2 DEF Next, Fill, Tick, Midnight, vars, books
<1>3. Spec => [](peak \in Int)
  BY <1>1, <1>2, InductiveInvariant, PTL DEF Spec
<1>4. IInv /\ peak \in Int => TypeOK
  BY DEF IInv, TypeOK
<1> QED
  BY <1>3, <1>4, InductiveInvariant, PTL

\* Fresh marks add up to what the positions are worth less what they cost.
LEMMA FreshMarksAddUp ==
    ASSUME BooksTypeOK, FreshMarks, fresh = Open
    PROVE  /\ Cardinality(Open) \in Nat
           /\ 2 * Abs(Unrealised - (MarkedValue - OpenCost)) <= Cent * Cardinality(Open)
<1> DEFINE u == [s \in Open |-> positions[s].unrealised]
           v == [s \in Open |-> positions[s].net * positions[s].price]
           c == [s \in Open |-> positions[s].net * positions[s].avg]
<1>1. /\ IsFiniteSet(Open)
      /\ Integral(u, Open) /\ Integral(v, Open) /\ Integral(c, Open)
      /\ Unrealised = SumFunctionOnSet(u, Open) /\ Unrealised \in Int
      /\ MarkedValue = SumFunctionOnSet(v, Open) /\ MarkedValue \in Int
      /\ OpenCost = SumFunctionOnSet(c, Open) /\ OpenCost \in Int
  BY OpenSums
<1>2. ASSUME NEW s \in Open
      PROVE  -Cent <= 2 * (u[s] - (v[s] - c[s])) /\ 2 * (u[s] - (v[s] - c[s])) <= Cent
  <2> DEFINE net == positions[s].net
             price == positions[s].price
             avg == positions[s].avg
             x == (price - avg) * net
  <2>1. net \in Int /\ price \in Int /\ avg \in Int
    BY DEF BooksTypeOK, PositionType
  <2>2. u[s] = Quantize(x)
    BY DEF FreshMarks, IsMarked
  <2>3. v[s] = net * price /\ c[s] = net * avg
    OBVIOUS
  <2> HIDE DEF net, price, avg, u, v, c
  <2>4. x \in Int /\ x = net * price - net * avg
    BY <2>1
  <2> HIDE DEF x
  <2>5. Quantize(x) \in Int /\ 2 * Quantize(x) <= 2 * x + Cent /\ 2 * x - Cent <= 2 * Quantize(x)
    BY <2>4, QuantizeNearest
  <2>6. v[s] - c[s] = x
    BY <2>3, <2>4
  <2> QED
    BY <2>2, <2>4, <2>5, <2>6, AmountsAssumption
<1> HIDE DEF u, v, c
<1>3. Cent \in Nat
  BY AmountsAssumption
<1>4. /\ Cardinality(Open) \in Nat
      /\ -(Cent * Cardinality(Open))
           <= 2 * (SumFunctionOnSet(u, Open) - (SumFunctionOnSet(v, Open) - SumFunctionOnSet(c, Open)))
      /\ 2 * (SumFunctionOnSet(u, Open) - (SumFunctionOnSet(v, Open) - SumFunctionOnSet(c, Open)))
           <= Cent * Cardinality(Open)
  BY <1>1, <1>2, <1>3, SumNear
<1> DEFINE k == Cent * Cardinality(Open)
           d == Unrealised - (MarkedValue - OpenCost)
<1>5. k \in Int /\ d \in Int /\ -k <= 2 * d /\ 2 * d <= k
  BY <1>1, <1>3, <1>4
<1> HIDE DEF k, d
<1>6. 2 * Abs(d) <= k
  BY <1>5 DEF Abs
<1> QED
  BY <1>4, <1>6 DEF k, d

\* Once every open position has been ticked since its last fill, equity is the
\* account's value less the cost of its positions, up to half a cent for each
\* and half a cent for the total.
THEOREM EquityIsValueLessCost == Spec => []FreshEquityIsValueLessCost
<1>1. IInv /\ FreshMarks => FreshEquityIsValueLessCost
  <2> SUFFICES ASSUME IInv, FreshMarks, fresh = Open
               PROVE  2 * Abs(Equity - (cash + MarkedValue - OpenCost)) <= Cent * (1 + Cardinality(Open))
    BY DEF FreshEquityIsValueLessCost
  <2>1. /\ Cardinality(Open) \in Nat
        /\ 2 * Abs(Unrealised - (MarkedValue - OpenCost)) <= Cent * Cardinality(Open)
    BY FreshMarksAddUp DEF IInv
  <2>2. Unrealised \in Int /\ MarkedValue \in Int /\ OpenCost \in Int /\ cash \in Int /\ Cent \in Nat
    BY OpenSums, AmountsAssumption DEF IInv, BooksTypeOK
  <2> DEFINE x == cash + Unrealised
             d == Unrealised - (MarkedValue - OpenCost)
             e == Quantize(x) - x
             k == Cent * Cardinality(Open)
  <2>3. x \in Int /\ d \in Int /\ k \in Int
    BY <2>1, <2>2
  <2>4. e \in Int /\ 2 * Abs(e) <= Cent
    <3>1. Quantize(x) \in Int /\ 2 * Quantize(x) <= 2 * x + Cent /\ 2 * x - Cent <= 2 * Quantize(x)
      BY <2>3, QuantizeNearest
    <3> HIDE DEF x
    <3> QED
      BY <2>2, <2>3, <3>1 DEF Abs
  <2>5. Equity - (cash + MarkedValue - OpenCost) = d + e
    <3>1. Equity = Quantize(x) /\ Quantize(x) \in Int
      BY <2>3, QuantizeNearest DEF Equity
    <3>2. e = Quantize(x) - (cash + Unrealised)
      OBVIOUS
    <3> HIDE DEF e, x
    <3> QED
      BY <2>2, <2>4, <3>1, <3>2
  <2>6. Cent * (1 + Cardinality(Open)) = k + Cent
    BY <2>1, <2>2
  <2>7. 2 * Abs(d) <= k
    BY <2>1
  <2> HIDE DEF d, e, k
  <2>8. 2 * Abs(d + e) <= k + Cent
    BY <2>2, <2>3, <2>4, <2>7 DEF Abs
  <2> QED
    BY <2>5, <2>6, <2>8
<1> QED
  BY <1>1, InductiveInvariant, FreshlyMarked, PTL
-----------------------------------------------------------------------------
(* The sizer *)

\* A whole number of lots is at most half a lot above the capped share.
LEMMA LotsCapped ==
    ASSUME NEW equity \in Nat, NEW share \in Nat, NEW price \in Nat \ {0}
    PROVE  /\ Lots(equity, share, price) \in Int
           /\ 2 * (100 * price * Lots(equity, share, price)) <= 2 * MaxShare * equity + 100 * price
<1> DEFINE m == Min({share, MaxShare})
           lots == HalfUp(equity * m, 100 * price)
<1>1. m \in Nat /\ m <= MaxShare /\ MaxShare \in Nat
  BY SharesAssumption, MinOfTwo
<1>2. equity * m \in Int /\ equity * m <= equity * MaxShare /\ equity * MaxShare \in Int
  <2> HIDE DEF m
  <2> QED
    BY <1>1
<1>3. 100 * price \in Nat \ {0}
  OBVIOUS
<1>4. lots \in Int /\ 2 * ((100 * price) * lots) <= 2 * (equity * m) + 100 * price
  <2> HIDE DEF m
  <2> QED
    BY <1>2, <1>3, HalfUpNearest, Zenon
<1>5. Lots(equity, share, price) = lots
  BY DEF Lots
<1>6. 2 * MaxShare * equity = 2 * (equity * MaxShare) /\ 100 * price * lots = (100 * price) * lots
  BY <1>1, <1>4
<1> HIDE DEF lots, m
<1> QED
  BY <1>2, <1>3, <1>4, <1>5, <1>6

\* Whatever the equity, the price and the parameters of the sizer, the size is
\* within the cap up to half a lot, and zero without equity.
THEOREM SizeIsCapped ==
    \A equity \in Int, price \in Nat \ {0} :
        WithinCap(RecommendedSize(equity, price), equity, price)
<1> SUFFICES ASSUME NEW equity \in Int, NEW price \in Nat \ {0}
             PROVE  WithinCap(RecommendedSize(equity, price), equity, price)
  OBVIOUS
<1>1. CASE equity > 0
  <2> DEFINE v == Lots(equity, VolShare, price)
             k == Lots(equity, KellyShare, price)
             cap == 2 * MaxShare * equity + 100 * price
  <2>1. /\ v \in Int /\ 2 * (100 * price * v) <= cap
        /\ k \in Int /\ 2 * (100 * price * k) <= cap
    <3>1. equity \in Nat /\ VolShare \in Nat /\ KellyShare \in Nat
      BY <1>1, SharesAssumption
    <3> QED
      BY <3>1, LotsCapped, Zenon
  <2>2. VolTargetSize(equity, price) = Max({0, v}) /\ KellySize(equity, price) = Max({0, k})
    BY <1>1 DEF VolTargetSize, KellySize
  <2>3. RecommendedSize(equity, price) \in {0, v, k}
    <3> HIDE DEF v, k
    <3> DEFINE vs == Max({0, v})
               ks == Max({0, k})
    <3>1. vs \in {0, v} /\ ks \in {0, k} /\ vs \in Int /\ ks \in Int
      BY <2>1, MaxOfTwo
    <3>2. Min({vs, ks}) \in {vs, ks}
      <4> HIDE DEF vs, ks
      <4> QED
        BY <3>1, MinOfTwo
    <3> QED
      BY <2>2, <3>1, <3>2 DEF RecommendedSize
  <2>4. 100 * v * price = 100 * price * v /\ 100 * k * price = 100 * price * k
    BY <2>1
  <2> HIDE DEF v, k
  <2> QED
    BY <1>1, <2>1, <2>3, <2>4 DEF WithinCap
<1>2. CASE equity <= 0
  <2>1. VolTargetSize(equity, price) = 0
    BY <1>2 DEF VolTargetSize
  <2> DEFINE ks == KellySize(equity, price)
             k == Lots(equity, KellyShare, price)
  <2>2. k \in Int
    <3>1. equity * Min({KellyShare, MaxShare}) \in Int /\ 100 * price \in Nat \ {0}
      BY SharesAssumption, MinOfTwo
    <3> QED
      BY <3>1, HalfUpNearest, Zenon DEF Lots
  <2>3. ks = IF 0 >= k THEN 0 ELSE k
    BY <2>2, MaxOfTwo DEF KellySize
  <2> HIDE DEF k
  <2>4. ks \in Int /\ ks >= 0
    BY <2>2, <2>3
  <2> HIDE DEF ks
  <2>5. Min({0, ks}) = 0
    BY <2>4, MinOfTwo
  <2>6. RecommendedSize(equity, price) = 0
    BY <2>1, <2>5 DEF RecommendedSize, ks
  <2> QED
    BY <2>6 DEF WithinCap
<1> QED
  BY <1>1, <1>2

\* Whatever fills, marks and midnights have made of the equity, what the sizer
\* recommends at any price is within the cap.
THEOREM SizesWithinCap == Spec => []SizeWithinCap
<1>1. IInv => SizeWithinCap
  <2> SUFFICES ASSUME IInv, NEW p \in Prices
               PROVE  WithinCap(RecommendedSize(Equity, p), Equity, p)
    BY DEF SizeWithinCap
  <2>1. Equity \in Int /\ p \in Nat \ {0}
    BY EquityType, MarketAssumption DEF IInv
  <2> QED
    BY <2>1, SizeIsCapped
<1> QED
  BY <1>1, InductiveInvariant, PTL
=============================================================================
