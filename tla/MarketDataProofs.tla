-------------------------- MODULE MarketDataProofs --------------------------
(***************************************************************************)
(* Proofs about the services of MCServices that handle market data: tick   *)
(* streams, trade streams, the caches of bars and of indicators, and the   *)
(* strategies, for any number of streams, strategies, calls and keys.      *)
(*                                                                         *)
(* Each service has an inductive invariant, shown for its own Init and     *)
(* [Next]_vars; ServicesProofs puts them together.                         *)
(***************************************************************************)
EXTENDS MCServices, Lists, SumTheorems

-----------------------------------------------------------------------------
(* Lists: what Kept keeps.                                                   *)

\* F is the recursive function behind Kept, up to the length n.
IsKept(F, seq, keep, n) ==
    F = [k \in 0..n |->
            IF k = 0 THEN <<>>
            ELSE IF seq[k] \in keep THEN Append(F[k - 1], seq[k]) ELSE F[k - 1]]

\* There is such a function.
LEMMA KeptExists ==
    ASSUME NEW seq, NEW keep, NEW len \in Nat
    PROVE  \E F : IsKept(F, seq, keep, len)
<1> DEFINE M == {n \in Nat : \E F : IsKept(F, seq, keep, n)}
<1>1. 0 \in M
  <2> DEFINE F == [k \in 0..0 |-> <<>>]
  <2>1. IsKept(F, seq, keep, 0)
    BY DEF IsKept
  <2> HIDE DEF F
  <2>2. QED
    BY <2>1
<1>2. ASSUME NEW n \in Nat, n \in M PROVE n + 1 \in M
  <2>1. PICK F : IsKept(F, seq, keep, n)
    BY <1>2
  <2>0. \A k \in 1..n : F[k] = IF seq[k] \in keep THEN Append(F[k - 1], seq[k]) ELSE F[k - 1]
    <3>1. ASSUME NEW k \in 1..n
          PROVE  F[k] = IF seq[k] \in keep THEN Append(F[k - 1], seq[k]) ELSE F[k - 1]
      <4>1. k \in 0..n /\ k # 0
        OBVIOUS
      <4>2. QED
        BY ONLY <2>1, <4>1 DEF IsKept
    <3>2. QED
      BY <3>1
  <2> DEFINE G == [k \in 0..(n + 1) |->
                      IF k <= n THEN F[k]
                      ELSE IF seq[k] \in keep THEN Append(F[k - 1], seq[k]) ELSE F[k - 1]]
             H == [k \in 0..(n + 1) |->
                      IF k = 0 THEN <<>>
                      ELSE IF seq[k] \in keep THEN Append(G[k - 1], seq[k]) ELSE G[k - 1]]
  <2>2. ASSUME NEW k \in 0..(n + 1) PROVE G[k] = H[k]
    <3>1. CASE k = 0
      BY <2>1, <3>1 DEF IsKept
    <3>2. CASE k > 0 /\ k <= n
      <4>1. G[k - 1] = F[k - 1] /\ G[k] = F[k]
        BY <3>2
      <4>2. F[k] = IF seq[k] \in keep THEN Append(F[k - 1], seq[k]) ELSE F[k - 1]
        BY ONLY <2>0, <3>2, n \in Nat, k \in 0..(n + 1)
      <4>3. QED
        BY <3>2, <4>1, <4>2
    <3>3. CASE k = n + 1
      <4>1. G[k - 1] = F[k - 1] /\ ~(k <= n) /\ k # 0
        BY <3>3
      <4>2. QED
        BY <4>1
    <3>4. QED
      BY <3>1, <3>2, <3>3
  <2>3. G = H
    BY <2>2
  <2>4. IsKept(G, seq, keep, n + 1)
    BY <2>3 DEF IsKept
  <2> HIDE DEF G
  <2>5. QED
    BY <2>4
<1>3. Nat \subseteq M
  <2> HIDE DEF M
  <2>1. QED
    BY <1>1, <1>2, Induction
<1>4. QED
  BY <1>3

\* Kept is its last value.
LEMMA KeptIs ==
    ASSUME NEW seq, NEW keep, Len(seq) \in Nat
    PROVE  \E F : IsKept(F, seq, keep, Len(seq)) /\ Kept(seq, keep) = F[Len(seq)]
<1> DEFINE F == CHOOSE F : IsKept(F, seq, keep, Len(seq))
<1>1. IsKept(F, seq, keep, Len(seq))
  BY KeptExists
<1>2. Kept(seq, keep) = F[Len(seq)]
  BY DEF Kept, IsKept
<1> HIDE DEF F
<1>3. QED
  BY <1>1, <1>2

\* K is what is left of the first n elements of seq.
KeptOf(K, seq, keep, n) ==
    /\ Len(K) <= n
    /\ \A i \in 1..Len(K) : K[i] \in keep /\ \E k \in 1..n : K[i] = seq[k]
    /\ \A k \in 1..n : seq[k] \in keep => \E i \in 1..Len(K) : K[i] = seq[k]
    /\ (\A k, l \in 1..n : seq[k] = seq[l] => k = l)
       => \A i, j \in 1..Len(K) : K[i] = K[j] => i = j

\* The next element is appended.
LEMMA KeptStep ==
    ASSUME NEW Val, NEW seq \in Seq(Val), NEW keep, NEW n \in Nat, n + 1 <= Len(seq),
           NEW K \in Seq(Val), KeptOf(K, seq, keep, n), seq[n + 1] \in keep
    PROVE  Append(K, seq[n + 1]) \in Seq(Val) /\ KeptOf(Append(K, seq[n + 1]), seq, keep, n + 1)
<1> DEFINE x == seq[n + 1]
           A == Append(K, x)
<1>1. x \in Val /\ Len(K) \in Nat /\ n + 1 \in 1..(n + 1)
  OBVIOUS
<1>2. A \in Seq(Val) /\ Len(A) = Len(K) + 1 /\ A[Len(K) + 1] = x /\ \A i \in 1..Len(K) : A[i] = K[i]
  BY <1>1
<1>3. Len(A) <= n + 1
  BY <1>1, <1>2 DEF KeptOf
<1>4. \A k \in 1..(n + 1) : k \in 1..n \/ k = n + 1
  OBVIOUS
<1>5. \A i \in 1..Len(A) : i \in 1..Len(K) \/ i = Len(K) + 1
  BY <1>1, <1>2
<1>6. \A i \in 1..Len(K) : i \in 1..Len(A)
  BY <1>1, <1>2
<1>7. Len(K) + 1 \in 1..Len(A) /\ \A k \in 1..n : k \in 1..(n + 1) /\ k # n + 1
  BY <1>1, <1>2
<1>8. x \in keep
  OBVIOUS
<1> HIDE DEF A
<1>9. \A i \in 1..Len(A) : A[i] \in keep /\ \E k \in 1..(n + 1) : A[i] = seq[k]
  <2>1. ASSUME NEW i \in 1..Len(K)
        PROVE  A[i] \in keep /\ \E k \in 1..(n + 1) : A[i] = seq[k]
    <3>1. K[i] \in keep /\ \E k \in 1..n : K[i] = seq[k]
      BY DEF KeptOf
    <3>2. QED
      BY <1>2, <1>7, <3>1
  <2>2. A[Len(K) + 1] \in keep /\ \E k \in 1..(n + 1) : A[Len(K) + 1] = seq[k]
    BY <1>1, <1>2, <1>8
  <2>3. QED
    BY <1>5, <2>1, <2>2
<1>10. \A k \in 1..(n + 1) : seq[k] \in keep => \E i \in 1..Len(A) : A[i] = seq[k]
  BY <1>2, <1>4, <1>6, <1>7 DEF KeptOf
<1>11. ASSUME \A k, l \in 1..(n + 1) : seq[k] = seq[l] => k = l
       PROVE  \A i, j \in 1..Len(A) : A[i] = A[j] => i = j
  <2>1. \A i, j \in 1..Len(K) : K[i] = K[j] => i = j
    BY <1>7, <1>11 DEF KeptOf
  <2>2. \A i \in 1..Len(K) : K[i] # x
    BY <1>1, <1>7, <1>11 DEF KeptOf
  <2>3. QED
    BY <1>2, <1>5, <2>1, <2>2
<1>12. QED
  BY <1>2, <1>3, <1>9, <1>10, <1>11 DEF KeptOf, A

\* Kept keeps the elements of the list that are in keep, and none twice that is
\* in the list once.
LEMMA KeptElements ==
    ASSUME NEW Val, NEW seq \in Seq(Val), NEW keep
    PROVE  Kept(seq, keep) \in Seq(Val) /\ KeptOf(Kept(seq, keep), seq, keep, Len(seq))
<1>1. PICK F : IsKept(F, seq, keep, Len(seq)) /\ Kept(seq, keep) = F[Len(seq)]
  BY KeptIs
<1> DEFINE M == {n \in Nat : n <= Len(seq) => F[n] \in Seq(Val) /\ KeptOf(F[n], seq, keep, n)}
<1>2. 0 \in M
  <2>1. F[0] = <<>>
    BY <1>1 DEF IsKept
  <2>2. KeptOf(<<>>, seq, keep, 0)
    BY DEF KeptOf
  <2>3. <<>> \in Seq(Val)
    OBVIOUS
  <2>4. QED
    BY <2>1, <2>2, <2>3
<1>3. ASSUME NEW n \in Nat, n \in M PROVE n + 1 \in M
  <2> SUFFICES ASSUME n + 1 <= Len(seq)
               PROVE  F[n + 1] \in Seq(Val) /\ KeptOf(F[n + 1], seq, keep, n + 1)
    OBVIOUS
  <2>1. F[n] \in Seq(Val) /\ KeptOf(F[n], seq, keep, n)
    BY <1>3
  <2>2. F[n + 1] = IF seq[n + 1] \in keep THEN Append(F[n], seq[n + 1]) ELSE F[n]
    <3>1. n + 1 \in 0..Len(seq) /\ n + 1 # 0 /\ (n + 1) - 1 = n
      OBVIOUS
    <3>2. F[n + 1] = IF seq[n + 1] \in keep THEN Append(F[(n + 1) - 1], seq[n + 1]) ELSE F[(n + 1) - 1]
      BY ONLY <1>1, <3>1 DEF IsKept
    <3>3. QED
      BY ONLY <3>1, <3>2
  <2> HIDE DEF M
  <2>3. CASE seq[n + 1] \in keep
    BY ONLY <2>1, <2>2, <2>3, KeptStep, n \in Nat, n + 1 <= Len(seq), seq \in Seq(Val)
  <2>4. CASE seq[n + 1] \notin keep
    <3> DEFINE K == F[n]
    <3> HIDE DEF K
    <3>0. K \in Seq(Val) /\ KeptOf(K, seq, keep, n)
      BY <2>1 DEF K
    <3>1. Len(K) <= n + 1 /\ (\A k \in 1..n : k \in 1..(n + 1)) /\ \A k \in 1..(n + 1) : k \in 1..n \/ k = n + 1
      BY <3>0 DEF KeptOf
    <3>2. KeptOf(K, seq, keep, n + 1)
      BY <2>4, <3>0, <3>1 DEF KeptOf
    <3>3. QED
      BY <2>2, <2>4, <3>0, <3>2 DEF K
  <2>5. QED
    BY <2>3, <2>4
<1>4. Nat \subseteq M
  <2> HIDE DEF M
  <2>1. QED
    BY <1>2, <1>3, Induction
<1>5. QED
  BY <1>1, <1>4

\* Elements of sequences are of their type, and sequences are.
LEMMA SeqOf ==
    ASSUME NEW Val, NEW Other, NEW seq \in Seq(Val), \A i \in 1..Len(seq) : seq[i] \in Other
    PROVE  seq \in Seq(Other)
  OBVIOUS

\* No element is in the list twice.
Once(seq) == \A k, l \in 1..Len(seq) : seq[k] = seq[l] => k = l

\* The elements of a list.
Elements(seq) == {seq[k] : k \in 1..Len(seq)}

\* The same in terms of sets.
LEMMA KeptSet ==
    ASSUME NEW Val, NEW seq \in Seq(Val), NEW keep
    PROVE  /\ Kept(seq, keep) \in Seq(Val)
           /\ Len(Kept(seq, keep)) <= Len(seq)
           /\ Elements(Kept(seq, keep)) = Elements(seq) \cap keep
           /\ Once(seq) => Once(Kept(seq, keep))
<1> DEFINE K == Kept(seq, keep)
<1>1. K \in Seq(Val) /\ KeptOf(K, seq, keep, Len(seq))
  BY KeptElements
<1> HIDE DEF K
<1>2. Len(K) <= Len(seq) /\ (Once(seq) => Once(K))
  BY <1>1 DEF KeptOf, Once
<1>3. \A v : v \in Elements(K) <=> v \in Elements(seq) /\ v \in keep
  <2>1. \A i \in 1..Len(K) : K[i] \in keep /\ K[i] \in Elements(seq)
    BY <1>1 DEF KeptOf, Elements
  <2>2. \A k \in 1..Len(seq) : seq[k] \in keep => seq[k] \in Elements(K)
    BY <1>1 DEF KeptOf, Elements
  <2>3. QED
    BY <2>1, <2>2 DEF Elements
<1>4. QED
  BY <1>1, <1>2, <1>3 DEF K

-----------------------------------------------------------------------------
(* The cache of indicators.                                                  *)

\* Lists without repetition that follow one another without a common element.
LEMMA Joined ==
    ASSUME NEW Val, NEW q \in Seq(Val), NEW k \in Seq(Val), Once(q), Once(k),
           Elements(q) \cap Elements(k) = {}
    PROVE  q \o k \in Seq(Val) /\ Len(q \o k) = Len(q) + Len(k) /\ Once(q \o k)
<1>1. \A i \in 1..Len(q \o k) :
         (i \in 1..Len(q) /\ (q \o k)[i] = q[i])
         \/ (i - Len(q) \in 1..Len(k) /\ (q \o k)[i] = k[i - Len(q)])
  OBVIOUS
<1>2. ASSUME NEW i \in 1..Len(q \o k), NEW j \in 1..Len(q \o k), (q \o k)[i] = (q \o k)[j]
      PROVE  i = j
  <2>1. CASE i \in 1..Len(q) /\ (q \o k)[i] = q[i] /\ j \in 1..Len(q) /\ (q \o k)[j] = q[j]
    BY <1>2, <2>1 DEF Once
  <2>2. CASE /\ i - Len(q) \in 1..Len(k) /\ (q \o k)[i] = k[i - Len(q)]
             /\ j - Len(q) \in 1..Len(k) /\ (q \o k)[j] = k[j - Len(q)]
    <3>1. i - Len(q) = j - Len(q)
      BY ONLY <1>2, <2>2, Once(k) DEF Once
    <3>2. i \in Nat /\ j \in Nat /\ Len(q) \in Nat
      OBVIOUS
    <3>3. QED
      BY ONLY <3>1, <3>2
  <2>3. CASE /\ i \in 1..Len(q) /\ (q \o k)[i] = q[i]
             /\ j - Len(q) \in 1..Len(k) /\ (q \o k)[j] = k[j - Len(q)]
    BY <1>2, <2>3 DEF Elements
  <2>4. CASE /\ j \in 1..Len(q) /\ (q \o k)[j] = q[j]
             /\ i - Len(q) \in 1..Len(k) /\ (q \o k)[i] = k[i - Len(q)]
    BY <1>2, <2>4 DEF Elements
  <2>5. QED
    BY <1>1, <2>1, <2>2, <2>3, <2>4
<1>3. QED
  BY <1>2 DEF Once

\* A part of a list without repetition has none.
LEMMA PartOnce ==
    ASSUME NEW Val, NEW q \in Seq(Val), Once(q), NEW m \in Nat, NEW n \in Nat, m >= 1, n <= Len(q)
    PROVE  SubSeq(q, m, n) \in Seq(Val) /\ Once(SubSeq(q, m, n))
<1>1. /\ SubSeq(q, m, n) \in Seq(Val)
      /\ \A i \in 1..Len(SubSeq(q, m, n)) : SubSeq(q, m, n)[i] = q[i + m - 1] /\ i + m - 1 \in 1..Len(q)
  <2>1. Len(q) \in Nat /\ \A i \in m..n : q[i] \in Val
    OBVIOUS
  <2>2. SubSeq(q, m, n) \in Seq(Val)
    BY <2>1
  <2>3. Len(SubSeq(q, m, n)) = IF m <= n THEN n - m + 1 ELSE 0
    BY <2>1
  <2>4. \A i \in 1..Len(SubSeq(q, m, n)) : SubSeq(q, m, n)[i] = q[i + m - 1]
    BY <2>1, <2>3
  <2>5. \A i \in 1..Len(SubSeq(q, m, n)) : i + m - 1 \in 1..Len(q)
    BY <2>1, <2>3
  <2>6. QED
    BY <2>2, <2>4, <2>5
<1> DEFINE part == SubSeq(q, m, n)
<1> HIDE DEF part
<1>2. \A i \in 1..Len(part) : part[i] = q[i + m - 1] /\ i + m - 1 \in 1..Len(q)
  BY <1>1 DEF part
<1>3. Len(part) \in Nat
  BY <1>1 DEF part
<1>4. ASSUME NEW i \in 1..Len(part), NEW j \in 1..Len(part), part[i] = part[j]
      PROVE  i = j
  <2> DEFINE a == i + m - 1
             b == j + m - 1
  <2>1. a \in 1..Len(q) /\ b \in 1..Len(q) /\ q[a] = q[b]
    BY <1>2, <1>4
  <2>2. a = b => i = j
    BY <1>3
  <2> HIDE DEF a, b
  <2>3. a = b
    BY <2>1 DEF Once
  <2>4. QED
    BY <2>2, <2>3
<1>5. Once(part)
  BY <1>4, Zenon DEF Once
<1>6. QED
  BY <1>1, <1>5 DEF part

\* The keys of a pair that a computation has got to and the cache lacks are
\* put at the end of it.
LEMMA InsertedIs ==
    ASSUME I!ConstantsOK, I!TypeOK, NEW p \in Pairs, NEW n \in 0..Names
    PROVE  \E fresh \in Seq(I!Keys) :
              /\ I!Inserted(p, n) = indicators \o fresh
              /\ I!Inserted(p, n) \in Seq(I!Keys) /\ Once(I!Inserted(p, n))
              /\ Len(fresh) <= n
              /\ \A m \in 1..n : <<p, m>> \notin Elements(indicators) => <<p, m>> \in Elements(fresh)
<1> DEFINE keys == I!KeysOf(p)
           part == SubSeq(keys, 1, n)
           lacking == I!Keys \ I!Range(indicators)
           fresh == Kept(part, lacking)
<1>1. indicators \in Seq(I!Keys) /\ Once(indicators) /\ Names \in Nat
  BY DEF I!TypeOK, I!IsInjective, Once, I!ConstantsOK
<1>2. keys \in Seq(I!Keys) /\ Len(keys) = Names /\ \A m \in 1..Names : keys[m] = <<p, m>>
  BY <1>1 DEF I!KeysOf, I!Keys
<1>3. Once(keys)
  BY <1>2 DEF Once
<1> HIDE DEF keys
<1>4. part \in Seq(I!Keys) /\ Once(part) /\ Len(part) = n /\ \A m \in 1..n : part[m] = keys[m]
  <2>1. part \in Seq(I!Keys) /\ Once(part)
    BY <1>1, <1>2, <1>3, PartOnce
  <2>2. QED
    BY <1>1, <1>2, <2>1
<1> HIDE DEF part
<1>5. /\ fresh \in Seq(I!Keys) /\ Len(fresh) <= n /\ Once(fresh)
      /\ Elements(fresh) = Elements(part) \cap lacking
  BY <1>4, KeptSet
<1>6. I!Range(indicators) = Elements(indicators)
  BY <1>1 DEF I!Range, Elements
<1>7. I!Inserted(p, n) = indicators \o fresh
  BY DEF I!Inserted, I!Kept, Kept, keys, part
<1> HIDE DEF fresh
<1>8. Elements(indicators) \cap Elements(fresh) = {}
  BY <1>5, <1>6
<1>9. I!Inserted(p, n) \in Seq(I!Keys) /\ Once(I!Inserted(p, n))
  BY <1>1, <1>5, <1>7, <1>8, Joined
<1>10. \A m \in 1..n : <<p, m>> \notin Elements(indicators) => <<p, m>> \in Elements(fresh)
  <2>1. ASSUME NEW m \in 1..n PROVE <<p, m>> \in Elements(part) /\ <<p, m>> \in I!Keys
    <3>1. m \in 1..Names /\ m \in 1..Len(part) /\ part[m] = <<p, m>>
      BY <1>1, <1>2, <1>4
    <3>2. QED
      BY <3>1 DEF Elements, I!Keys
  <2>2. QED
    BY <1>5, <1>6, <2>1
<1>11. QED
  BY <1>5, <1>7, <1>9, <1>10

\* Initially the cache is empty.
LEMMA IndicatorsInit == I!ConstantsOK /\ I!Init => I!TypeOK
<1> SUFFICES ASSUME I!ConstantsOK, I!Init PROVE I!TypeOK
  OBVIOUS
<1>1. failed \in BOOLEAN
  BY Zenon DEF I!Init
<1>2. indicators = <<>> /\ 0 <= MaxCache
  BY DEF I!Init, I!ConstantsOK
<1>3. indicators \in Seq(I!Keys) /\ I!IsInjective(indicators) /\ Len(indicators) = 0
  BY <1>2 DEF I!IsInjective
<1>4. QED
  BY <1>1, <1>2, <1>3 DEF I!TypeOK

\* No step lets a key in twice or the cache grow beyond its size, short of a
\* failure.
LEMMA IndicatorsStep == I!ConstantsOK /\ I!TypeOK /\ [I!Next]_(I!vars) => I!TypeOK'
<1> SUFFICES ASSUME I!ConstantsOK, I!TypeOK, [I!Next]_(I!vars) PROVE I!TypeOK'
  OBVIOUS
<1>1. /\ indicators \in Seq(I!Keys) /\ Once(indicators) /\ failed \in BOOLEAN
      /\ ~failed => Len(indicators) <= MaxCache
      /\ Names \in Nat \ {0} /\ MaxCache \in Nat /\ Evicted \in Nat
      /\ Names <= Evicted /\ Evicted + Names <= MaxCache + 1
  BY DEF I!TypeOK, I!IsInjective, Once, I!ConstantsOK
<1>2. ASSUME indicators' \in Seq(I!Keys), Once(indicators'), failed' \in BOOLEAN,
             ~failed' => Len(indicators') <= MaxCache
      PROVE  I!TypeOK'
  BY <1>2 DEF I!TypeOK, I!IsInjective, Once
<1>3. ASSUME NEW p \in Pairs, I!ComputeAll(p) PROVE I!TypeOK'
  <2> DEFINE keys == I!Inserted(p, Names)
  <2>1. PICK fresh \in Seq(I!Keys) :
           keys = indicators \o fresh /\ keys \in Seq(I!Keys) /\ Once(keys) /\ Len(fresh) <= Names
    <3>1. Names \in 0..Names
      BY <1>1
    <3>2. QED
      BY <3>1, InsertedIs
  <2>2. Len(keys) = Len(indicators) + Len(fresh)
    BY <1>1, <2>1
  <2> HIDE DEF keys
  <2>3. failed' = failed /\ indicators' = I!AfterEviction(keys)
    BY <1>3 DEF I!ComputeAll, keys
  <2>4. CASE Len(keys) > MaxCache
    <3>1. indicators' = SubSeq(keys, Evicted + 1, Len(keys))
      BY <2>3, <2>4 DEF I!AfterEviction
    <3>2. indicators' \in Seq(I!Keys) /\ Once(indicators')
      <4>1. Evicted + 1 \in Nat /\ Evicted + 1 >= 1 /\ Len(keys) \in Nat /\ Len(keys) <= Len(keys)
        BY <1>1, <2>1
      <4>2. QED
        BY ONLY <2>1, <3>1, <4>1, PartOnce
    <3>3. ~failed => Len(indicators') <= MaxCache
      BY <1>1, <2>1, <2>2, <2>4, <3>1
    <3>4. QED
      BY <1>1, <1>2, <2>3, <3>2, <3>3
  <2>5. CASE ~(Len(keys) > MaxCache)
    <3>1. indicators' = keys
      BY <2>3, <2>5 DEF I!AfterEviction
    <3>2. Len(keys) \in Nat
      BY <2>1
    <3>3. QED
      BY <1>1, <1>2, <2>1, <2>3, <2>5, <3>1, <3>2
  <2>6. QED
    BY <2>4, <2>5
<1>4. ASSUME NEW p \in Pairs, NEW n \in 0..(Names - 1), I!ComputeSome(p, n) PROVE I!TypeOK'
  <2>1. n \in 0..Names
    BY <1>1
  <2>2. I!Inserted(p, n) \in Seq(I!Keys) /\ Once(I!Inserted(p, n))
    BY <2>1, InsertedIs
  <2>3. QED
    BY <1>2, <1>4, <2>2 DEF I!ComputeSome
<1>5. ASSUME NEW p \in Pairs, I!Invalidate(p) PROVE I!TypeOK'
  <2>1. indicators' = Kept(indicators, I!Keys \ I!Range(I!KeysOf(p))) /\ failed' = failed
    BY <1>5 DEF I!Invalidate, I!Kept, Kept
  <2>2. indicators' \in Seq(I!Keys) /\ Len(indicators') <= Len(indicators) /\ Once(indicators')
    BY <1>1, <2>1, KeptSet
  <2>3. QED
    BY <1>1, <1>2, <2>1, <2>2
<1>6. CASE UNCHANGED I!vars
  BY <1>1, <1>2, <1>6 DEF I!vars
<1>7. QED
  BY <1>3, <1>4, <1>5, <1>6 DEF I!Next

\* The keys that a computation puts into the cache lie behind those that its
\* eviction takes.
LEMMA FreshSurvive ==
    ASSUME I!ConstantsOK, I!TypeOK, NEW p \in Pairs, I!ComputeAll(p), NEW n \in 1..Names,
           ~I!Contains(indicators, <<p, n>>)
    PROVE  I!Contains(indicators', <<p, n>>)
<1>1. /\ indicators \in Seq(I!Keys)
      /\ Names \in Nat \ {0} /\ MaxCache \in Nat /\ Evicted \in Nat
      /\ Names <= Evicted /\ Evicted + Names <= MaxCache + 1
  BY DEF I!TypeOK, I!ConstantsOK
<1> DEFINE keys == I!Inserted(p, Names)
<1>2. PICK fresh \in Seq(I!Keys) :
         /\ keys = indicators \o fresh /\ Len(fresh) <= Names
         /\ \A m \in 1..Names : <<p, m>> \notin Elements(indicators) => <<p, m>> \in Elements(fresh)
  <2>1. Names \in 0..Names
    BY <1>1
  <2>2. QED
    BY <2>1, InsertedIs
<1>3. <<p, n>> \notin Elements(indicators)
  BY DEF I!Contains, Elements
<1>4. PICK i \in 1..Len(fresh) : fresh[i] = <<p, n>>
  BY <1>2, <1>3 DEF Elements
<1>5. keys \in Seq(I!Keys) /\ Len(keys) = Len(indicators) + Len(fresh)
      /\ keys[Len(indicators) + i] = <<p, n>>
  BY <1>1, <1>2, <1>4
<1>6. indicators' = I!AfterEviction(keys)
  BY DEF I!ComputeAll
<1> HIDE DEF keys
<1>7. CASE Len(keys) > MaxCache
  <2>1. indicators' = SubSeq(keys, Evicted + 1, Len(keys))
    BY <1>6, <1>7 DEF I!AfterEviction
  <2>2. Evicted <= Len(indicators)
    BY <1>1, <1>2, <1>5, <1>7
  <2> DEFINE j == Len(indicators) + i - Evicted
  <2>3. j \in 1..(Len(keys) - Evicted) /\ j + Evicted = Len(indicators) + i
    BY <1>1, <1>5, <2>2
  <2> HIDE DEF j
  <2>4. j \in 1..Len(indicators') /\ indicators'[j] = keys[j + Evicted]
    BY <1>1, <1>5, <2>1, <2>3
  <2>5. QED
    BY <1>5, <2>3, <2>4 DEF I!Contains
<1>8. CASE ~(Len(keys) > MaxCache)
  <2>1. indicators' = keys /\ Len(indicators) + i \in 1..Len(keys)
    BY <1>1, <1>5, <1>6, <1>8 DEF I!AfterEviction
  <2>2. QED
    BY <1>5, <2>1 DEF I!Contains
<1>9. QED
  BY <1>7, <1>8

-----------------------------------------------------------------------------
(* The cache of bars.                                                        *)

\* The larger of two numbers, and of one.
LEMMA MaxOf ==
    ASSUME NEW m \in Int, NEW n \in Int
    PROVE  /\ B!Max({m, n}) \in {m, n} /\ B!Max({m, n}) >= m /\ B!Max({m, n}) >= n
           /\ B!Max({m}) = m
  BY DEF B!Max

\* The last n elements of a list, or all of them if it has no more.
LEMMA LastOfIs ==
    ASSUME NEW Val, NEW q \in Seq(Val), NEW n \in Nat \ {0}
    PROVE  /\ B!LastOf(q, n) \in Seq(Val)
           /\ Len(B!LastOf(q, n)) = IF Len(q) < n THEN Len(q) ELSE n
           /\ \A i \in 1..Len(B!LastOf(q, n)) :
                 /\ Len(q) - Len(B!LastOf(q, n)) + i \in 1..Len(q)
                 /\ B!LastOf(q, n)[i] = q[Len(q) - Len(B!LastOf(q, n)) + i]
<1> DEFINE from == B!Max({1, Len(q) - n + 1})
<1>1. Len(q) \in Nat /\ Len(q) - n + 1 \in Int /\ 1 \in Int
  OBVIOUS
<1>2. from = IF Len(q) < n THEN 1 ELSE Len(q) - n + 1
  <2>1. from \in {1, Len(q) - n + 1} /\ from >= 1 /\ from >= Len(q) - n + 1
    BY ONLY <1>1, MaxOf, Zenon
  <2> HIDE DEF from
  <2>2. QED
    BY <1>1, <2>1
<1>3. B!LastOf(q, n) = SubSeq(q, from, Len(q))
  BY DEF B!LastOf
<1> HIDE DEF from
<1>4. from \in 1..(Len(q) + 1)
  BY <1>1, <1>2
<1>5. CASE Len(q) < n
  <2>1. from = 1
    BY <1>2, <1>5
  <2>2. SubSeq(q, 1, Len(q)) = q
    BY <1>1
  <2>3. B!LastOf(q, n) = q
    BY <1>3, <2>1, <2>2
  <2>4. \A i \in 1..Len(q) : Len(q) - Len(q) + i = i
    BY <1>1
  <2>5. QED
    BY <1>5, <2>3, <2>4
<1>6. CASE ~(Len(q) < n)
  <2>1. from = Len(q) - n + 1 /\ from >= 1 /\ from <= Len(q)
    BY <1>1, <1>2, <1>6
  <2>2. /\ SubSeq(q, from, Len(q)) \in Seq(Val)
        /\ Len(SubSeq(q, from, Len(q))) = n
        /\ \A i \in 1..n : SubSeq(q, from, Len(q))[i] = q[from + i - 1] /\ from + i - 1 \in 1..Len(q)
    BY <1>1, <2>1
  <2>3. \A i \in 1..n : from + i - 1 = Len(q) - n + i
    BY <1>1, <2>1
  <2>4. QED
    BY <1>3, <1>6, <2>2, <2>3
<1>7. QED
  BY <1>5, <1>6

\* No bar of the list is before the last one or far behind it, and the last is
\* about as recent as the one refreshed.
Follows(q, end) ==
    q # <<>> => /\ \A i \in 1..(Len(q) - 1) : q[i + 1] - q[i] \in 0..B!Shortfall
                /\ q[Len(q)] - end \in (1 - B!Shortfall)..1

\* The window is longer than the look-back, by the shortfall at the most.
LEMMA WindowIs ==
    ASSUME B!ConstantsOK
    PROVE  /\ B!Window \in Nat \ {0} /\ B!Window >= Lookback
           /\ B!Shortfall \in Nat \ {0} /\ B!Shortfall >= B!Window - Lookback
<1>1. Lookback \in Nat \ {0}
  BY DEF B!ConstantsOK
<1>2. B!Window \in Nat \ {0} /\ B!Window >= Lookback
  BY <1>1 DEF B!Window
<1> DEFINE d == B!Window - Lookback
<1>3. d \in Int /\ 1 \in Int
  BY <1>1, <1>2
<1>4. B!Shortfall = B!Max({1, d})
  BY DEF B!Shortfall
<1> HIDE DEF d
<1>5. B!Max({1, d}) \in {1, d} /\ B!Max({1, d}) >= 1 /\ B!Max({1, d}) >= d
  BY <1>3, MaxOf, Zenon
<1>6. B!Shortfall \in Nat \ {0} /\ B!Shortfall >= d
  BY <1>3, <1>4, <1>5
<1>7. QED
  BY <1>2, <1>6 DEF d

\* A list of bars that is cut at its head still follows.
LEMMA LastOfEnds ==
    ASSUME NEW q \in Seq(Nat), NEW n \in Nat \ {0}, NEW end, Follows(q, end)
    PROVE  Follows(B!LastOf(q, n), end)
<1> DEFINE k == B!LastOf(q, n)
<1>1. /\ k \in Seq(Nat) /\ Len(k) <= Len(q)
      /\ \A i \in 1..Len(k) : Len(q) - Len(k) + i \in 1..Len(q) /\ k[i] = q[Len(q) - Len(k) + i]
  BY LastOfIs
<1> HIDE DEF k
<1>2. Len(k) \in Nat /\ Len(q) \in Nat
  BY <1>1
<1>3. SUFFICES ASSUME k # <<>> PROVE Follows(k, end)
  BY DEF Follows, k
<1>4. q # <<>> /\ Len(k) \in 1..Len(k)
  BY <1>1, <1>2, <1>3
<1>5. k[Len(k)] = q[Len(q)]
  <2>1. k[Len(k)] = q[Len(q) - Len(k) + Len(k)]
    BY <1>1, <1>4
  <2>2. Len(q) - Len(k) + Len(k) = Len(q)
    BY <1>2
  <2>3. QED
    BY <2>1, <2>2
<1>6. ASSUME NEW i \in 1..(Len(k) - 1) PROVE k[i + 1] - k[i] \in 0..B!Shortfall
  <2> DEFINE j == Len(q) - Len(k) + i
  <2>1. i \in 1..Len(k) /\ i + 1 \in 1..Len(k) /\ Len(q) - Len(k) + (i + 1) = j + 1
        /\ j \in 1..(Len(q) - 1)
    BY <1>1, <1>2
  <2>2. k[i] = q[j] /\ k[i + 1] = q[j + 1]
    BY <1>1, <2>1
  <2> HIDE DEF j
  <2>3. q[j + 1] - q[j] \in 0..B!Shortfall
    BY <1>4, <2>1 DEF Follows
  <2>4. QED
    BY <2>2, <2>3
<1>7. QED
  BY <1>4, <1>5, <1>6 DEF Follows

\* The bars of the provider follow one another, up to the one that is forming
\* or, limited, short of it by the shortfall.
LEMMA ProvidedEnds ==
    ASSUME B!ConstantsOK, NEW n \in Nat
    PROVE  /\ B!Provided(n) \in Seq(1..(n + 1)) /\ Len(B!Provided(n)) <= B!Window
           /\ Follows(B!Provided(n), n)
<1> DEFINE q == [i \in 1..(n + 1) |-> i]
           w == B!LastOf(q, B!Window)
           r == B!Provided(n)
<1>1. q \in Seq(1..(n + 1)) /\ Len(q) = n + 1 /\ (\A i \in 1..(n + 1) : q[i] = i)
  OBVIOUS
<1>2. /\ B!Window \in Nat \ {0} /\ Lookback \in Nat \ {0} /\ B!Window >= Lookback
      /\ B!Shortfall \in Nat \ {0} /\ B!Shortfall >= B!Window - Lookback
  BY WindowIs DEF B!ConstantsOK
<1>3. r = IF limited THEN SubSeq(w, 1, B!Min({Lookback, Len(w)})) ELSE w
  BY DEF B!Provided
<1> HIDE DEF q
<1>4. /\ w \in Seq(1..(n + 1)) /\ Len(w) = IF Len(q) < B!Window THEN Len(q) ELSE B!Window
      /\ \A i \in 1..Len(w) : Len(q) - Len(w) + i \in 1..Len(q) /\ w[i] = q[Len(q) - Len(w) + i]
  BY <1>1, <1>2, LastOfIs
<1> DEFINE len == Len(w)
<1> HIDE DEF w, r
<1>5. len \in Nat /\ len >= 1 /\ len <= B!Window /\ len <= n + 1
      /\ \A i \in 1..len : w[i] = (n + 1) - len + i
  BY <1>1, <1>2, <1>4
<1> DEFINE m == IF limited THEN B!Min({Lookback, len}) ELSE len
<1>6. m \in 1..len /\ (m = len \/ m = Lookback)
  <2>1. Lookback \in Int /\ len \in Int
    BY <1>2, <1>5
  <2> HIDE DEF len
  <2>2. B!Min({Lookback, len}) \in {Lookback, len} /\ B!Min({Lookback, len}) <= len
    BY <2>1 DEF B!Min
  <2>3. QED
    BY <1>2, <1>5, <2>1, <2>2
<1>7. r = SubSeq(w, 1, m)
  <2>1. SubSeq(w, 1, len) = w
    BY <1>4
  <2>2. QED
    BY <1>3, <2>1
<1> HIDE DEF m
<1>8. /\ r \in Seq(1..(n + 1)) /\ Len(r) = m
      /\ \A i \in 1..m : r[i] = (n + 1) - len + i
  <2>1. m \in Nat /\ m >= 1 /\ m <= Len(w)
    BY <1>5, <1>6
  <2>2. /\ SubSeq(w, 1, m) \in Seq(1..(n + 1)) /\ Len(SubSeq(w, 1, m)) = m
        /\ \A i \in 1..m : SubSeq(w, 1, m)[i] = w[i]
    BY <1>4, <2>1
  <2>3. QED
    BY <1>5, <1>7, <2>1, <2>2
<1>9. Follows(r, n)
  <2> HIDE DEF len
  <2>1. ASSUME NEW i \in 1..(m - 1) PROVE r[i + 1] - r[i] \in 0..B!Shortfall
    <3>1. i \in 1..m /\ i + 1 \in 1..m
      BY <1>5, <1>6
    <3>2. r[i + 1] = (n + 1) - len + (i + 1) /\ r[i] = (n + 1) - len + i
      BY <1>8, <3>1
    <3>3. QED
      BY <1>2, <1>5, <3>1, <3>2
  <2>2. r[m] - n \in (1 - B!Shortfall)..1
    <3>1. m \in 1..m /\ r[m] = (n + 1) - len + m
      BY <1>5, <1>6, <1>8
    <3>2. QED
      BY <1>2, <1>5, <1>6, <3>1
  <2>3. QED
    BY <1>8, <2>1, <2>2 DEF Follows
<1>10. m <= B!Window
  BY <1>2, <1>5, <1>6
<1>11. QED
  BY <1>8, <1>9, <1>10 DEF r

\* Without an overlap a fetch under way asks for the bars up to the last one
\* refreshed.
FetchesCurrent == ~overlapped => \A c \in Callers : fetch[c] # {} => fetch[c] = {refreshed}

BarsInv == B!TypeOK /\ B!CacheInOrder /\ FetchesCurrent

\* The order of the cached bars, put shortly.
LEMMA InOrder == B!CacheInOrder <=> (~overlapped => Follows(cache, refreshed))
  BY DEF B!CacheInOrder, B!Last, Follows

\* Initially nothing is cached.
LEMMA BarsInit == B!ConstantsOK /\ B!Init => BarsInv
<1> SUFFICES ASSUME B!ConstantsOK, B!Init PROVE BarsInv
  OBVIOUS
<1>1. overlapped \in BOOLEAN /\ limited \in BOOLEAN
  BY Zenon DEF B!Init
<1>2. /\ closed = 0 /\ refreshed = 0 /\ cache = <<>> /\ fetch = [c \in Callers |-> {}]
      /\ Lookback \in Nat /\ Cap \in Nat /\ MaxBars \in Nat
  BY DEF B!Init, B!ConstantsOK
<1>3. B!Window \in Nat /\ B!Window \in Int /\ Cap \in Int
  BY <1>2, WindowIs
<1>4. B!Max({B!Window, Cap}) >= B!Window /\ B!Max({B!Window, Cap}) \in {B!Window, Cap}
  BY <1>3, MaxOf, Zenon
<1>5. Len(cache) <= B!Max({B!Window, Cap}) /\ cache \in Seq(1..(closed + 1))
  BY <1>2, <1>3, <1>4
<1>6. fetch \in [Callers -> {{}} \cup {{n} : n \in 0..closed}]
  BY <1>2
<1>7. B!TypeOK
  BY <1>1, <1>2, <1>5, <1>6 DEF B!TypeOK
<1>8. QED
  BY <1>2, <1>7 DEF BarsInv, B!CacheInOrder, FetchesCurrent

\* What the steps that change the cache have to show.
LEMMA BarsFrame ==
    ASSUME B!ConstantsOK, BarsInv, limited' = limited,
           closed' \in 0..MaxBars, refreshed' \in 0..closed', closed' >= closed,
           cache' \in Seq(1..(closed' + 1)), Len(cache') <= B!Window \/ Len(cache') <= Cap \/ cache' = cache,
           fetch' \in [Callers -> {{}} \cup {{n} : n \in 0..closed'}],
           overlapped' \in BOOLEAN,
           ~overlapped' => Follows(cache', refreshed'),
           ~overlapped' => \A c \in Callers : fetch'[c] # {} => fetch'[c] = {refreshed'}
    PROVE  BarsInv'
<1>1. B!Window \in Nat /\ Cap \in Nat /\ B!Window \in Int /\ Cap \in Int
  BY WindowIs DEF B!ConstantsOK
<1>2. /\ B!Max({B!Window, Cap}) \in {B!Window, Cap}
      /\ B!Max({B!Window, Cap}) >= B!Window /\ B!Max({B!Window, Cap}) >= Cap
  BY <1>1, MaxOf, Zenon
<1>3. Len(cache') \in Nat
  OBVIOUS
<1>4. Len(cache') <= B!Max({B!Window, Cap})
  BY <1>1, <1>2, <1>3 DEF BarsInv, B!TypeOK
<1>5. B!TypeOK'
  BY <1>4 DEF BarsInv, B!TypeOK
<1>6. B!CacheInOrder'
  BY DEF B!CacheInOrder, B!Last, Follows
<1>7. FetchesCurrent'
  BY DEF FetchesCurrent
<1>8. QED
  BY <1>5, <1>6, <1>7 DEF BarsInv

\* Lists of bars closed so far remain lists of bars closed.
LEMMA MoreClosed ==
    ASSUME NEW m \in Nat, NEW n \in Nat, m <= n, NEW q \in Seq(1..m)
    PROVE  q \in Seq(1..n) /\ q \in Seq(Nat)
<1>1. \A i \in 1..Len(q) : q[i] \in 1..n /\ q[i] \in Nat
  OBVIOUS
<1>2. QED
  BY <1>1, SeqOf

\* Every step keeps the cached bars in order, short of an overlap.
LEMMA BarsStep == B!ConstantsOK /\ BarsInv /\ [B!Next]_(B!vars) => BarsInv'
<1> SUFFICES ASSUME B!ConstantsOK, BarsInv, [B!Next]_(B!vars) PROVE BarsInv'
  OBVIOUS
<1>1. /\ closed \in Nat /\ closed \in 0..MaxBars /\ refreshed \in Nat /\ refreshed \in 0..closed
      /\ cache \in Seq(1..(closed + 1)) /\ overlapped \in BOOLEAN
      /\ fetch \in [Callers -> {{}} \cup {{n} : n \in 0..closed}]
  BY DEF BarsInv, B!TypeOK
<1>2. /\ ~overlapped => Follows(cache, refreshed)
      /\ ~overlapped => \A c \in Callers : fetch[c] # {} => fetch[c] = {refreshed}
  BY InOrder DEF BarsInv, FetchesCurrent
<1>3. /\ MaxBars \in Nat /\ Lookback \in Nat \ {0} /\ Cap \in Nat \ {0}
      /\ B!Window \in Nat /\ B!Shortfall \in Nat \ {0}
  BY WindowIs DEF B!ConstantsOK
<1>4. CASE B!CloseBar
  <2>1. closed < MaxBars /\ closed' = closed + 1 /\ UNCHANGED <<limited, refreshed, cache, fetch, overlapped>>
    BY <1>4 DEF B!CloseBar
  <2>2. closed' \in 0..MaxBars /\ refreshed' \in 0..closed' /\ closed' >= closed
    BY <1>1, <1>3, <2>1
  <2>3. cache' \in Seq(1..(closed' + 1))
    BY <1>1, <2>1, MoreClosed
  <2>4. fetch' \in [Callers -> {{}} \cup {{n} : n \in 0..closed'}]
    BY <1>1, <2>1
  <2>5. QED
    BY <1>1, <1>2, <2>1, <2>2, <2>3, <2>4, BarsFrame
<1>5. ASSUME NEW c \in Callers, B!GetBars(c) PROVE BarsInv'
  <2>1. /\ cache = <<>> /\ fetch' = [fetch EXCEPT ![c] = {closed}]
        /\ UNCHANGED <<limited, closed, refreshed, cache>>
    BY <1>5 DEF B!GetBars
  <2>2. overlapped' = (overlapped \/ refreshed < closed)
    BY <1>5 DEF B!GetBars
  <2>3. fetch' \in [Callers -> {{}} \cup {{n} : n \in 0..closed'}]
    BY <1>1, <2>1
  <2>4. overlapped' \in BOOLEAN
    BY <2>2
  <2>5. ASSUME ~overlapped', NEW d \in Callers, fetch'[d] # {} PROVE fetch'[d] = {refreshed'}
    <3>0. ~overlapped /\ ~(refreshed < closed)
      BY <2>2, <2>5, Zenon
    <3>1. ~overlapped /\ closed = refreshed
      BY <1>1, <3>0
    <3>2. QED
      BY <1>1, <1>2, <2>1, <2>5, <3>1
  <2>6. ~overlapped' => Follows(cache', refreshed')
    BY <2>1 DEF Follows
  <2>7. QED
    BY <1>1, <2>1, <2>3, <2>4, <2>5, <2>6, BarsFrame
<1>6. ASSUME NEW c \in Callers, NEW succeeds \in BOOLEAN, B!Fetched(c, succeeds) PROVE BarsInv'
  <2>1. fetch[c] # {} /\ fetch' = [fetch EXCEPT ![c] = {}]
        /\ UNCHANGED <<limited, closed, refreshed, overlapped>>
    BY <1>6 DEF B!Fetched
  <2>2. PICK n \in 0..closed : fetch[c] = {n}
    BY <1>1, <2>1
  <2>3. B!Max(fetch[c]) = n
    BY <2>2, MaxOf
  <2>4. cache' = cache \/ cache' = B!Provided(n)
    BY <1>6, <2>3 DEF B!Fetched
  <2>5. n \in Nat /\ n <= closed
    BY <1>1, <2>2
  <2>6. /\ B!Provided(n) \in Seq(1..(n + 1)) /\ Len(B!Provided(n)) <= B!Window
        /\ Follows(B!Provided(n), n)
    BY <2>5, ProvidedEnds
  <2>7. ~overlapped => n = refreshed
    BY <1>2, <2>1, <2>2
  <2>8. fetch' \in [Callers -> {{}} \cup {{k} : k \in 0..closed'}]
    BY <1>1, <2>1
  <2>9. ASSUME ~overlapped', NEW d \in Callers, fetch'[d] # {} PROVE fetch'[d] = {refreshed'}
    BY <1>1, <1>2, <2>1, <2>9
  <2>10. cache' \in Seq(1..(closed' + 1)) /\ (Len(cache') <= B!Window \/ cache' = cache)
    <3>1. n + 1 \in Nat /\ closed + 1 \in Nat /\ n + 1 <= closed + 1
      BY <1>1, <2>5
    <3>2. B!Provided(n) \in Seq(1..(closed + 1))
      BY <2>6, <3>1, MoreClosed
    <3>3. QED
      BY <1>1, <2>1, <2>4, <2>6, <3>2
  <2>11. ~overlapped' => Follows(cache', refreshed')
    BY <1>2, <2>1, <2>4, <2>6, <2>7
  <2>12. QED
    BY <1>1, <2>1, <2>8, <2>9, <2>10, <2>11, BarsFrame
<1>7. CASE B!Refresh
  <2>1. refreshed < closed /\ refreshed' = refreshed + 1 /\ UNCHANGED <<limited, closed, fetch>>
    BY <1>7 DEF B!Refresh
  <2>2. overlapped' = (overlapped \/ B!Fetching # {})
    BY <1>7 DEF B!Refresh
  <2>3. overlapped' \in BOOLEAN
    BY <2>2
  <2>4. ~overlapped' => ~overlapped /\ \A c \in Callers : fetch'[c] = {}
    BY <2>1, <2>2 DEF B!Fetching
  <2>5. limited' = limited /\ (~overlapped' => \A c \in Callers : fetch'[c] # {} => fetch'[c] = {refreshed'})
    BY <2>1, <2>4
  <2>6. refreshed + 1 \in 1..(closed + 1) /\ refreshed + 1 \in 0..closed /\ closed + 1 \in Nat
    BY <1>1, <2>1
  <2>7. CASE cache = <<>>
    <3>1. cache' = <<refreshed + 1>>
      BY <1>7, <2>7 DEF B!Refresh
    <3>2. cache' \in Seq(1..(closed + 1)) /\ Len(cache') = 1
      BY <2>6, <3>1
    <3>3. Follows(cache', refreshed + 1)
      BY <1>1, <1>3, <3>1 DEF Follows
    <3>4. Len(cache') <= Cap
      BY <1>3, <3>2
    <3>5. closed' \in 0..MaxBars /\ refreshed' \in 0..closed' /\ closed' >= closed
          /\ fetch' \in [Callers -> {{}} \cup {{n} : n \in 0..closed'}]
      BY <1>1, <2>1, <2>6
    <3>6. cache' \in Seq(1..(closed' + 1)) /\ Follows(cache', refreshed')
      BY <2>1, <3>2, <3>3
    <3>7. QED
      BY <2>3, <2>5, <3>4, <3>5, <3>6, BarsFrame, Zenon
  <2>8. CASE cache # <<>>
    <3> DEFINE q == Append(cache, refreshed + 1)
    <3>1. cache' = B!LastOf(q, Cap)
      BY <1>7, <2>8 DEF B!Refresh, B!Trimmed
    <3>2. q \in Seq(1..(closed + 1)) /\ q \in Seq(Nat)
      <4>1. q \in Seq(1..(closed + 1))
        BY <1>1, <2>6
      <4>2. QED
        BY <2>6, <4>1, MoreClosed
    <3>3. ~overlapped => Follows(q, refreshed + 1)
      <4> SUFFICES ASSUME ~overlapped PROVE Follows(q, refreshed + 1)
        OBVIOUS
      <4>1. Follows(cache, refreshed)
        BY <1>2
      <4>2. Len(q) = Len(cache) + 1 /\ q[Len(q)] = refreshed + 1 /\ Len(cache) \in Nat
            /\ \A i \in 1..Len(cache) : q[i] = cache[i]
        BY <1>1
      <4> HIDE DEF q
      <4>3. ASSUME NEW i \in 1..(Len(q) - 1) PROVE q[i + 1] - q[i] \in 0..B!Shortfall
        <5>1. CASE i = Len(cache)
          <6>1. i \in 1..Len(cache) /\ cache[i] - refreshed \in (1 - B!Shortfall)..1 /\ cache[i] \in Nat
            BY <1>1, <2>8, <4>1, <4>2, <5>1 DEF Follows
          <6>2. q[i + 1] = refreshed + 1 /\ q[i] = cache[i]
            BY <4>2, <5>1, <6>1
          <6>3. QED
            BY <1>1, <1>3, <6>1, <6>2
        <5>2. CASE i # Len(cache)
          <6>1. i \in 1..(Len(cache) - 1) /\ i \in 1..Len(cache) /\ i + 1 \in 1..Len(cache)
            BY <4>2, <5>2
          <6>2. QED
            BY <2>8, <4>1, <4>2, <6>1 DEF Follows
        <5>3. QED
          BY <5>1, <5>2
      <4>4. q[Len(q)] - (refreshed + 1) \in (1 - B!Shortfall)..1
        BY <1>1, <1>3, <4>2
      <4>5. QED
        BY <4>3, <4>4 DEF Follows
    <3> HIDE DEF q
    <3>4. B!LastOf(q, Cap) \in Seq(1..(closed + 1))
          /\ Len(B!LastOf(q, Cap)) = IF Len(q) < Cap THEN Len(q) ELSE Cap
      BY <1>3, <3>2, LastOfIs
    <3>5. Len(cache') <= Cap
      BY <1>3, <3>1, <3>2, <3>4
    <3>6. ~overlapped' => Follows(cache', refreshed + 1)
      BY <1>3, <2>4, <3>1, <3>2, <3>3, LastOfEnds
    <3>7. closed' \in 0..MaxBars /\ refreshed' \in 0..closed' /\ closed' >= closed
          /\ fetch' \in [Callers -> {{}} \cup {{n} : n \in 0..closed'}]
      BY <1>1, <2>1, <2>6
    <3>8. cache' \in Seq(1..(closed' + 1)) /\ (~overlapped' => Follows(cache', refreshed'))
      BY <2>1, <3>1, <3>4, <3>6
    <3>9. QED
      BY <2>3, <2>5, <3>5, <3>7, <3>8, BarsFrame, Zenon
  <2>9. QED
    BY <2>7, <2>8
<1>8. CASE UNCHANGED B!vars
  BY <1>1, <1>2, <1>8, BarsFrame DEF B!vars
<1>9. QED
  BY <1>4, <1>5, <1>6, <1>7, <1>8 DEF B!Next

-----------------------------------------------------------------------------
(* Trade streams.                                                            *)

\* A list that rises, or rises by one, and ends below n.
Rising(h, n) ==
    /\ \A i \in 1..(Len(h) - 1) : h[i] < h[i + 1]
    /\ h # <<>> => h[Len(h)] < n

Unbroken(h, n) ==
    /\ \A i \in 1..(Len(h) - 1) : h[i + 1] = h[i] + 1
    /\ h # <<>> => h[Len(h)] + 1 = n

\* The first element of a list and the others.
LEMMA FirstOfList ==
    ASSUME NEW Val, NEW q \in Seq(Val), q # <<>>
    PROVE  /\ Head(q) \in Val /\ Tail(q) \in Seq(Val) /\ Len(q) \in Nat
           /\ Len(Tail(q)) = Len(q) - 1 /\ Len(Tail(q)) \in Nat
           /\ \A i \in 1..Len(Tail(q)) : Tail(q)[i] = q[i + 1]
           /\ <<Head(q)>> \o Tail(q) = q
<1>1. Len(q) \in Nat /\ Len(q) > 0
  OBVIOUS
<1>2. Head(q) \in Val /\ Head(q) = q[1]
  BY <1>1
<1>3. Tail(q) \in Seq(Val) /\ Len(Tail(q)) = Len(q) - 1 /\ \A i \in 1..Len(Tail(q)) : Tail(q)[i] = q[i + 1]
  BY <1>1
<1> DEFINE t == Tail(q)
           x == Head(q)
<1>4. t \in Seq(Val) /\ Len(t) = Len(q) - 1 /\ Len(t) \in Nat /\ x \in Val /\ x = q[1]
      /\ \A i \in 1..Len(t) : t[i] = q[i + 1]
  BY <1>1, <1>2, <1>3
<1> HIDE DEF t, x
<1> DEFINE k == <<x>> \o t
<1>5. k \in Seq(Val) /\ Len(k) = Len(q) /\ k[1] = x /\ \A i \in 1..Len(t) : k[i + 1] = t[i]
  BY <1>1, <1>4
<1> HIDE DEF k
<1>6. ASSUME NEW i \in 1..Len(q) PROVE k[i] = q[i]
  <2>1. CASE i = 1
    BY <1>4, <1>5, <2>1
  <2>2. CASE i # 1
    <3>1. i - 1 \in 1..Len(t) /\ (i - 1) + 1 = i
      BY <1>1, <1>4, <2>2
    <3>2. k[(i - 1) + 1] = q[(i - 1) + 1]
      BY <1>4, <1>5, <3>1
    <3>3. QED
      BY <3>1, <3>2
  <2>3. QED
    BY <2>1, <2>2
<1>7. k = q
  BY <1>5, <1>6
<1>8. QED
  BY <1>4, <1>7 DEF k, t, x

\* The list k is the list h, or h without its first element.
Rest(h, k) == h = k \/ \E x \in Nat : h = <<x>> \o k

\* The list that goes on after an element, or after none.
LEMMA After ==
    ASSUME NEW v, NEW q \in Seq(Nat), v = <<>> \/ \E x \in Nat : v = <<x>>
    PROVE  v \o q \in Seq(Nat) /\ Rest(v \o q, q)
<1>1. CASE v = <<>>
  <2>1. v \o q = q
    BY <1>1
  <2>2. QED
    BY <2>1 DEF Rest
<1>2. ASSUME NEW x \in Nat, v = <<x>>
      PROVE  v \o q \in Seq(Nat) /\ Rest(v \o q, q)
  BY <1>2 DEF Rest
<1>3. QED
  BY <1>1, <1>2

\* The rest of such a list is one as well.
LEMMA Later ==
    ASSUME NEW h \in Seq(Nat), NEW q \in Seq(Nat), Rest(h, q), NEW n
    PROVE  /\ Rising(h, n) => Rising(q, n)
           /\ Unbroken(h, n) => Unbroken(q, n)
           /\ h = <<>> => q = <<>>
<1>1. ASSUME NEW x \in Nat, h = <<x>> \o q
      PROVE  /\ Rising(h, n) => Rising(q, n)
             /\ Unbroken(h, n) => Unbroken(q, n)
             /\ h = <<>> => q = <<>>
  <2>1. /\ Len(h) = Len(q) + 1 /\ Len(q) \in Nat
        /\ \A i \in 1..Len(q) : h[i + 1] = q[i]
    BY <1>1
  <2>2. q # <<>> => h # <<>> /\ Len(q) \in 1..Len(q) /\ Len(q) \in Nat
    BY <1>1, <2>1
  <2>3. q # <<>> => q[Len(q)] = h[Len(h)]
    BY <2>1, <2>2
  <2>4. ASSUME NEW i \in 1..(Len(q) - 1)
        PROVE  i + 1 \in 1..(Len(h) - 1) /\ q[i] = h[i + 1] /\ q[i + 1] = h[(i + 1) + 1]
    BY <2>1
  <2>5. Rising(h, n) => Rising(q, n)
    BY <2>2, <2>3, <2>4 DEF Rising
  <2>6. Unbroken(h, n) => Unbroken(q, n)
    BY <2>2, <2>3, <2>4 DEF Unbroken
  <2>7. h # <<>>
    BY <2>1
  <2>8. QED
    BY <2>5, <2>6, <2>7
<1>2. QED
  BY <1>1 DEF Rest

\* The list goes on with n.
LEMMA Longer ==
    ASSUME NEW h \in Seq(Nat), NEW n \in Nat
    PROVE  /\ Append(h, n) \in Seq(Nat) /\ Append(h, n) # <<>>
           /\ Rising(h, n) => Rising(Append(h, n), n + 1)
           /\ Unbroken(h, n) => Unbroken(Append(h, n), n + 1)
<1> DEFINE k == Append(h, n)
<1>1. /\ k \in Seq(Nat) /\ k # <<>> /\ Len(k) = Len(h) + 1 /\ Len(h) \in Nat /\ k[Len(k)] = n
      /\ \A i \in 1..Len(h) : k[i] = h[i]
  OBVIOUS
<1>2. h # <<>> => Len(h) \in 1..Len(h)
  OBVIOUS
<1> HIDE DEF k
<1>3. ASSUME NEW i \in 1..(Len(k) - 1)
      PROVE  \/ i \in 1..(Len(h) - 1) /\ k[i] = h[i] /\ k[i + 1] = h[i + 1]
             \/ h # <<>> /\ i = Len(h) /\ k[i] = h[Len(h)] /\ k[i + 1] = n
  <2>1. i \in 1..Len(h)
    BY <1>1
  <2>2. h # <<>>
    BY <2>1
  <2>3. CASE i = Len(h)
    BY <1>1, <1>2, <2>2, <2>3
  <2>4. CASE i # Len(h)
    <3>1. i \in 1..(Len(h) - 1) /\ i + 1 \in 1..Len(h)
      BY <1>1, <2>1, <2>4
    <3>2. QED
      BY <1>1, <2>1, <3>1
  <2>5. QED
    BY <2>3, <2>4
<1>4. n < n + 1
  OBVIOUS
<1>5. Rising(h, n) => Rising(k, n + 1)
  BY <1>1, <1>3, <1>4 DEF Rising
<1>6. Unbroken(h, n) => Unbroken(k, n + 1)
  BY <1>1, <1>3 DEF Unbroken
<1>7. QED
  BY <1>1, <1>5, <1>6 DEF k

\* What the stream has had last and what waits for it.
Had(r) == lastTrade[r] \o inboxes[r]

\* The trades a stream has had rise towards the next one of its connection,
\* without a gap if the connection has never been lost; before the first
\* connection there are none; a task that was cancelled has ended.
StreamInOrder(r) ==
    /\ nextTrade[r] <= trades + 1
    /\ loops[r] = "putting" => nextTrade[r] <= trades
    /\ Rising(Had(r), nextTrade[r])
    /\ r \notin interrupted => Unbroken(Had(r), nextTrade[r])
    /\ r \notin interrupted /\ loops[r] \in {"none", "checking", "connecting", "pausing"}
       => Had(r) = <<>>
    /\ r \in cancelled => loops[r] = "ended"

TradesInv == R!TypeOK /\ \A r \in TradeStreams : StreamInOrder(r)

\* The lists of a stream are lists of numbers.
LEMMA StreamTypes ==
    ASSUME TradesInv, NEW r \in TradeStreams
    PROVE  /\ inboxes[r] \in Seq(1..MaxTrades) /\ inboxes[r] \in Seq(Nat)
           /\ lastTrade[r] = <<>> \/ \E x \in Nat : lastTrade[r] = <<x>>
           /\ nextTrade[r] \in Nat /\ trades \in Nat /\ Had(r) \in Seq(Nat)
           /\ loops[r] \in R!Stages
<1>1. inboxes[r] \in Seq(1..MaxTrades)
  BY DEF TradesInv, R!TypeOK
<1>2. MaxTrades \in Nat
  BY ServicesAssumption DEF R!ConstantsOK
<1>3. inboxes[r] \in Seq(Nat)
  BY <1>1, <1>2, MoreClosed
<1>4. nextTrade[r] \in Nat /\ trades \in Nat /\ loops[r] \in R!Stages
  BY DEF TradesInv, R!TypeOK
<1>5. lastTrade[r] = <<>> \/ \E x \in Nat : lastTrade[r] = <<x>>
  BY DEF TradesInv, R!TypeOK
<1>6. Had(r) \in Seq(Nat)
  BY <1>3, <1>5, After DEF Had
<1>7. QED
  BY <1>1, <1>3, <1>4, <1>5, <1>6

\* That is what TradesInOrder says.
LEMMA TradesOrdered == TradesInv => R!TradesInOrder
<1> SUFFICES ASSUME TradesInv PROVE R!TradesInOrder
  OBVIOUS
<1>1. \A r \in cancelled : loops[r] = "ended"
  BY DEF TradesInv, StreamInOrder, R!TypeOK
<1>2. ASSUME NEW r \in TradeStreams, NEW i \in 1..(Len(R!Passing(r)) - 1)
      PROVE  /\ R!Passing(r)[i] < R!Passing(r)[i + 1]
             /\ r \notin interrupted => R!Passing(r)[i + 1] = R!Passing(r)[i] + 1
  <2> DEFINE h == Had(r)
             n == nextTrade[r]
  <2>1. n \in Nat
    BY StreamTypes
  <2>2. h \in Seq(Nat)
    BY StreamTypes
  <2>3. Rising(h, n) /\ (r \notin interrupted => Unbroken(h, n))
    BY DEF TradesInv, StreamInOrder
  <2>4. R!Passing(r) = h \/ R!Passing(r) = Append(h, n)
    <3>1. R!Passing(r) = h \o (IF loops[r] = "putting" THEN <<n>> ELSE <<>>)
      BY DEF R!Passing, Had
    <3> HIDE DEF h, n
    <3>2. h \o <<n>> = Append(h, n) /\ h \o <<>> = h
      BY <2>1, <2>2
    <3>3. QED
      BY <3>1, <3>2
  <2> HIDE DEF h, n
  <2>5. CASE R!Passing(r) = h
    BY <2>3, <2>5 DEF Rising, Unbroken
  <2>6. CASE R!Passing(r) = Append(h, n)
    <3> DEFINE k == Append(h, n)
    <3>1. Rising(k, n + 1) /\ (r \notin interrupted => Unbroken(k, n + 1))
      BY <2>1, <2>2, <2>3, Longer
    <3> HIDE DEF k
    <3>2. R!Passing(r) = k
      BY <2>6 DEF k
    <3>3. QED
      BY <3>1, <3>2 DEF Rising, Unbroken
  <2>7. QED
    BY <2>4, <2>5, <2>6
<1>3. QED
  BY <1>1, <1>2 DEF R!TradesInOrder

\* Initially no stream is open.
LEMMA TradesInit == R!ConstantsOK /\ R!Init => TradesInv
<1> SUFFICES ASSUME R!ConstantsOK, R!Init PROVE TradesInv
  OBVIOUS
<1>1. online \in BOOLEAN
  BY Zenon DEF R!Init
<1>2. /\ loops = [r \in TradeStreams |-> "none"] /\ trades = 0
      /\ nextTrade = [r \in TradeStreams |-> 1] /\ inboxes = [r \in TradeStreams |-> <<>>]
      /\ reading = {} /\ lastTrade = [r \in TradeStreams |-> <<>>]
      /\ interrupted = {} /\ cancelled = {} /\ TickQueue \in Nat /\ MaxTrades \in Nat
  BY DEF R!Init, R!ConstantsOK
<1>3. R!TypeOK
  <2>1. inboxes \in [TradeStreams -> Seq(1..MaxTrades)] /\ \A r \in TradeStreams : Len(inboxes[r]) <= TickQueue
    BY <1>2
  <2>2. QED
    BY <1>1, <1>2, <2>1 DEF R!TypeOK, R!Stages
<1>4. ASSUME NEW r \in TradeStreams PROVE StreamInOrder(r)
  <2>1. Had(r) = <<>> /\ nextTrade[r] = 1 /\ loops[r] = "none"
    BY <1>2 DEF Had
  <2>2. QED
    BY <1>2, <2>1 DEF StreamInOrder, Rising, Unbroken
<1>5. QED
  BY <1>3, <1>4 DEF TradesInv

\* A stream the step has nothing to do with.
Untouched(r) ==
    /\ loops'[r] = loops[r] /\ nextTrade'[r] = nextTrade[r]
    /\ inboxes'[r] = inboxes[r] /\ lastTrade'[r] = lastTrade[r]
    /\ r \in interrupted' <=> r \in interrupted
    /\ r \in cancelled' <=> r \in cancelled
    /\ trades' = trades

\* A stream that a step does not touch stays in order.
LEMMA UntouchedStream ==
    ASSUME TradesInv, NEW r \in TradeStreams, Untouched(r)
    PROVE  StreamInOrder(r)'
<1>1. Had(r)' = Had(r)
  BY DEF Had, Untouched
<1>2. StreamInOrder(r)
  BY DEF TradesInv
<1>3. QED
  BY <1>1, <1>2 DEF StreamInOrder, Untouched

\* The task of one stream goes from one stage to another.
LEMMA LoopMoves ==
    ASSUME TradesInv, NEW r \in TradeStreams, NEW to \in R!Stages, R!Enter(r, to),
           UNCHANGED <<trades, nextTrade, inboxes, lastTrade, cancelled>>,
           online' \in BOOLEAN, reading' \subseteq TradeStreams,
           interrupted' = interrupted \/ interrupted' = interrupted \cup {r},
           to = "putting" => nextTrade[r] <= trades,
           to \in {"none", "checking", "connecting", "pausing"}
           => r \in interrupted' \/ loops[r] \in {"none", "checking", "connecting", "pausing"},
           loops[r] # "ended"
    PROVE  TradesInv'
<1>1. loops' = [loops EXCEPT ![r] = to] /\ loops \in [TradeStreams -> R!Stages]
  BY DEF R!Enter, TradesInv, R!TypeOK
<1>2. R!TypeOK'
  <2>1. loops' \in [TradeStreams -> R!Stages] /\ interrupted' \subseteq TradeStreams
    BY <1>1 DEF TradesInv, R!TypeOK
  <2>2. QED
    BY <2>1 DEF TradesInv, R!TypeOK
<1>3. ASSUME NEW q \in TradeStreams PROVE StreamInOrder(q)'
  <2>1. CASE q # r
    <3>1. Untouched(q)
      BY <1>1, <2>1 DEF Untouched
    <3>2. QED
      BY <3>1, UntouchedStream
  <2>2. CASE q = r
    <3>1. StreamInOrder(r) /\ Had(r)' = Had(r) /\ loops'[r] = to /\ nextTrade'[r] = nextTrade[r]
      BY <1>1 DEF TradesInv, Had
    <3>2. r \notin cancelled
      BY <3>1 DEF StreamInOrder
    <3>3. StreamInOrder(r)'
      BY <3>1, <3>2 DEF StreamInOrder
    <3>4. QED
      BY <2>2, <3>3
  <2>3. QED
    BY <2>1, <2>2
<1>4. QED
  BY <1>2, <1>3 DEF TradesInv

\* One stream has had less, as far as one can still see.
LEMMA InboxMoves ==
    ASSUME TradesInv, NEW r \in TradeStreams,
           UNCHANGED <<online, loops, trades, nextTrade, interrupted, cancelled>>,
           reading' \subseteq TradeStreams,
           inboxes' \in [TradeStreams -> Seq(1..MaxTrades)],
           Len(inboxes'[r]) <= Len(inboxes[r]),
           lastTrade' \in [TradeStreams -> {<<>>} \cup {<<n>> : n \in 1..MaxTrades}],
           \A q \in TradeStreams : q # r => inboxes'[q] = inboxes[q] /\ lastTrade'[q] = lastTrade[q],
           Rest(Had(r), Had(r)')
    PROVE  TradesInv'
<1>1. R!TypeOK'
  <2>1. TickQueue \in Nat
    BY ServicesAssumption DEF R!ConstantsOK
  <2>2. \A q \in TradeStreams : Len(inboxes'[q]) \in Nat /\ Len(inboxes[q]) \in Nat /\ Len(inboxes[q]) <= TickQueue
    BY DEF TradesInv, R!TypeOK
  <2>3. \A q \in TradeStreams : Len(inboxes'[q]) <= TickQueue
    BY <2>1, <2>2
  <2>4. QED
    BY <2>3 DEF TradesInv, R!TypeOK
<1>2. ASSUME NEW q \in TradeStreams PROVE StreamInOrder(q)'
  <2>1. CASE q # r
    <3>1. Untouched(q)
      BY <2>1 DEF Untouched
    <3>2. QED
      BY <3>1, UntouchedStream
  <2>2. CASE q = r
    <3> DEFINE k == Had(r)'
               n == nextTrade[r]
    <3>1. Rest(Had(r), k)
      OBVIOUS
    <3>2. n \in Nat /\ Had(r) \in Seq(Nat)
      BY StreamTypes
    <3>3. k \in Seq(Nat)
      <4>1. inboxes'[r] \in Seq(1..MaxTrades)
        OBVIOUS
      <4>2. MaxTrades \in Nat
        BY ServicesAssumption DEF R!ConstantsOK
      <4>3. inboxes'[r] \in Seq(Nat)
        BY <4>1, <4>2, MoreClosed
      <4>4. lastTrade'[r] = <<>> \/ \E x \in Nat : lastTrade'[r] = <<x>>
        <5>1. lastTrade'[r] \in {<<>>} \cup {<<i>> : i \in 1..MaxTrades}
          OBVIOUS
        <5>2. 1..MaxTrades \subseteq Nat
          BY <4>2
        <5>3. QED
          BY <5>1, <5>2
      <4>5. k = lastTrade'[r] \o inboxes'[r]
        BY DEF Had
      <4>6. QED
        BY <4>3, <4>4, <4>5, After
    <3>4. StreamInOrder(r)
      BY DEF TradesInv
    <3> HIDE DEF k
    <3>5. /\ Rising(Had(r), n) => Rising(k, n)
          /\ Unbroken(Had(r), n) => Unbroken(k, n)
          /\ Had(r) = <<>> => k = <<>>
      BY <3>1, <3>2, <3>3, Later
    <3>7. /\ Rising(k, n)
          /\ r \notin interrupted => Unbroken(k, n)
          /\ r \notin interrupted /\ loops[r] \in {"none", "checking", "connecting", "pausing"}
             => k = <<>>
      BY <3>4, <3>5 DEF StreamInOrder
    <3>8. StreamInOrder(r)'
      BY <3>4, <3>7 DEF StreamInOrder, k
    <3>9. QED
      BY <2>2, <3>8
  <2>3. QED
    BY <2>1, <2>2
<1>3. QED
  BY <1>1, <1>2 DEF TradesInv

\* Every step keeps the trades of each stream in order.
LEMMA TradesStep == TradesInv /\ [R!Next]_(R!vars) => TradesInv'
<1> SUFFICES ASSUME TradesInv, [R!Next]_(R!vars) PROVE TradesInv'
  OBVIOUS
<1>1. R!TypeOK /\ MaxTrades \in Nat /\ TickQueue \in Nat
  BY ServicesAssumption DEF TradesInv, R!ConstantsOK
<1>2. CASE R!Trade
  <2>1. /\ trades < MaxTrades /\ trades' = trades + 1
        /\ UNCHANGED <<online, loops, nextTrade, inboxes, reading, lastTrade, interrupted, cancelled>>
    BY <1>2 DEF R!Trade
  <2>2. R!TypeOK'
    BY <1>1, <2>1 DEF R!TypeOK
  <2>3. ASSUME NEW r \in TradeStreams PROVE StreamInOrder(r)'
    <3>1. StreamInOrder(r) /\ Had(r)' = Had(r)
      BY <2>1 DEF TradesInv, Had
    <3>2. nextTrade[r] \in Nat /\ trades \in Nat
      BY StreamTypes
    <3>3. QED
      BY <2>1, <3>1, <3>2 DEF StreamInOrder
  <2>4. QED
    BY <2>2, <2>3 DEF TradesInv
<1>3. CASE R!Connect
  <2>1. /\ online' = TRUE
        /\ UNCHANGED <<loops, trades, nextTrade, inboxes, reading, lastTrade, interrupted, cancelled>>
    BY <1>3 DEF R!Connect
  <2>2. R!TypeOK'
    BY <1>1, <2>1 DEF R!TypeOK
  <2>3. \A r \in TradeStreams : StreamInOrder(r)'
    BY <2>1, UntouchedStream DEF Untouched
  <2>4. QED
    BY <2>2, <2>3 DEF TradesInv
<1>4. CASE R!Disconnect
  <2>1. /\ online' = FALSE
        /\ loops' = [r \in TradeStreams |-> IF loops[r] = "none" THEN "none" ELSE "ended"]
        /\ cancelled' = {r \in TradeStreams : loops[r] # "none"}
        /\ UNCHANGED <<trades, nextTrade, inboxes, reading, lastTrade, interrupted>>
    BY <1>4 DEF R!Disconnect
  <2>2. R!TypeOK'
    BY <1>1, <2>1 DEF R!TypeOK, R!Stages
  <2>3. ASSUME NEW r \in TradeStreams PROVE StreamInOrder(r)'
    <3>1. StreamInOrder(r) /\ Had(r)' = Had(r)
      BY <2>1 DEF TradesInv, Had
    <3>2. \/ loops[r] = "none" /\ loops'[r] = "none" /\ r \notin cancelled'
          \/ loops[r] # "none" /\ loops'[r] = "ended"
      BY <2>1
    <3>3. QED
      BY <2>1, <3>1, <3>2 DEF StreamInOrder
  <2>4. QED
    BY <2>2, <2>3 DEF TradesInv
<1>5. ASSUME NEW r \in TradeStreams, R!OpenStream(r) PROVE TradesInv'
  <2>1. loops[r] = "none" /\ R!Enter(r, "checking") /\ reading' = reading \cup {r}
        /\ UNCHANGED <<online, trades, nextTrade, inboxes, lastTrade, interrupted, cancelled>>
    BY <1>5 DEF R!OpenStream
  <2>2. online' \in BOOLEAN /\ reading' \subseteq TradeStreams /\ "checking" \in R!Stages
    BY <1>1, <2>1 DEF R!TypeOK, R!Stages
  <2>3. QED
    BY <2>1, <2>2, LoopMoves
<1>6. ASSUME NEW r \in TradeStreams, R!CloseStream(r) PROVE TradesInv'
  <2>1. reading' = reading \ {r} /\ lastTrade' = [lastTrade EXCEPT ![r] = <<>>]
        /\ UNCHANGED <<online, loops, trades, nextTrade, inboxes, interrupted, cancelled>>
    BY <1>6 DEF R!CloseStream
  <2>2. /\ lastTrade' \in [TradeStreams -> {<<>>} \cup {<<n>> : n \in 1..MaxTrades}]
        /\ inboxes' \in [TradeStreams -> Seq(1..MaxTrades)] /\ reading' \subseteq TradeStreams
        /\ lastTrade'[r] = <<>> /\ Len(inboxes'[r]) <= Len(inboxes[r])
        /\ \A q \in TradeStreams : q # r => inboxes'[q] = inboxes[q] /\ lastTrade'[q] = lastTrade[q]
    BY <1>1, <2>1 DEF R!TypeOK
  <2>3. Had(r)' = inboxes[r]
    <3>1. inboxes[r] \in Seq(Nat)
      BY StreamTypes
    <3>2. Had(r)' = <<>> \o inboxes[r]
      BY <2>1, <2>2 DEF Had
    <3>3. QED
      BY <3>1, <3>2
  <2>4. Rest(Had(r), Had(r)')
    BY <2>3, StreamTypes, After DEF Had
  <2>5. QED
    BY <2>1, <2>2, <2>4, InboxMoves
<1>7. ASSUME NEW r \in TradeStreams, R!ReadTrade(r) PROVE TradesInv'
  <2>1. inboxes[r] # <<>> /\ lastTrade' = [lastTrade EXCEPT ![r] = <<Head(inboxes[r])>>]
        /\ inboxes' = [inboxes EXCEPT ![r] = Tail(inboxes[r])]
        /\ UNCHANGED <<online, loops, trades, nextTrade, reading, interrupted, cancelled>>
    BY <1>7 DEF R!ReadTrade
  <2>2. inboxes[r] \in Seq(1..MaxTrades)
    BY StreamTypes
  <2> DEFINE box == inboxes[r]
  <2>3. /\ Head(box) \in 1..MaxTrades /\ Tail(box) \in Seq(1..MaxTrades)
        /\ Len(Tail(box)) <= Len(box)
        /\ <<Head(box)>> \o Tail(box) = box
    <3>1. box \in Seq(1..MaxTrades) /\ box # <<>>
      BY <2>1, <2>2
    <3> HIDE DEF box
    <3>2. /\ Head(box) \in 1..MaxTrades /\ Tail(box) \in Seq(1..MaxTrades)
          /\ <<Head(box)>> \o Tail(box) = box
      BY <3>1, FirstOfList, Zenon
    <3>3. Len(box) \in Nat /\ Len(Tail(box)) = Len(box) - 1
      BY <3>1, FirstOfList, Zenon
    <3>4. QED
      BY <3>2, <3>3
  <2>4. /\ lastTrade' \in [TradeStreams -> {<<>>} \cup {<<n>> : n \in 1..MaxTrades}]
        /\ inboxes' \in [TradeStreams -> Seq(1..MaxTrades)] /\ reading' \subseteq TradeStreams
        /\ lastTrade'[r] = <<Head(inboxes[r])>> /\ inboxes'[r] = Tail(inboxes[r])
        /\ \A q \in TradeStreams : q # r => inboxes'[q] = inboxes[q] /\ lastTrade'[q] = lastTrade[q]
    BY <1>1, <2>1, <2>3 DEF R!TypeOK
  <2>5. Had(r)' = inboxes[r]
    BY <2>3, <2>4 DEF Had
  <2>6. Rest(Had(r), Had(r)')
    BY <2>5, StreamTypes, After DEF Had
  <2>7. QED
    BY <2>1, <2>3, <2>4, <2>6, InboxMoves
<1>8. ASSUME NEW r \in TradeStreams, R!CheckConnected(r) PROVE TradesInv'
  <2>1. loops[r] = "checking" /\ R!Enter(r, IF online THEN "connecting" ELSE "ended")
        /\ UNCHANGED <<online, trades, nextTrade, inboxes, reading, lastTrade, interrupted, cancelled>>
    BY <1>8 DEF R!CheckConnected
  <2>2. online' \in BOOLEAN /\ reading' \subseteq TradeStreams
        /\ "connecting" \in R!Stages /\ "ended" \in R!Stages
    BY <1>1, <2>1 DEF R!TypeOK, R!Stages
  <2>3. CASE online
    BY <2>1, <2>2, <2>3, LoopMoves
  <2>4. CASE ~online
    BY <2>1, <2>2, <2>4, LoopMoves
  <2>5. QED
    BY <2>3, <2>4
<1>9. ASSUME NEW r \in TradeStreams, R!Connected(r) PROVE TradesInv'
  <2>1. loops[r] = "connecting" /\ loops' = [loops EXCEPT ![r] = "receiving"]
        /\ nextTrade' = [nextTrade EXCEPT ![r] = trades + 1]
        /\ UNCHANGED <<online, trades, inboxes, reading, lastTrade, interrupted, cancelled>>
    BY <1>9 DEF R!Connected, R!Enter
  <2>2. R!TypeOK'
    BY <1>1, <2>1 DEF R!TypeOK, R!Stages
  <2>3. ASSUME NEW q \in TradeStreams PROVE StreamInOrder(q)'
    <3>1. CASE q # r
      <4>1. Untouched(q)
        BY <1>1, <2>1, <3>1 DEF Untouched, R!TypeOK
      <4>2. QED
        BY <4>1, UntouchedStream
    <3>2. CASE q = r
      <4>1. StreamInOrder(r) /\ Had(r)' = Had(r) /\ loops'[r] = "receiving" /\ nextTrade'[r] = trades + 1
        BY <1>1, <2>1 DEF TradesInv, Had, R!TypeOK
      <4>2. Had(r) \in Seq(Nat) /\ nextTrade[r] \in Nat /\ trades \in Nat
        BY StreamTypes
      <4>3. Had(r) # <<>> => Had(r)[Len(Had(r))] \in Nat
        BY <4>2
      <4>4. Rising(Had(r), trades + 1)
        BY <4>1, <4>2, <4>3 DEF StreamInOrder, Rising
      <4>5. r \notin interrupted => Had(r) = <<>>
        BY <2>1, <4>1 DEF StreamInOrder
      <4>6. r \notin interrupted => Unbroken(Had(r), trades + 1)
        BY <4>5 DEF Unbroken
      <4>7. r \notin cancelled
        BY <2>1, <4>1 DEF StreamInOrder
      <4>8. StreamInOrder(r)'
        BY <2>1, <4>1, <4>2, <4>4, <4>6, <4>7 DEF StreamInOrder
      <4>9. QED
        BY <3>2, <4>8
    <3>3. QED
      BY <3>1, <3>2
  <2>4. QED
    BY <2>2, <2>3 DEF TradesInv
<1>10. ASSUME NEW r \in TradeStreams, R!Receive(r) PROVE TradesInv'
  <2>1. loops[r] = "receiving" /\ nextTrade[r] <= trades /\ R!Enter(r, "putting")
        /\ UNCHANGED <<online, trades, nextTrade, inboxes, reading, lastTrade, interrupted, cancelled>>
    BY <1>10 DEF R!Receive
  <2>2. online' \in BOOLEAN /\ reading' \subseteq TradeStreams /\ "putting" \in R!Stages
    BY <1>1, <2>1 DEF R!TypeOK, R!Stages
  <2>3. QED
    BY <2>1, <2>2, LoopMoves
<1>11. ASSUME NEW r \in TradeStreams, R!Put(r) PROVE TradesInv'
  <2> DEFINE n == nextTrade[r]
             k == Append(inboxes[r], n)
  <2>1. loops[r] = "putting" /\ Len(inboxes[r]) < TickQueue /\ loops' = [loops EXCEPT ![r] = "receiving"]
        /\ inboxes' = [inboxes EXCEPT ![r] = k] /\ nextTrade' = [nextTrade EXCEPT ![r] = n + 1]
        /\ UNCHANGED <<online, trades, reading, lastTrade, interrupted, cancelled>>
    BY <1>11 DEF R!Put, R!Enter
  <2>2. StreamInOrder(r) /\ n <= trades /\ n \in 1..MaxTrades /\ n + 1 \in 1..(MaxTrades + 1)
    BY <1>1, <2>1 DEF TradesInv, StreamInOrder, R!TypeOK
  <2>3. inboxes[r] \in Seq(1..MaxTrades) /\ n \in Nat /\ trades \in Nat /\ Had(r) \in Seq(Nat)
        /\ inboxes[r] \in Seq(Nat) /\ (lastTrade[r] = <<>> \/ \E x \in Nat : lastTrade[r] = <<x>>)
    BY StreamTypes
  <2>4. k \in Seq(1..MaxTrades) /\ Len(k) = Len(inboxes[r]) + 1 /\ Len(inboxes[r]) \in Nat
        /\ lastTrade[r] \o k = Append(lastTrade[r] \o inboxes[r], n)
    <3> DEFINE j == inboxes[r]
               v == lastTrade[r]
    <3>1. j \in Seq(1..MaxTrades) /\ j \in Seq(Nat) /\ (v = <<>> \/ \E x \in Nat : v = <<x>>)
      BY <2>3
    <3>2. n \in 1..MaxTrades /\ n \in Nat
      BY <2>2, <2>3
    <3> HIDE DEF n, j, v
    <3>3. Append(j, n) \in Seq(1..MaxTrades) /\ Len(Append(j, n)) = Len(j) + 1 /\ Len(j) \in Nat
      BY <3>1, <3>2
    <3>4. v = <<>> => v \o Append(j, n) = Append(v \o j, n)
      BY <3>1, <3>2
    <3>5. ASSUME NEW x \in Nat, v = <<x>>
          PROVE  v \o Append(j, n) = Append(v \o j, n)
      BY <3>1, <3>2, <3>5
    <3>6. v \o Append(j, n) = Append(v \o j, n)
      BY <3>1, <3>2, <3>4, <3>5
    <3>7. QED
      BY <3>3, <3>6 DEF k, j, v
  <2> HIDE DEF n, k
  <2>5. R!TypeOK'
    <3>1. /\ loops' \in [TradeStreams -> R!Stages] /\ nextTrade' \in [TradeStreams -> 1..(MaxTrades + 1)]
          /\ inboxes' \in [TradeStreams -> Seq(1..MaxTrades)]
      BY <1>1, <2>1, <2>2, <2>4 DEF R!TypeOK, R!Stages
    <3>2. \A q \in TradeStreams : Len(inboxes'[q]) <= TickQueue
      BY <1>1, <2>1, <2>4 DEF R!TypeOK
    <3>3. QED
      BY <1>1, <2>1, <3>1, <3>2 DEF R!TypeOK
  <2>6. ASSUME NEW q \in TradeStreams PROVE StreamInOrder(q)'
    <3>1. CASE q # r
      <4>1. Untouched(q)
        BY <1>1, <2>1, <3>1 DEF Untouched, R!TypeOK
      <4>2. QED
        BY <4>1, UntouchedStream
    <3>2. CASE q = r
      <4>1. loops'[r] = "receiving" /\ nextTrade'[r] = n + 1 /\ Had(r)' = Append(Had(r), n)
        BY <1>1, <2>1, <2>4 DEF Had, R!TypeOK
      <4>2. /\ Rising(Append(Had(r), n), n + 1)
            /\ r \notin interrupted => Unbroken(Append(Had(r), n), n + 1)
        BY <2>2, <2>3, Longer DEF StreamInOrder, n
      <4>3. r \notin cancelled
        BY <2>1, <2>2 DEF StreamInOrder
      <4>4. n + 1 <= trades + 1
        BY <2>2, <2>3
      <4>5. StreamInOrder(r)'
        BY <2>1, <4>1, <4>2, <4>3, <4>4 DEF StreamInOrder
      <4>6. QED
        BY <3>2, <4>5
    <3>3. QED
      BY <3>1, <3>2
  <2>7. QED
    BY <2>5, <2>6 DEF TradesInv
<1>12. ASSUME NEW r \in TradeStreams, R!PauseOver(r) PROVE TradesInv'
  <2>1. loops[r] = "pausing" /\ R!Enter(r, "checking")
        /\ UNCHANGED <<online, trades, nextTrade, inboxes, reading, lastTrade, interrupted, cancelled>>
    BY <1>12 DEF R!PauseOver
  <2>2. online' \in BOOLEAN /\ reading' \subseteq TradeStreams /\ "checking" \in R!Stages
    BY <1>1, <2>1 DEF R!TypeOK, R!Stages
  <2>3. QED
    BY <2>1, <2>2, LoopMoves
<1>13. ASSUME NEW r \in TradeStreams, NEW pauses \in BOOLEAN, R!Lost(r, pauses) PROVE TradesInv'
  <2>1. loops[r] \in {"connecting", "receiving"} /\ R!Enter(r, IF pauses THEN "pausing" ELSE "checking")
        /\ interrupted' = interrupted \cup {r}
        /\ UNCHANGED <<online, trades, nextTrade, inboxes, reading, lastTrade, cancelled>>
    BY <1>13 DEF R!Lost
  <2>2. online' \in BOOLEAN /\ reading' \subseteq TradeStreams /\ r \in interrupted'
        /\ "pausing" \in R!Stages /\ "checking" \in R!Stages
    BY <1>1, <2>1 DEF R!TypeOK, R!Stages
  <2>3. CASE pauses
    BY <2>1, <2>2, <2>3, LoopMoves
  <2>4. CASE ~pauses
    BY <2>1, <2>2, <2>4, LoopMoves
  <2>5. QED
    BY <2>3, <2>4
<1>14. CASE UNCHANGED R!vars
  <2>1. R!TypeOK'
    BY <1>1, <1>14 DEF R!vars, R!TypeOK
  <2>2. \A r \in TradeStreams : StreamInOrder(r)'
    BY <1>14, UntouchedStream DEF Untouched, R!vars
  <2>3. QED
    BY <2>1, <2>2 DEF TradesInv
<1>15. QED
  BY <1>2, <1>3, <1>4, <1>5, <1>6, <1>7, <1>8, <1>9, <1>10, <1>11, <1>12, <1>13, <1>14 DEF R!Next

-----------------------------------------------------------------------------
(* Strategies.                                                               *)

\* A strategy is listed once, and under each of its symbols.
ListedOnce ==
    /\ index \in [StrategySymbols -> Seq(StrategyIds)]
    /\ \A s \in StrategySymbols : Once(index[s])
    /\ \A i \in DOMAIN strategies : \A s \in strategies[i].symbols : i \in Elements(index[s])

Recorded ==
    /\ DOMAIN strategies \subseteq StrategyIds
    /\ strategies \in [DOMAIN strategies -> S!StrategyRecords]

SignalsTyped ==
    /\ raw \in Seq(S!SignalRecords) /\ approved \in Seq(S!SignalRecords)
    /\ told \in [StrategyIds \X StrategySymbols -> S!Directions]
    /\ lost \subseteq StrategyIds \X StrategySymbols
    /\ bars \in 0..MaxDispatched /\ changes \in 0..MaxChanges

\* The signals on their way to the bus.
Pending == Elements(raw) \cup Elements(approved)

\* Unless its last signal has been lost, a strategy is where its pending signal
\* says, or where it was told to be if there is none.
Tracked(i, s) ==
    <<i, s>> \notin lost =>
        /\ \A sig \in Pending :
              sig.id = i /\ sig.symbol = s => sig.direction = strategies[i].tracker[s]
        /\ (\A sig \in Pending : sig.id # i \/ sig.symbol # s)
           => told[<<i, s>>] = strategies[i].tracker[s]

AllTracked == \A i \in DOMAIN strategies : \A s \in StrategySymbols : Tracked(i, s)

StrategyInv == ListedOnce /\ Recorded /\ SignalsTyped /\ AllTracked

\* It implies the two invariants that the runs check.
LEMMA StrategyTyped == StrategyInv => S!TypeOK /\ S!ToldIsTracked
<1> SUFFICES ASSUME StrategyInv PROVE S!TypeOK /\ S!ToldIsTracked
  OBVIOUS
<1>1. ASSUME NEW i \in DOMAIN strategies, NEW s \in strategies[i].symbols
      PROVE  \E k \in DOMAIN index[s] : {j \in DOMAIN index[s] : index[s][j] = i} = {k}
  <2>1. s \in StrategySymbols
    <3>1. strategies[i] \in S!StrategyRecords
      BY DEF StrategyInv, Recorded
    <3>2. strategies[i].symbols \in SUBSET StrategySymbols
      BY <3>1 DEF S!StrategyRecords, S!NonEmpty
    <3>3. QED
      BY <3>2
  <2> DEFINE q == index[s]
  <2>2. q \in Seq(StrategyIds) /\ Once(q) /\ i \in Elements(q)
    BY <2>1 DEF StrategyInv, ListedOnce
  <2> HIDE DEF q
  <2>3. DOMAIN q = 1..Len(q)
    BY <2>2
  <2>4. PICK k \in 1..Len(q) : q[k] = i
    BY <2>2 DEF Elements
  <2>5. {j \in DOMAIN q : q[j] = i} = {k}
    BY <2>2, <2>3, <2>4 DEF Once
  <2>6. QED
    BY <2>3, <2>5 DEF q
<1>2. S!TypeOK
  <2>1. \A i \in DOMAIN strategies : strategies[i] \in S!StrategyRecords
    BY DEF StrategyInv, Recorded
  <2>2. QED
    BY <1>1, <2>1 DEF StrategyInv, Recorded, ListedOnce, SignalsTyped, S!TypeOK
<1>3. ASSUME NEW i \in DOMAIN strategies, NEW s \in StrategySymbols, <<i, s>> \notin lost, ~S!UnderWay(i, s)
      PROVE  told[<<i, s>>] = strategies[i].tracker[s]
  <2>1. Tracked(i, s)
    BY DEF StrategyInv, AllTracked
  <2>2. \A sig \in Pending : sig.id # i \/ sig.symbol # s
    <3>1. raw \in Seq(S!SignalRecords) /\ approved \in Seq(S!SignalRecords)
      BY DEF StrategyInv, SignalsTyped
    <3> DEFINE q == raw \o approved
    <3>2. /\ DOMAIN q = 1..(Len(raw) + Len(approved)) /\ Len(raw) \in Nat /\ Len(approved) \in Nat
          /\ \A k \in 1..Len(raw) : q[k] = raw[k]
          /\ \A k \in 1..Len(approved) : q[Len(raw) + k] = approved[k]
      BY <3>1
    <3>3. \A k \in DOMAIN q : ~(q[k].id = i /\ q[k].symbol = s)
      BY <1>3 DEF S!UnderWay
    <3> HIDE DEF q
    <3>4. \A k \in 1..Len(raw) : k \in DOMAIN q
      BY <3>2
    <3>5. \A k \in 1..Len(approved) : Len(raw) + k \in DOMAIN q
      BY <3>2
    <3>6. \A k \in 1..Len(raw) : raw[k].id # i \/ raw[k].symbol # s
      BY <3>2, <3>3, <3>4
    <3>7. \A k \in 1..Len(approved) : approved[k].id # i \/ approved[k].symbol # s
      BY <3>2, <3>3, <3>5
    <3>8. QED
      BY <3>6, <3>7 DEF Pending, Elements
  <2>3. QED
    BY <1>3, <2>1, <2>2 DEF Tracked
<1>4. S!ToldIsTracked
  BY <1>3 DEF S!ToldIsTracked
<1>5. QED
  BY <1>2, <1>4

\* Initially no strategy is registered.
LEMMA StrategyInit == S!ConstantsOK /\ S!Init => StrategyInv
<1> SUFFICES ASSUME S!ConstantsOK, S!Init PROVE StrategyInv
  OBVIOUS
<1>1. /\ DOMAIN strategies = {} /\ index = [s \in StrategySymbols |-> <<>>]
      /\ raw = <<>> /\ approved = <<>> /\ bars = 0 /\ changes = 0 /\ lost = {}
  BY DEF S!Init
<1>2. told \in [StrategyIds \X StrategySymbols -> S!Directions]
  BY DEF S!Init, S!Directions
<1>3. ListedOnce
  BY <1>1 DEF ListedOnce, Once
<1>4. Recorded
  <2>1. strategies = [i \in {} |-> <<>>]
    BY DEF S!Init
  <2>2. QED
    BY <1>1, <2>1 DEF Recorded
<1>5. SignalsTyped
  BY <1>1, <1>2 DEF SignalsTyped, S!ConstantsOK
<1>6. AllTracked
  BY <1>1 DEF AllTracked
<1>7. QED
  BY <1>3, <1>4, <1>5, <1>6 DEF StrategyInv

\* A new instance is one.
LEMMA NewIsRecord ==
    ASSUME S!ConstantsOK, NEW symbols \in S!NonEmpty(StrategySymbols),
           NEW timeframes \in S!NonEmpty(Timeframes)
    PROVE  /\ S!NewStrategy(symbols, timeframes) \in S!StrategyRecords
           /\ S!NewStrategy(symbols, timeframes).symbols = symbols
<1> DEFINE tracker == [s \in StrategySymbols |-> "FLAT"]
           history == [k \in StrategySymbols \X Timeframes |-> 0]
<1>1. tracker \in [StrategySymbols -> S!Directions]
  BY DEF S!Directions
<1>2. history \in [StrategySymbols \X Timeframes -> 0..HistoryLength]
  BY DEF S!ConstantsOK
<1>3. S!NewStrategy(symbols, timeframes) =
        [symbols |-> symbols, timeframes |-> timeframes, isActive |-> TRUE,
         tracker |-> tracker, history |-> history]
  BY DEF S!NewStrategy
<1> HIDE DEF tracker, history
<1>4. QED
  BY <1>1, <1>2, <1>3 DEF S!StrategyRecords

\* A record with an entry of two of its tables replaced.
LEMMA TwoEntries ==
    ASSUME NEW A, NEW D, NEW E, NEW F, NEW G, NEW H, NEW K,
           NEW st \in [symbols : A, timeframes : D, isActive : E, tracker : [F -> G], history : [H -> K]],
           NEW x \in H, NEW n \in K, NEW s \in F, NEW to \in G
    PROVE  LET next == [st EXCEPT !.history[x] = n, !.tracker[s] = to]
           IN  /\ next \in [symbols : A, timeframes : D, isActive : E, tracker : [F -> G], history : [H -> K]]
               /\ next.symbols = st.symbols
               /\ next.tracker = [st.tracker EXCEPT ![s] = to]
  OBVIOUS

\* A bar moves the tracker of a strategy that speaks, and no other.
LEMMA AfterBarIs ==
    ASSUME S!ConstantsOK, NEW st \in S!StrategyRecords, NEW s \in StrategySymbols,
           NEW tf \in Timeframes, NEW verdict
    PROVE  /\ S!AfterBar(st, s, tf, verdict) \in S!StrategyRecords
           /\ S!AfterBar(st, s, tf, verdict).symbols = st.symbols
           /\ S!AfterBar(st, s, tf, verdict).tracker =
                IF S!Speaks(st, s, tf, verdict) THEN [st.tracker EXCEPT ![s] = verdict] ELSE st.tracker
<1> DEFINE n == S!HistoryAfter(st, s, tf)
           to == IF S!Speaks(st, s, tf, verdict) THEN verdict ELSE st.tracker[s]
           next == [st EXCEPT !.history[<<s, tf>>] = n, !.tracker[s] = to]
<1>1. /\ st.symbols \in S!NonEmpty(StrategySymbols) /\ st.timeframes \in S!NonEmpty(Timeframes)
      /\ st.isActive \in BOOLEAN /\ st.tracker \in [StrategySymbols -> S!Directions]
      /\ st.history \in [StrategySymbols \X Timeframes -> 0..HistoryLength]
  BY DEF S!StrategyRecords
<1>2. n \in 0..HistoryLength
  <2>1. st.history[<<s, tf>>] \in 0..HistoryLength /\ HistoryLength \in Nat
    BY <1>1 DEF S!ConstantsOK
  <2> DEFINE k == st.history[<<s, tf>>] + 1
  <2>2. k \in Nat /\ HistoryLength \in Nat
    BY <2>1
  <2> HIDE DEF k
  <2>3. S!Min({k, HistoryLength}) \in {k, HistoryLength} /\ S!Min({k, HistoryLength}) <= HistoryLength
    BY <2>2 DEF S!Min
  <2>4. n = S!Min({k, HistoryLength})
    BY DEF S!HistoryAfter, k
  <2>5. QED
    BY <2>2, <2>3, <2>4
<1>3. S!Speaks(st, s, tf, verdict) => verdict \in S!Directions /\ S!Handles(st, s, tf)
  BY DEF S!Speaks
<1>4. to \in S!Directions
  BY <1>1, <1>3
<1>5. S!AfterBar(st, s, tf, verdict) = IF S!Handles(st, s, tf) THEN next ELSE st
  BY DEF S!AfterBar
<1> HIDE DEF n, to
<1>6. /\ next \in S!StrategyRecords /\ next.symbols = st.symbols
      /\ next.tracker = [st.tracker EXCEPT ![s] = to]
  <2>1. <<s, tf>> \in StrategySymbols \X Timeframes
    OBVIOUS
  <2> DEFINE x == <<s, tf>>
             Keys == StrategySymbols \X Timeframes
  <2>2. x \in Keys
    BY <2>1
  <2> HIDE DEF x, Keys
  <2>3. st \in [symbols : S!NonEmpty(StrategySymbols), timeframes : S!NonEmpty(Timeframes),
                isActive : BOOLEAN, tracker : [StrategySymbols -> S!Directions],
                history : [Keys -> 0..HistoryLength]]
    BY DEF S!StrategyRecords, Keys
  <2> DEFINE moved == [st EXCEPT !.history[x] = n, !.tracker[s] = to]
  <2>4. /\ moved \in [symbols : S!NonEmpty(StrategySymbols), timeframes : S!NonEmpty(Timeframes),
                      isActive : BOOLEAN, tracker : [StrategySymbols -> S!Directions],
                      history : [Keys -> 0..HistoryLength]]
        /\ moved.symbols = st.symbols /\ moved.tracker = [st.tracker EXCEPT ![s] = to]
    BY ONLY <1>2, <1>4, <2>2, <2>3, s \in StrategySymbols, TwoEntries
  <2>5. moved = next
    BY DEF x
  <2> HIDE DEF moved
  <2>6. QED
    BY <2>4, <2>5 DEF S!StrategyRecords, Keys
<1> HIDE DEF next
<1>7. ~S!Speaks(st, s, tf, verdict) => next.tracker = st.tracker
  BY <1>1, <1>6 DEF to
<1>8. S!Speaks(st, s, tf, verdict) => next.tracker = [st.tracker EXCEPT ![s] = verdict]
  BY <1>6 DEF to
<1>9. QED
  BY <1>3, <1>5, <1>6, <1>7, <1>8

\* A list with one more element at its end.
LEMMA Appended ==
    ASSUME NEW Val, NEW q \in Seq(Val), NEW x \in Val
    PROVE  /\ Append(q, x) \in Seq(Val) /\ Len(Append(q, x)) = Len(q) + 1 /\ Len(q) \in Nat
           /\ \A i \in 1..Len(q) : Append(q, x)[i] = q[i]
           /\ Append(q, x)[Len(q) + 1] = x /\ Append(q, x) # <<>>
  OBVIOUS

\* A new element goes to the end of a list in which each is once.
LEMMA OneMore ==
    ASSUME NEW Val, NEW q \in Seq(Val), NEW x \in Val
    PROVE  /\ Append(q, x) \in Seq(Val)
           /\ Elements(Append(q, x)) = Elements(q) \cup {x}
           /\ Once(q) /\ x \notin Elements(q) => Once(Append(q, x))
<1> DEFINE k == Append(q, x)
<1>1. /\ k \in Seq(Val) /\ Len(k) = Len(q) + 1 /\ Len(q) \in Nat
      /\ (\A i \in 1..Len(q) : k[i] = q[i]) /\ k[Len(q) + 1] = x
  BY Appended
<1> HIDE DEF k
<1>2. \A i \in 1..Len(k) : i \in 1..Len(q) \/ i = Len(q) + 1
  BY <1>1
<1>3. \A i \in 1..Len(q) : i \in 1..Len(k) /\ k[i] = q[i]
  BY <1>1
<1>4. Len(q) + 1 \in 1..Len(k)
  BY <1>1
<1>5. Elements(k) = Elements(q) \cup {x}
  BY <1>1, <1>2, <1>3, <1>4 DEF Elements
<1>6. ASSUME Once(q), x \notin Elements(q) PROVE Once(k)
  <2>1. \A i \in 1..Len(q) : q[i] # x
    BY <1>6 DEF Elements
  <2>2. QED
    BY <1>1, <1>2, <1>3, <1>6, <2>1 DEF Once
<1>7. QED
  BY <1>1, <1>5, <1>6 DEF k

\* Nothing that matters to where the strategy is has happened.
LEMMA TrackedStays ==
    ASSUME NEW i, NEW s, Tracked(i, s), Pending' = Pending,
           told'[<<i, s>>] = told[<<i, s>>], lost \subseteq lost',
           strategies'[i].tracker[s] = strategies[i].tracker[s]
    PROVE  Tracked(i, s)'
  BY DEF Tracked

\* register_strategy.
LEMMA RegisterKeeps ==
    ASSUME S!ConstantsOK, StrategyInv, NEW i \in StrategyIds,
           NEW symbols \in S!NonEmpty(StrategySymbols), NEW timeframes \in S!NonEmpty(Timeframes),
           S!Register(i, symbols, timeframes)
    PROVE  StrategyInv'
<1> DEFINE new == S!NewStrategy(symbols, timeframes)
<1>1. /\ strategies' = [j \in DOMAIN strategies \cup {i} |-> IF j = i THEN new ELSE strategies[j]]
      /\ index' = S!IndexAfter(i, symbols) /\ changes < MaxChanges /\ changes' = changes + 1
      /\ lost' = lost \cup S!Signals(i)
      /\ raw' = raw /\ approved' = approved /\ bars' = bars /\ told' = told
  BY DEF S!Register
<1>2. new \in S!StrategyRecords /\ new.symbols = symbols
  BY NewIsRecord
<1> HIDE DEF new
<1>3. ListedOnce /\ Recorded /\ SignalsTyped /\ AllTracked
  BY DEF StrategyInv
<1>4. /\ DOMAIN strategies' = DOMAIN strategies \cup {i} /\ strategies'[i] = new
      /\ \A j \in DOMAIN strategies : j # i => strategies'[j] = strategies[j]
  BY <1>1
<1>5. Recorded'
  <2>1. \A j \in DOMAIN strategies : strategies[j] \in S!StrategyRecords
    BY <1>3 DEF Recorded
  <2>2. \A j \in DOMAIN strategies' : strategies'[j] \in S!StrategyRecords
    BY <1>2, <1>4, <2>1
  <2>3. strategies' \in [DOMAIN strategies' -> S!StrategyRecords]
    BY <1>1, <1>4, <2>2
  <2>4. QED
    BY <1>3, <1>4, <2>3 DEF Recorded
<1>6. ASSUME NEW s \in StrategySymbols
      PROVE  /\ index'[s] \in Seq(StrategyIds) /\ Once(index'[s])
             /\ Elements(index'[s]) = IF s \in symbols THEN Elements(index[s]) \cup {i} ELSE Elements(index[s])
  <2> DEFINE q == index[s]
  <2>1. q \in Seq(StrategyIds) /\ Once(q)
    BY <1>3 DEF ListedOnce
  <2>2. S!Listed(s) = Elements(q)
    BY <2>1 DEF S!Listed, Elements
  <2>3. index'[s] = IF s \in symbols /\ i \notin Elements(q) THEN Append(q, i) ELSE q
    BY <1>1, <2>2 DEF S!IndexAfter
  <2> HIDE DEF q
  <2>4. /\ Append(q, i) \in Seq(StrategyIds) /\ Elements(Append(q, i)) = Elements(q) \cup {i}
        /\ i \notin Elements(q) => Once(Append(q, i))
    BY <2>1, OneMore
  <2> DEFINE k == Append(q, i)
  <2> HIDE DEF k
  <2>5. /\ index'[s] \in Seq(StrategyIds) /\ Once(index'[s])
        /\ Elements(index'[s]) = IF s \in symbols THEN Elements(q) \cup {i} ELSE Elements(q)
    BY <2>1, <2>3, <2>4 DEF k
  <2>6. QED
    BY <2>5 DEF q
<1>7. ListedOnce'
  <2>1. index' \in [StrategySymbols -> Seq(StrategyIds)]
    <3>1. index' = [s \in StrategySymbols |-> index'[s]]
      BY <1>1 DEF S!IndexAfter
    <3>2. QED
      BY <1>6, <3>1
  <2>2. ASSUME NEW j \in DOMAIN strategies', NEW s \in strategies'[j].symbols
        PROVE  j \in Elements(index'[s])
    <3>1. CASE j = i
      <4>1. s \in symbols /\ s \in StrategySymbols
        BY <1>2, <1>4, <2>2, <3>1 DEF S!NonEmpty
      <4>2. QED
        BY <1>6, <3>1, <4>1
    <3>2. CASE j # i
      <4>1. j \in DOMAIN strategies /\ s \in strategies[j].symbols /\ strategies[j] \in S!StrategyRecords
        BY <1>3, <1>4, <2>2, <3>2 DEF Recorded
      <4>2. s \in StrategySymbols /\ j \in Elements(index[s])
        BY <1>3, <4>1 DEF ListedOnce, S!StrategyRecords, S!NonEmpty
      <4>3. QED
        BY <1>6, <4>2
    <3>3. QED
      BY <3>1, <3>2
  <2>3. QED
    BY <1>6, <2>1, <2>2 DEF ListedOnce
<1>8. SignalsTyped'
  <2>1. lost' \subseteq StrategyIds \X StrategySymbols
    BY <1>1, <1>3 DEF SignalsTyped, S!Signals
  <2>2. changes' \in 0..MaxChanges
    BY <1>1, <1>3 DEF SignalsTyped, S!ConstantsOK
  <2>3. QED
    BY <1>1, <1>3, <2>1, <2>2 DEF SignalsTyped
<1>9. ASSUME NEW j \in DOMAIN strategies', NEW s \in StrategySymbols PROVE Tracked(j, s)'
  <2>1. CASE j = i
    <3>1. <<j, s>> \in lost'
      BY <1>1, <2>1 DEF S!Signals
    <3>2. QED
      BY <3>1 DEF Tracked
  <2>2. CASE j # i
    <3>1. j \in DOMAIN strategies /\ strategies'[j] = strategies[j] /\ Tracked(j, s)
      BY <1>3, <1>4, <2>2 DEF AllTracked
    <3>2. Pending' = Pending
      BY <1>1 DEF Pending
    <3>3. QED
      BY <1>1, <3>1, <3>2, TrackedStays
  <2>3. QED
    BY <2>1, <2>2
<1>10. QED
  BY <1>5, <1>7, <1>8, <1>9 DEF StrategyInv, AllTracked

\* deregister_strategy.
LEMMA DeregisterKeeps ==
    ASSUME S!ConstantsOK, StrategyInv, NEW i \in StrategyIds, S!Deregister(i)
    PROVE  StrategyInv'
<1>1. /\ strategies' = [j \in DOMAIN strategies \ {i} |-> strategies[j]]
      /\ index' = [s \in StrategySymbols |->
                      IF s \in strategies[i].symbols THEN Kept(index[s], StrategyIds \ {i}) ELSE index[s]]
      /\ changes < MaxChanges /\ changes' = changes + 1 /\ lost' = lost \cup S!Signals(i)
      /\ raw' = raw /\ approved' = approved /\ bars' = bars /\ told' = told
  <2>1. S!Restrict(strategies, DOMAIN strategies \ {i}) = [j \in DOMAIN strategies \ {i} |-> strategies[j]]
    BY DEF S!Restrict
  <2>2. \A s \in StrategySymbols :
           S!Kept(index[s], StrategyIds \ {i}) = Kept(index[s], StrategyIds \ {i})
    BY DEF S!Kept, Kept
  <2>3. index' = [s \in StrategySymbols |->
                      IF s \in strategies[i].symbols THEN S!Kept(index[s], StrategyIds \ {i}) ELSE index[s]]
    BY DEF S!Deregister
  <2>4. QED
    BY <2>1, <2>2, <2>3 DEF S!Deregister
<1>2. ListedOnce /\ Recorded /\ SignalsTyped /\ AllTracked
  BY DEF StrategyInv
<1>3. /\ DOMAIN strategies' = DOMAIN strategies \ {i}
      /\ \A j \in DOMAIN strategies' : strategies'[j] = strategies[j]
  BY <1>1
<1>4. Recorded'
  BY <1>1, <1>2, <1>3 DEF Recorded
<1>5. ASSUME NEW s \in StrategySymbols
      PROVE  /\ index'[s] \in Seq(StrategyIds) /\ Once(index'[s])
             /\ \A j \in Elements(index[s]) : j # i => j \in Elements(index'[s])
  <2> DEFINE q == index[s]
             k == Kept(q, StrategyIds \ {i})
  <2>1. q \in Seq(StrategyIds) /\ Once(q)
    BY <1>2 DEF ListedOnce
  <2>2. index'[s] = k \/ index'[s] = q
    BY <1>1
  <2>3. Elements(q) \subseteq StrategyIds
    BY <2>1 DEF Elements
  <2> HIDE DEF q
  <2>4. k \in Seq(StrategyIds) /\ Once(k) /\ Elements(k) = Elements(q) \cap (StrategyIds \ {i})
    BY <2>1, KeptSet
  <2> HIDE DEF k
  <2>5. /\ index'[s] \in Seq(StrategyIds) /\ Once(index'[s])
        /\ \A j \in Elements(q) : j # i => j \in Elements(index'[s])
    BY <2>1, <2>2, <2>3, <2>4
  <2>6. QED
    BY <2>5 DEF q
<1>6. ListedOnce'
  <2>1. index' \in [StrategySymbols -> Seq(StrategyIds)]
    <3>1. index' = [s \in StrategySymbols |-> index'[s]]
      BY <1>1
    <3>2. QED
      BY <1>5, <3>1
  <2>2. ASSUME NEW j \in DOMAIN strategies', NEW s \in strategies'[j].symbols
        PROVE  j \in Elements(index'[s])
    <3>1. j # i /\ j \in DOMAIN strategies /\ s \in strategies[j].symbols
          /\ strategies[j] \in S!StrategyRecords
      BY <1>2, <1>3, <2>2 DEF Recorded
    <3>2. s \in StrategySymbols /\ j \in Elements(index[s])
      BY <1>2, <3>1 DEF ListedOnce, S!StrategyRecords, S!NonEmpty
    <3>3. QED
      BY <1>5, <3>1, <3>2
  <2>3. QED
    BY <1>5, <2>1, <2>2 DEF ListedOnce
<1>7. SignalsTyped'
  <2>1. lost' \subseteq StrategyIds \X StrategySymbols
    BY <1>1, <1>2 DEF SignalsTyped, S!Signals
  <2>2. changes' \in 0..MaxChanges
    BY <1>1, <1>2 DEF SignalsTyped, S!ConstantsOK
  <2>3. QED
    BY <1>1, <1>2, <2>1, <2>2 DEF SignalsTyped
<1>8. ASSUME NEW j \in DOMAIN strategies', NEW s \in StrategySymbols PROVE Tracked(j, s)'
  <2>1. j \in DOMAIN strategies /\ strategies'[j] = strategies[j] /\ Tracked(j, s)
    BY <1>2, <1>3 DEF AllTracked
  <2>2. Pending' = Pending
    BY <1>1 DEF Pending
  <2>3. QED
    BY <1>1, <2>1, <2>2, TrackedStays
<1>9. QED
  BY <1>4, <1>6, <1>7, <1>8 DEF StrategyInv, AllTracked

\* The strategies change, with neither their symbols nor the signals.
LEMMA StrategiesChange ==
    ASSUME S!ConstantsOK, StrategyInv, changes < MaxChanges, changes' = changes + 1,
           strategies' \in [DOMAIN strategies -> S!StrategyRecords],
           \A i \in DOMAIN strategies : strategies'[i].symbols = strategies[i].symbols,
           UNCHANGED <<index, raw, approved, bars, told>>,
           lost \subseteq lost', lost' \subseteq StrategyIds \X StrategySymbols,
           \A i \in DOMAIN strategies : \A s \in StrategySymbols :
              <<i, s>> \in lost' \/ strategies'[i].tracker[s] = strategies[i].tracker[s]
    PROVE  StrategyInv'
<1>1. ListedOnce /\ Recorded /\ SignalsTyped /\ AllTracked
  BY DEF StrategyInv
<1>2. DOMAIN strategies' = DOMAIN strategies
  OBVIOUS
<1>3. Recorded'
  BY <1>1, <1>2 DEF Recorded
<1>4. ListedOnce'
  BY <1>1, <1>2 DEF ListedOnce
<1>5. SignalsTyped'
  BY <1>1 DEF SignalsTyped, S!ConstantsOK
<1>6. ASSUME NEW i \in DOMAIN strategies, NEW s \in StrategySymbols PROVE Tracked(i, s)'
  <2>1. Tracked(i, s) /\ Pending' = Pending /\ told'[<<i, s>>] = told[<<i, s>>]
    BY <1>1 DEF AllTracked, Pending
  <2>2. CASE <<i, s>> \in lost'
    BY <2>2 DEF Tracked
  <2>3. CASE strategies'[i].tracker[s] = strategies[i].tracker[s]
    BY <2>1, <2>3, TrackedStays
  <2>4. QED
    BY <2>2, <2>3
<1>7. QED
  BY <1>2, <1>3, <1>4, <1>5, <1>6 DEF StrategyInv, AllTracked

\* pause and resume leave the tracker and the lists alone.
LEMMA SwitchKeeps ==
    ASSUME S!ConstantsOK, StrategyInv, NEW i \in StrategyIds, NEW on \in BOOLEAN, S!Switch(i, on)
    PROVE  StrategyInv'
<1> DEFINE new == [strategies[i] EXCEPT !.isActive = on]
<1>1. /\ i \in DOMAIN strategies /\ strategies' = [strategies EXCEPT ![i] = new]
      /\ changes < MaxChanges /\ changes' = changes + 1
      /\ UNCHANGED <<index, raw, approved, bars, told, lost>>
  BY DEF S!Switch
<1>2. strategies \in [DOMAIN strategies -> S!StrategyRecords] /\ lost \subseteq StrategyIds \X StrategySymbols
  BY DEF StrategyInv, Recorded, SignalsTyped
<1>3. /\ new \in S!StrategyRecords /\ new.symbols = strategies[i].symbols
      /\ new.tracker = strategies[i].tracker
  <2> DEFINE st == strategies[i]
  <2>1. st \in S!StrategyRecords
    BY <1>1, <1>2
  <2> HIDE DEF st
  <2> DEFINE moved == [st EXCEPT !.isActive = on]
  <2>2. moved \in S!StrategyRecords
    BY <2>1 DEF S!StrategyRecords
  <2>3. moved.symbols = st.symbols /\ moved.tracker = st.tracker
    BY <2>1 DEF S!StrategyRecords
  <2>4. moved = new
    BY DEF st
  <2> HIDE DEF moved
  <2>5. QED
    BY <2>2, <2>3, <2>4 DEF st
<1> HIDE DEF new
<1>4. strategies' \in [DOMAIN strategies -> S!StrategyRecords]
  BY <1>1, <1>2, <1>3
<1>5. \A j \in DOMAIN strategies : /\ strategies'[j].symbols = strategies[j].symbols
                                   /\ strategies'[j].tracker = strategies[j].tracker
  BY <1>1, <1>2, <1>3
<1>6. QED
  BY <1>1, <1>2, <1>4, <1>5, StrategiesChange

\* reset_all sets every tracker back, which loses what was told.
LEMMA ResetKeeps ==
    ASSUME S!ConstantsOK, StrategyInv, S!ResetAll
    PROVE  StrategyInv'
<1>1. /\ strategies' = [i \in DOMAIN strategies |-> S!AfterReset(strategies[i])]
      /\ changes < MaxChanges /\ changes' = changes + 1
      /\ lost' = lost \cup ((DOMAIN strategies) \X StrategySymbols)
      /\ UNCHANGED <<index, raw, approved, bars, told>>
  BY DEF S!ResetAll
<1>2. /\ strategies \in [DOMAIN strategies -> S!StrategyRecords] /\ DOMAIN strategies \subseteq StrategyIds
      /\ lost \subseteq StrategyIds \X StrategySymbols
  BY DEF StrategyInv, Recorded, SignalsTyped
<1>3. ASSUME NEW st \in S!StrategyRecords
      PROVE  S!AfterReset(st) \in S!StrategyRecords /\ S!AfterReset(st).symbols = st.symbols
  <2>1. /\ st.symbols \in S!NonEmpty(StrategySymbols) /\ st.timeframes \in S!NonEmpty(Timeframes)
        /\ st.isActive \in BOOLEAN
    BY DEF S!StrategyRecords
  <2> DEFINE new == S!NewStrategy(st.symbols, st.timeframes)
             moved == [new EXCEPT !.isActive = st.isActive]
  <2>2. new \in S!StrategyRecords /\ new.symbols = st.symbols
    BY <2>1, NewIsRecord
  <2> HIDE DEF new
  <2>3. moved \in S!StrategyRecords
    BY <2>1, <2>2 DEF S!StrategyRecords
  <2>4. moved.symbols = new.symbols
    BY <2>2 DEF S!StrategyRecords
  <2>5. moved = S!AfterReset(st)
    BY DEF S!AfterReset, new
  <2> HIDE DEF moved
  <2>6. QED
    BY <2>2, <2>3, <2>4, <2>5
<1>4. \A i \in DOMAIN strategies : /\ strategies'[i] \in S!StrategyRecords
                                   /\ strategies'[i].symbols = strategies[i].symbols
  BY <1>1, <1>2, <1>3
<1>5. strategies' \in [DOMAIN strategies -> S!StrategyRecords]
  BY <1>1, <1>4
<1>6. lost' \subseteq StrategyIds \X StrategySymbols
  BY <1>1, <1>2
<1>7. QED
  BY <1>1, <1>4, <1>5, <1>6, StrategiesChange

\* on_bar up to the gate.
LEMMA BarKeeps ==
    ASSUME S!ConstantsOK, StrategyInv, NEW s \in StrategySymbols, NEW tf \in Timeframes,
           NEW raising \in SUBSET StrategyIds,
           NEW verdict \in [StrategyIds -> S!Directions \cup {"none"}],
           S!Bar(s, tf, verdict, raising)
    PROVE  StrategyInv'
<1> DEFINE reached == {i \in S!Listed(s) : i \in DOMAIN strategies}
           speaking == {i \in reached : S!Speaks(strategies[i], s, tf, verdict[i])}
           order == Kept(index[s], speaking)
           fails == raising \cap speaking # {}
<1>1. ListedOnce /\ Recorded /\ SignalsTyped /\ AllTracked
  BY DEF StrategyInv
<1>2. /\ raw = <<>> /\ approved = <<>> /\ bars < MaxDispatched /\ bars' = bars + 1
      /\ strategies' = [i \in DOMAIN strategies |->
                           IF i \in reached THEN S!AfterBar(strategies[i], s, tf, verdict[i])
                           ELSE strategies[i]]
      /\ raw' = IF fails THEN <<>>
                ELSE [k \in DOMAIN order |->
                         [id |-> order[k], symbol |-> s, direction |-> verdict[order[k]]]]
      /\ lost' = IF fails THEN lost \cup (speaking \X {s}) ELSE lost \ (speaking \X {s})
      /\ index' = index /\ approved' = approved /\ changes' = changes /\ told' = told
  <2>1. S!Kept(index[s], speaking) = order
    BY DEF S!Kept, Kept
  <2>2. QED
    BY <2>1 DEF S!Bar
<1>3. speaking \subseteq DOMAIN strategies /\ speaking \subseteq Elements(index[s])
  <2>1. S!Listed(s) = Elements(index[s])
    BY <1>1 DEF ListedOnce, S!Listed, Elements
  <2>2. QED
    BY <2>1
<1>4. order \in Seq(StrategyIds) /\ Elements(order) = speaking
  <2> DEFINE q == index[s]
  <2>1. q \in Seq(StrategyIds) /\ speaking \subseteq Elements(q)
    BY <1>1, <1>3 DEF ListedOnce
  <2> HIDE DEF q, speaking
  <2>2. Kept(q, speaking) \in Seq(StrategyIds) /\ Elements(Kept(q, speaking)) = Elements(q) \cap speaking
    BY <2>1, KeptSet
  <2>3. QED
    BY <2>1, <2>2 DEF q
<1>5. ASSUME NEW i \in DOMAIN strategies
      PROVE  /\ strategies'[i] \in S!StrategyRecords /\ strategies'[i].symbols = strategies[i].symbols
             /\ i \notin speaking => strategies'[i].tracker = strategies[i].tracker
             /\ i \in speaking => /\ verdict[i] \in S!Directions
                                  /\ strategies'[i].tracker = [strategies[i].tracker EXCEPT ![s] = verdict[i]]
                                  /\ strategies'[i].tracker[s] = verdict[i]
                                  /\ \A t \in StrategySymbols :
                                        t # s => strategies'[i].tracker[t] = strategies[i].tracker[t]
  <2>1. strategies[i] \in S!StrategyRecords
    BY <1>1 DEF Recorded
  <2> DEFINE st == strategies[i]
             v == verdict[i]
             new == S!AfterBar(st, s, tf, v)
  <2>2. st.tracker \in [StrategySymbols -> S!Directions]
    BY <2>1 DEF S!StrategyRecords
  <2>3. /\ new \in S!StrategyRecords /\ new.symbols = st.symbols
        /\ new.tracker = IF S!Speaks(st, s, tf, v) THEN [st.tracker EXCEPT ![s] = v] ELSE st.tracker
    <3>1. st \in S!StrategyRecords
      BY <2>1
    <3> HIDE DEF st, v
    <3>2. QED
      BY <3>1, AfterBarIs
  <2>4. strategies'[i] = IF i \in reached THEN new ELSE st
    BY <1>2
  <2>5. i \in speaking <=> i \in reached /\ S!Speaks(st, s, tf, v)
    OBVIOUS
  <2>6. S!Speaks(st, s, tf, v) => v \in S!Directions
    BY DEF S!Speaks
  <2> HIDE DEF st, v, new, reached, speaking
  <2>7. /\ strategies'[i] \in S!StrategyRecords /\ strategies'[i].symbols = st.symbols
        /\ i \notin speaking => strategies'[i].tracker = st.tracker
        /\ i \in speaking => v \in S!Directions /\ strategies'[i].tracker = [st.tracker EXCEPT ![s] = v]
    BY <2>1, <2>3, <2>4, <2>5, <2>6 DEF st
  <2>8. i \in speaking => strategies'[i].tracker[s] = v
                          /\ \A t \in StrategySymbols : t # s => strategies'[i].tracker[t] = st.tracker[t]
    BY <2>2, <2>7
  <2>9. QED
    BY <2>7, <2>8 DEF st, v
<1>6. DOMAIN strategies' = DOMAIN strategies
  BY <1>2
<1> HIDE DEF reached, speaking, order
<1>7. Recorded'
  <2>1. strategies' \in [DOMAIN strategies -> S!StrategyRecords]
    BY <1>2, <1>5
  <2>2. QED
    BY <1>1, <1>6, <2>1 DEF Recorded
<1>8. ListedOnce'
  BY <1>1, <1>2, <1>5, <1>6 DEF ListedOnce
<1>9. ~fails => /\ raw' \in Seq(S!SignalRecords)
                /\ Elements(raw') = {[id |-> i, symbol |-> s, direction |-> verdict[i]] : i \in speaking}
  <2> SUFFICES ASSUME ~fails
               PROVE  /\ raw' \in Seq(S!SignalRecords)
                      /\ Elements(raw') = {[id |-> i, symbol |-> s, direction |-> verdict[i]] : i \in speaking}
    OBVIOUS
  <2> DEFINE Sig(i) == [id |-> i, symbol |-> s, direction |-> verdict[i]]
             sigs == [k \in 1..Len(order) |-> Sig(order[k])]
  <2>1. raw' = sigs
    BY <1>2, <1>4
  <2>2. \A k \in 1..Len(order) : order[k] \in speaking
    BY <1>4 DEF Elements
  <2>3. \A i \in speaking : Sig(i) \in S!SignalRecords
    BY <1>1, <1>3, <1>5 DEF Recorded, S!SignalRecords
  <2> HIDE DEF Sig
  <2>4. Len(order) \in Nat
    BY <1>4
  <2>5. sigs \in Seq(S!SignalRecords) /\ Len(sigs) = Len(order)
    BY <2>2, <2>3, <2>4
  <2>6. Elements(sigs) = {sigs[k] : k \in 1..Len(order)}
    BY <2>5 DEF Elements
  <2>7. speaking = {order[k] : k \in 1..Len(order)}
    BY <1>4 DEF Elements
  <2>8. Elements(sigs) = {Sig(i) : i \in speaking}
    BY <2>6, <2>7
  <2>9. QED
    BY <2>1, <2>5, <2>8 DEF Sig
<1>10. lost' \subseteq StrategyIds \X StrategySymbols
  BY <1>1, <1>2, <1>3 DEF SignalsTyped, Recorded
<1>11. SignalsTyped'
  <2>1. bars' \in 0..MaxDispatched
    BY <1>1, <1>2 DEF SignalsTyped, S!ConstantsOK
  <2>2. raw' \in Seq(S!SignalRecords)
    BY <1>2, <1>9
  <2>3. QED
    BY <1>1, <1>2, <1>10, <2>1, <2>2 DEF SignalsTyped
<1>12. Pending = {} /\ Pending' = Elements(raw')
  BY <1>2 DEF Pending, Elements
<1>13. ASSUME NEW i \in DOMAIN strategies', NEW t \in StrategySymbols PROVE Tracked(i, t)'
  <2>1. Tracked(i, t) /\ i \in DOMAIN strategies
    BY <1>1, <1>6 DEF AllTracked
  <2>2. <<i, t>> \notin lost => told[<<i, t>>] = strategies[i].tracker[t]
    BY <1>12, <2>1 DEF Tracked
  <2>3. CASE i \in speaking /\ t = s
    <3>1. CASE fails
      <4>1. <<i, t>> \in lost'
        BY <1>2, <2>3, <3>1
      <4>2. QED
        BY <4>1 DEF Tracked
    <3>2. CASE ~fails
      <4> DEFINE sig == [id |-> i, symbol |-> s, direction |-> verdict[i]]
      <4>1. sig \in Pending' /\ sig.id = i /\ sig.symbol = t
        BY <1>9, <1>12, <2>3, <3>2
      <4>2. \A other \in Pending' : other.id = i => other.direction = verdict[i]
        BY <1>9, <1>12, <3>2
      <4>3. strategies'[i].tracker[t] = verdict[i]
        BY <1>5, <2>1, <2>3
      <4> HIDE DEF sig
      <4>4. QED
        BY <4>1, <4>2, <4>3 DEF Tracked
    <3>3. QED
      BY <3>1, <3>2
  <2>4. CASE ~(i \in speaking /\ t = s)
    <3>1. strategies'[i].tracker[t] = strategies[i].tracker[t]
      BY <1>5, <2>1, <2>4
    <3>2. <<i, t>> \in lost' <=> <<i, t>> \in lost
      BY <1>2, <2>4
    <3>3. \A sig \in Pending' : sig.id # i \/ sig.symbol # t
      <4>1. CASE fails
        BY <1>2, <1>12, <4>1 DEF Elements
      <4>2. CASE ~fails
        BY <1>9, <1>12, <2>4, <4>2
      <4>3. QED
        BY <4>1, <4>2
    <3>4. QED
      BY <1>2, <2>2, <3>1, <3>2, <3>3 DEF Tracked
  <2>5. QED
    BY <2>3, <2>4
<1>14. QED
  BY <1>7, <1>8, <1>11, <1>13 DEF StrategyInv, AllTracked

\* The elements of a list without its first one.
LEMMA WithoutFirst ==
    ASSUME NEW Val, NEW q \in Seq(Val), q # <<>>
    PROVE  /\ Head(q) \in Val /\ Tail(q) \in Seq(Val)
           /\ Elements(q) = {Head(q)} \cup Elements(Tail(q))
<1> DEFINE t == Tail(q)
           x == Head(q)
<1>1. /\ x \in Val /\ t \in Seq(Val) /\ Len(q) \in Nat /\ Len(t) = Len(q) - 1 /\ Len(t) \in Nat
      /\ \A i \in 1..Len(t) : t[i] = q[i + 1]
  BY FirstOfList
<1>2. x = q[1]
  OBVIOUS
<1> HIDE DEF t, x
<1>3. \A i \in 1..Len(t) : i + 1 \in 1..Len(q)
  BY <1>1
<1>4. 1 \in 1..Len(q)
  BY <1>1
<1>5. ASSUME NEW i \in 1..Len(q) PROVE q[i] \in {x} \cup Elements(t)
  <2>1. CASE i = 1
    BY <1>2, <2>1
  <2>2. CASE i # 1
    <3>1. i - 1 \in 1..Len(t) /\ (i - 1) + 1 = i
      BY <1>1, <2>2
    <3>2. t[i - 1] = q[i]
      BY <1>1, <3>1
    <3>3. QED
      BY <3>1, <3>2 DEF Elements
  <2>3. QED
    BY <2>1, <2>2
<1>6. Elements(q) \subseteq {x} \cup Elements(t)
  BY <1>5 DEF Elements
<1>7. {x} \cup Elements(t) \subseteq Elements(q)
  BY <1>1, <1>2, <1>3, <1>4 DEF Elements
<1>8. QED
  BY <1>1, <1>6, <1>7 DEF t, x

\* The signals of a strategy other than the one taken.
LEMMA OneSignal ==
    ASSUME StrategyInv, NEW sig \in Pending, UNCHANGED <<strategies, index, bars, changes>>,
           raw' \in Seq(S!SignalRecords), approved' \in Seq(S!SignalRecords),
           Pending' \subseteq Pending, Pending \subseteq Pending' \cup {sig},
           \/ told' = told /\ Pending' = Pending /\ lost' = lost
           \/ told' = told /\ lost' = lost \cup {<<sig.id, sig.symbol>>}
           \/ told' = [told EXCEPT ![<<sig.id, sig.symbol>>] = sig.direction] /\ lost' = lost
    PROVE  StrategyInv'
<1>1. ListedOnce /\ Recorded /\ SignalsTyped /\ AllTracked
  BY DEF StrategyInv
<1>2. sig \in S!SignalRecords
  BY <1>1 DEF Pending, Elements, SignalsTyped
<1>3. sig.id \in StrategyIds /\ sig.symbol \in StrategySymbols /\ sig.direction \in S!Directions
  BY <1>2 DEF S!SignalRecords
<1> DEFINE key == <<sig.id, sig.symbol>>
<1>4. key \in StrategyIds \X StrategySymbols
  BY <1>3
<1>5. SignalsTyped'
  BY <1>1, <1>3, <1>4 DEF SignalsTyped
<1>6. ASSUME NEW i \in DOMAIN strategies', NEW s \in StrategySymbols PROVE Tracked(i, s)'
  <2>1. Tracked(i, s) /\ strategies' = strategies /\ i \in StrategyIds
    BY <1>1 DEF AllTracked, Recorded
  <2> DEFINE at == strategies[i].tracker[s]
  <2> SUFFICES ASSUME <<i, s>> \notin lost'
               PROVE  /\ \A other \in Pending' : other.id = i /\ other.symbol = s => other.direction = at
                      /\ (\A other \in Pending' : other.id # i \/ other.symbol # s) => told'[<<i, s>>] = at
    BY <2>1 DEF Tracked
  <2>2. <<i, s>> \notin lost
    OBVIOUS
  <2>3. /\ \A other \in Pending : other.id = i /\ other.symbol = s => other.direction = at
        /\ (\A other \in Pending : other.id # i \/ other.symbol # s) => told[<<i, s>>] = at
    BY <2>1, <2>2 DEF Tracked
  <2> HIDE DEF at
  <2>4. CASE sig.id = i /\ sig.symbol = s
    <3>1. sig.direction = at
      BY <2>3, <2>4
    <3>2. (told' = told /\ Pending' = Pending) \/ told'[<<i, s>>] = at
      <4>1. \/ told' = told /\ Pending' = Pending
            \/ told' = [told EXCEPT ![key] = sig.direction]
        BY <2>4
      <4>2. told \in [StrategyIds \X StrategySymbols -> S!Directions] /\ key = <<i, s>>
        BY <1>1, <2>4 DEF SignalsTyped
      <4> HIDE DEF key
      <4>3. QED
        BY <1>4, <3>1, <4>1, <4>2
    <3>3. QED
      BY <2>3, <3>2
  <2>5. CASE ~(sig.id = i /\ sig.symbol = s)
    <3>1. key # <<i, s>>
      BY <2>5
    <3>2. told'[<<i, s>>] = told[<<i, s>>]
      <4>1. told' = told \/ told' = [told EXCEPT ![key] = sig.direction]
        OBVIOUS
      <4>2. told \in [StrategyIds \X StrategySymbols -> S!Directions]
        BY <1>1 DEF SignalsTyped
      <4>3. <<i, s>> \in StrategyIds \X StrategySymbols
        BY <2>1
      <4> HIDE DEF key
      <4>4. QED
        BY <3>1, <4>1, <4>2, <4>3
    <3>3. QED
      BY <2>3, <2>5, <3>2
  <2>6. QED
    BY <2>4, <2>5
<1>7. QED
  BY <1>1, <1>5, <1>6 DEF StrategyInv, AllTracked, ListedOnce, Recorded

\* A signal that the risk engine approves is still under way, and one it
\* refuses is lost.
LEMMA GateKeeps ==
    ASSUME StrategyInv, NEW passes \in BOOLEAN, S!Gate(passes)
    PROVE  StrategyInv'
<1> DEFINE sig == Head(raw)
           rest == Tail(raw)
<1>1. /\ raw # <<>> /\ raw' = rest
      /\ approved' = IF passes THEN Append(approved, sig) ELSE approved
      /\ lost' = IF passes THEN lost ELSE lost \cup {<<sig.id, sig.symbol>>}
      /\ UNCHANGED <<strategies, index, bars, changes, told>>
  BY DEF S!Gate, S!Lose
<1>2. raw \in Seq(S!SignalRecords) /\ approved \in Seq(S!SignalRecords)
  BY DEF StrategyInv, SignalsTyped
<1>3. sig \in S!SignalRecords /\ rest \in Seq(S!SignalRecords) /\ Elements(raw) = {sig} \cup Elements(rest)
  BY <1>1, <1>2, WithoutFirst
<1> HIDE DEF sig, rest
<1>4. sig \in Pending
  BY <1>3 DEF Pending
<1>5. CASE passes
  <2> DEFINE k == Append(approved, sig)
  <2>1. k \in Seq(S!SignalRecords) /\ Elements(k) = Elements(approved) \cup {sig}
    BY <1>2, <1>3, OneMore
  <2> HIDE DEF k
  <2>2. approved' = k /\ lost' = lost
    BY <1>1, <1>5 DEF k
  <2>3. Pending' = Pending
    BY <1>1, <1>3, <2>1, <2>2 DEF Pending
  <2>4. approved' \in Seq(S!SignalRecords) /\ raw' \in Seq(S!SignalRecords)
    BY <1>1, <1>3, <2>1, <2>2
  <2>5. QED
    BY <1>1, <1>4, <2>2, <2>3, <2>4, OneSignal
<1>6. CASE ~passes
  <2>1. Pending' = Elements(rest) \cup Elements(approved)
    BY <1>1, <1>6 DEF Pending
  <2>2. Pending' \subseteq Pending /\ Pending \subseteq Pending' \cup {sig}
    BY <1>3, <2>1 DEF Pending
  <2>3. approved' \in Seq(S!SignalRecords) /\ raw' \in Seq(S!SignalRecords)
        /\ lost' = lost \cup {<<sig.id, sig.symbol>>}
    BY <1>1, <1>2, <1>3, <1>6
  <2>4. QED
    BY <1>1, <1>4, <2>2, <2>3, OneSignal
<1>7. QED
  BY <1>5, <1>6

\* A signal that is published is told, and one that fails is lost.
LEMMA PublishKeeps ==
    ASSUME StrategyInv, NEW succeeds \in BOOLEAN, S!Publish(succeeds)
    PROVE  StrategyInv'
<1> DEFINE sig == Head(approved)
           rest == Tail(approved)
<1>1. /\ approved # <<>> /\ approved' = rest
      /\ told' = IF succeeds THEN [told EXCEPT ![<<sig.id, sig.symbol>>] = sig.direction] ELSE told
      /\ lost' = IF succeeds THEN lost ELSE lost \cup {<<sig.id, sig.symbol>>}
      /\ UNCHANGED <<strategies, index, raw, bars, changes>>
  BY DEF S!Publish, S!Lose
<1>2. raw \in Seq(S!SignalRecords) /\ approved \in Seq(S!SignalRecords)
  BY DEF StrategyInv, SignalsTyped
<1>3. sig \in S!SignalRecords /\ rest \in Seq(S!SignalRecords) /\ Elements(approved) = {sig} \cup Elements(rest)
  BY <1>1, <1>2, WithoutFirst
<1> HIDE DEF sig, rest
<1>4. sig \in Pending
  BY <1>3 DEF Pending
<1>5. Pending' = Elements(raw) \cup Elements(rest)
  BY <1>1 DEF Pending
<1>6. Pending' \subseteq Pending /\ Pending \subseteq Pending' \cup {sig}
  BY <1>3, <1>5 DEF Pending
<1>7. approved' \in Seq(S!SignalRecords) /\ raw' \in Seq(S!SignalRecords)
  BY <1>1, <1>2, <1>3
<1>8. \/ told' = told /\ lost' = lost \cup {<<sig.id, sig.symbol>>}
      \/ told' = [told EXCEPT ![<<sig.id, sig.symbol>>] = sig.direction] /\ lost' = lost
  BY <1>1
<1>9. QED
  BY <1>1, <1>4, <1>6, <1>7, <1>8, OneSignal

\* No step of the strategy engine breaks StrategyInv.
LEMMA StrategyStep == S!ConstantsOK /\ StrategyInv /\ [S!Next]_(S!vars) => StrategyInv'
<1> SUFFICES ASSUME S!ConstantsOK, StrategyInv, [S!Next]_(S!vars) PROVE StrategyInv'
  OBVIOUS
<1>1. CASE UNCHANGED S!vars
  BY <1>1 DEF S!vars, StrategyInv, ListedOnce, Recorded, SignalsTyped, AllTracked, Tracked, Pending
<1>2. QED
  BY <1>1, RegisterKeeps, DeregisterKeeps, SwitchKeeps, ResetKeeps, BarKeeps, GateKeeps,
     PublishKeeps DEF S!Next

-----------------------------------------------------------------------------
(* Ticks.                                                                    *)

TicksTyped ==
    /\ connected \in BOOLEAN /\ executor \in {"up", "down"}
    /\ known \in Seq(Symbols) /\ todo \in Seq(Symbols)
    /\ handlers \in [Symbols -> Seq(Streams)]
    /\ poller \in {"none", "checking", "polling", "handing"}
    /\ list = [s \in Symbols |-> list[s]]
    /\ position \in Nat \ {0}
    /\ queues \in [Streams -> Seq(T!Numbers)]
    /\ \A r \in Streams : Len(queues[r]) <= TickQueue
    /\ open \subseteq opened /\ opened \subseteq Streams
    /\ tick \in [Symbols -> T!Numbers]
    /\ lastRead \in [Streams -> {<<>>} \cup {<<n>> : n \in T!Numbers}]

\* Where the poller is in its round.
Polling ==
    /\ poller \in {"none", "checking"} => todo = <<>>
    /\ poller = "handing" => todo # <<>>
    /\ poller # "handing" => position = 1

\* A list of handlers names streams seen for its symbol, once each.
OfSymbol(hs, s, seen) ==
    /\ hs \in Seq(Streams) /\ Once(hs)
    /\ \A r \in Elements(hs) : SymbolOf[r] = s /\ r \in seen

\* So does the list the round has, which is another one only for a symbol
\* that is still to come.
Listening ==
    \A s \in Symbols :
        /\ OfSymbol(handlers[s], s, opened) /\ OfSymbol(T!HandlersOf(s), s, opened)
        /\ list[s] # T!Current => s \in Elements(todo)

\* What the stream has had last and what waits for it.
TickHad(r) == lastRead[r] \o queues[r]

Queued == \A r \in Streams \ opened : TickHad(r) = <<>>

\* The stream is one of those that the tick in hand is still to go to.
AboutTo(r) ==
    /\ poller = "handing" /\ SymbolOf[r] = Head(todo)
    /\ \E i \in 1..Len(T!HandlersOf(SymbolOf[r])) :
          i >= position /\ T!HandlersOf(SymbolOf[r])[i] = r

\* The round reaches the stream; this round or a later one does.
Served(r) == r \in Elements(T!HandlersOf(SymbolOf[r]))
Live(r) == Served(r) \/ r \in Elements(handlers[SymbolOf[r]])

\* The last tick of h is number n, or the one before if n is due.
UpTo(h, n, due) == h # <<>> => n = IF due THEN (h[Len(h)] + 1) % Wrap ELSE h[Len(h)]

\* A stream that is served has had every tick up to the one in hand, and one
\* that only later rounds reach has had none.
InStep(r) ==
    /\ T!Consecutive(TickHad(r))
    /\ Live(r) => UpTo(TickHad(r), tick[SymbolOf[r]], AboutTo(r))
    /\ Live(r) /\ ~Served(r) => TickHad(r) = <<>>

RoundInv ==
    /\ TicksTyped /\ Polling /\ Listening /\ Queued
    /\ executor = "up" => \A r \in Streams : InStep(r)

\* The rest of a list without gaps has none, and ends where the list did.
LEMMA LaterTick ==
    ASSUME NEW h \in Seq(Nat), NEW q \in Seq(Nat), Rest(h, q)
    PROVE  /\ T!Consecutive(h) => T!Consecutive(q)
           /\ q # <<>> => h # <<>> /\ q[Len(q)] = h[Len(h)]
<1>1. ASSUME NEW x \in Nat, h = <<x>> \o q
      PROVE  /\ T!Consecutive(h) => T!Consecutive(q)
             /\ q # <<>> => h # <<>> /\ q[Len(q)] = h[Len(h)]
  <2>1. /\ Len(h) = Len(q) + 1 /\ Len(q) \in Nat
        /\ \A i \in 1..Len(q) : h[i + 1] = q[i]
    BY <1>1
  <2>2. q # <<>> => h # <<>> /\ Len(q) \in 1..Len(q)
    BY <1>1, <2>1
  <2>3. q # <<>> => q[Len(q)] = h[Len(h)]
    BY <2>1, <2>2
  <2>4. ASSUME NEW i \in 1..(Len(q) - 1)
        PROVE  i + 1 \in 1..(Len(h) - 1) /\ q[i] = h[i + 1] /\ q[i + 1] = h[(i + 1) + 1]
    BY <2>1
  <2>5. T!Consecutive(h) => T!Consecutive(q)
    BY <2>4 DEF T!Consecutive
  <2>6. QED
    BY <2>2, <2>3, <2>5
<1>2. QED
  BY <1>1 DEF Rest

\* The list goes on with the tick that is due.
LEMMA NextTick ==
    ASSUME NEW h \in Seq(Nat), NEW n \in Nat, T!Consecutive(h),
           h # <<>> => n = (h[Len(h)] + 1) % Wrap
    PROVE  T!Consecutive(Append(h, n)) /\ Append(h, n)[Len(Append(h, n))] = n
<1> DEFINE k == Append(h, n)
<1>1. /\ Len(k) = Len(h) + 1 /\ Len(h) \in Nat /\ k[Len(k)] = n
      /\ \A i \in 1..Len(h) : k[i] = h[i]
  OBVIOUS
<1>2. h # <<>> => Len(h) \in 1..Len(h)
  OBVIOUS
<1> HIDE DEF k
<1>3. ASSUME NEW i \in 1..(Len(k) - 1)
      PROVE  \/ i \in 1..(Len(h) - 1) /\ k[i] = h[i] /\ k[i + 1] = h[i + 1]
             \/ h # <<>> /\ i = Len(h) /\ k[i] = h[Len(h)] /\ k[i + 1] = n
  <2>1. i \in 1..Len(h)
    BY <1>1
  <2>2. h # <<>>
    BY <2>1
  <2>3. CASE i = Len(h)
    BY <1>1, <1>2, <2>2, <2>3
  <2>4. CASE i # Len(h)
    <3>1. i \in 1..(Len(h) - 1) /\ i + 1 \in 1..Len(h)
      BY <1>1, <2>1, <2>4
    <3>2. QED
      BY <1>1, <2>1, <3>1
  <2>5. QED
    BY <2>3, <2>4
<1>4. T!Consecutive(k)
  BY <1>3 DEF T!Consecutive
<1>5. QED
  BY <1>1, <1>4 DEF k

\* A list over a set is one over a larger set.
LEMMA Wider ==
    ASSUME NEW Val, NEW Other, Val \subseteq Other, NEW q \in Seq(Val)
    PROVE  q \in Seq(Other)
<1>1. ASSUME NEW i \in 1..Len(q) PROVE q[i] \in Other
  OBVIOUS
<1>2. QED
  BY <1>1, SeqOf

\* The lists of a stream are lists of numbers.
LEMMA TickTypes ==
    ASSUME T!ConstantsOK, TicksTyped, NEW r \in Streams
    PROVE  /\ queues[r] \in Seq(Nat) /\ TickHad(r) \in Seq(Nat) /\ Rest(TickHad(r), queues[r])
           /\ SymbolOf[r] \in Symbols /\ tick[SymbolOf[r]] \in Nat
           /\ T!Numbers \subseteq Nat
<1>1. Wrap \in Nat \ {0} /\ SymbolOf[r] \in Symbols
  BY DEF T!ConstantsOK
<1>2. T!Numbers \subseteq Nat
  BY <1>1 DEF T!Numbers
<1>3. queues[r] \in Seq(T!Numbers)
  BY DEF TicksTyped
<1>4. queues[r] \in Seq(Nat)
  <2> DEFINE q == queues[r]
             Val == T!Numbers
  <2>1. q \in Seq(Val) /\ Val \subseteq Nat
    BY <1>2, <1>3
  <2> HIDE DEF q, Val
  <2>2. q \in Seq(Nat)
    BY <2>1, Wider
  <2>3. QED
    BY <2>2 DEF q
<1>5. lastRead[r] = <<>> \/ \E x \in Nat : lastRead[r] = <<x>>
  BY <1>2 DEF TicksTyped
<1>6. TickHad(r) \in Seq(Nat) /\ Rest(TickHad(r), queues[r])
  BY <1>4, <1>5, After DEF TickHad
<1>7. tick[SymbolOf[r]] \in Nat
  BY <1>1, <1>2 DEF TicksTyped
<1>8. QED
  BY <1>1, <1>2, <1>4, <1>6, <1>7

\* That is what TypeOK says.
LEMMA RoundMean == RoundInv => T!TypeOK
<1> SUFFICES ASSUME RoundInv PROVE T!TypeOK
  OBVIOUS
<1>1. \A s \in Symbols : T!HandlersOf(s) \in Seq(Streams)
  BY DEF RoundInv, Listening, OfSymbol
<1>2. QED
  BY <1>1 DEF RoundInv, TicksTyped, Polling, T!TypeOK

\* Initially no stream is open.
LEMMA RoundInit == T!ConstantsOK /\ T!Init => RoundInv
<1> SUFFICES ASSUME T!ConstantsOK, T!Init PROVE RoundInv
  OBVIOUS
<1>1. Wrap \in Nat \ {0} /\ TickQueue \in Nat \ {0} /\ 0 \in T!Numbers
  BY DEF T!ConstantsOK, T!Numbers
<1>2. TicksTyped
  <2>1. connected \in BOOLEAN
    BY Zenon DEF T!Init
  <2>2. tick \in [Symbols -> T!Numbers]
    BY <1>1 DEF T!Init
  <2>3. QED
    BY <1>1, <2>1, <2>2 DEF TicksTyped, T!Init
<1>3. Polling
  BY DEF Polling, T!Init
<1>4. \A r \in Streams : TickHad(r) = <<>>
  BY DEF TickHad, T!Init
<1>5. Listening
  BY DEF Listening, OfSymbol, Elements, Once, T!HandlersOf, T!Init
<1>6. ASSUME NEW r \in Streams PROVE InStep(r)
  BY <1>4 DEF InStep, UpTo, T!Consecutive
<1>7. QED
  BY <1>2, <1>3, <1>4, <1>5, <1>6 DEF RoundInv, Queued

\* A stream stays in step when it is handed nothing, its symbol is not
\* polled, and the change of the lists leaves it what it was.
LEMMA StaysInStep ==
    ASSUME NEW r, TickHad(r) \in Seq(Nat), TickHad(r)' \in Seq(Nat), Rest(TickHad(r), TickHad(r)'),
           InStep(r), tick'[SymbolOf[r]] = tick[SymbolOf[r]],
           TickHad(r)' # <<>> /\ Live(r)' =>
               /\ Live(r) /\ (AboutTo(r)' <=> AboutTo(r))
               /\ Served(r) => Served(r)'
    PROVE  InStep(r)'
<1> DEFINE h == TickHad(r)
           k == TickHad(r)'
           n == tick[SymbolOf[r]]
<1>1. /\ T!Consecutive(h) => T!Consecutive(k)
      /\ k # <<>> => h # <<>> /\ k[Len(k)] = h[Len(h)]
  <2> HIDE DEF h, k
  <2>1. h \in Seq(Nat) /\ k \in Seq(Nat) /\ Rest(h, k)
    BY DEF h, k
  <2>2. QED
    BY <2>1, LaterTick
<1>2. T!Consecutive(h) /\ (Live(r) => UpTo(h, n, AboutTo(r))) /\ (Live(r) /\ ~Served(r) => h = <<>>)
  BY DEF InStep
<1>3. T!Consecutive(k)
  BY <1>1, <1>2
<1>4. Live(r)' => UpTo(k, n, AboutTo(r)')
  <2> HIDE DEF h, k, n
  <2>1. k # <<>> /\ Live(r)' => Live(r) /\ (AboutTo(r)' <=> AboutTo(r))
    BY DEF k
  <2>2. QED
    BY <1>1, <1>2, <2>1 DEF UpTo
<1>5. Live(r)' /\ ~Served(r)' => k = <<>>
  BY <1>1, <1>2
<1>6. QED
  BY <1>3, <1>4, <1>5 DEF InStep, T!Consecutive

\* A stream in step is in step after a change that concerns neither its
\* lists nor its symbol.
LEMMA Undisturbed ==
    ASSUME T!ConstantsOK, TicksTyped, NEW r \in Streams, InStep(r),
           UNCHANGED <<queues, lastRead>>,
           tick'[SymbolOf[r]] = tick[SymbolOf[r]],
           Live(r)' => /\ Live(r) /\ (AboutTo(r)' <=> AboutTo(r))
                       /\ Served(r) => Served(r)'
    PROVE  InStep(r)'
<1>1. TickHad(r)' = TickHad(r)
  BY DEF TickHad
<1>2. TickHad(r) \in Seq(Nat) /\ Rest(TickHad(r), TickHad(r)')
  BY <1>1, TickTypes DEF Rest
<1>3. QED
  BY <1>1, <1>2, StaysInStep

\* connect and the end of a round change nothing that a stream sees.
LEMMA IdleKeeps ==
    ASSUME T!ConstantsOK, RoundInv,
           UNCHANGED <<known, handlers, list, position, queues, opened, tick, lastRead>>,
           open' \subseteq opened,
           connected' \in BOOLEAN, executor' = executor,
           \/ UNCHANGED <<poller, todo>>
           \/ /\ poller # "handing" /\ poller' \in {"none", "checking", "polling"}
              /\ todo = <<>> /\ todo' \in Seq(Symbols) /\ (poller' # "polling" => todo' = <<>>)
    PROVE  RoundInv'
<1> USE DEF RoundInv
<1>1. TicksTyped'
  BY DEF TicksTyped, T!Numbers
<1>2. Polling'
  BY DEF Polling
<1>3. \A s \in Symbols : T!HandlersOf(s)' = T!HandlersOf(s)
  BY DEF T!HandlersOf, T!Current
<1>4. Listening'
  <2> SUFFICES ASSUME NEW s \in Symbols
               PROVE  /\ OfSymbol(handlers'[s], s, opened') /\ OfSymbol(T!HandlersOf(s)', s, opened')
                      /\ list'[s] # T!Current => s \in Elements(todo')
    BY DEF Listening, T!Current
  <2>1. /\ OfSymbol(handlers[s], s, opened) /\ OfSymbol(T!HandlersOf(s), s, opened)
        /\ list[s] # T!Current => s \in Elements(todo)
    BY DEF Listening
  <2>2. OfSymbol(handlers'[s], s, opened') /\ OfSymbol(T!HandlersOf(s)', s, opened')
    BY <1>3, <2>1 
  <2>3. todo = <<>> => s \notin Elements(todo)
    BY DEF Elements
  <2>4. QED
    BY <2>1, <2>2, <2>3
<1>5. Queued'
  BY DEF Queued, TickHad
<1>6. ASSUME executor' = "up", NEW r \in Streams PROVE InStep(r)'
  <2>1. SymbolOf[r] \in Symbols /\ InStep(r)
    BY <1>6 DEF T!ConstantsOK
  <2>2. (Served(r)' <=> Served(r)) /\ (Live(r)' <=> Live(r))
    BY <1>3, <2>1 DEF Served, Live, Elements
  <2>3. AboutTo(r)' <=> AboutTo(r)
    BY <1>3, <2>1 DEF AboutTo
  <2>4. QED
    BY <2>1, <2>2, <2>3, Undisturbed
<1>7. QED
  BY <1>1, <1>2, <1>4, <1>5, <1>6

\* disconnect ends the round and the poller.
LEMMA DisconnectKeeps ==
    ASSUME RoundInv, T!Disconnect
    PROVE  RoundInv'
<1> USE DEF RoundInv, T!Disconnect
<1>1. TicksTyped'
  <2>1. connected' \in BOOLEAN
    BY Zenon
  <2>2. list' = [s \in Symbols |-> list'[s]]
    OBVIOUS
  <2>3. QED
    BY <2>1, <2>2 DEF TicksTyped, T!Numbers
<1>2. Polling'
  BY DEF Polling
<1>3. \A s \in Symbols : list'[s] = T!Current /\ T!HandlersOf(s)' = handlers[s]
  BY DEF T!HandlersOf, T!Current
<1>4. Listening'
  <2> SUFFICES ASSUME NEW s \in Symbols
               PROVE  /\ OfSymbol(handlers'[s], s, opened') /\ OfSymbol(T!HandlersOf(s)', s, opened')
                      /\ list'[s] = T!Current
    BY DEF Listening, T!Current
  <2>1. OfSymbol(handlers[s], s, opened)
    BY DEF Listening
  <2>2. OfSymbol(handlers'[s], s, opened') /\ OfSymbol(T!HandlersOf(s)', s, opened')
    BY <1>3, <2>1 
  <2>3. QED
    BY <1>3, <2>2
<1>5. Queued'
  BY DEF Queued, TickHad
<1>6. QED
  BY <1>1, <1>2, <1>4, <1>5

\* subscribe adds the stream to the list of its symbol, and to the one the
\* round walks over if that is the same.
LEMMA OpenKeeps ==
    ASSUME T!ConstantsOK, RoundInv, NEW r \in Streams, T!OpenStream(r)
    PROVE  RoundInv'
<1> DEFINE s == SymbolOf[r]
<1> USE DEF RoundInv
<1>1. s \in Symbols /\ r \notin opened
  BY DEF T!ConstantsOK, T!OpenStream
<1>2. /\ OfSymbol(handlers[s], s, opened) /\ OfSymbol(T!HandlersOf(s), s, opened)
      /\ handlers[s] \in Seq(Streams) /\ T!HandlersOf(s) \in Seq(Streams)
  BY <1>1 DEF Listening, OfSymbol
<1>3. /\ opened' = opened \cup {r} /\ open' = open \cup {r}
      /\ handlers' = [handlers EXCEPT ![s] = Append(handlers[s], r)]
      /\ UNCHANGED <<connected, executor, todo, list, position, queues, tick, lastRead>>
      /\ poller' = IF poller = "none" THEN "checking" ELSE poller
  BY DEF T!OpenStream
<1>4. handlers'[s] = Append(handlers[s], r) /\ \A t \in Symbols \ {s} : handlers'[t] = handlers[t]
  BY <1>1, <1>3 DEF TicksTyped
<1> DEFINE hs == handlers[s]
           now == T!HandlersOf(s)
           seen == opened
<1>5. /\ OfSymbol(Append(hs, r), s, seen \cup {r}) /\ OfSymbol(now, s, seen \cup {r})
      /\ OfSymbol(Append(now, r), s, seen \cup {r})
  <2>1. OfSymbol(hs, s, seen) /\ OfSymbol(now, s, seen) /\ r \notin seen
    BY <1>1, <1>2
  <2>2. r \in Streams /\ SymbolOf[r] = s
    OBVIOUS
  <2> HIDE DEF hs, now, seen, s
  <2>3. OfSymbol(now, s, seen \cup {r})
    BY <2>1 DEF OfSymbol
  <2>4. OfSymbol(Append(hs, r), s, seen \cup {r})
    BY <2>1, <2>2, OneMore DEF OfSymbol
  <2>5. OfSymbol(Append(now, r), s, seen \cup {r})
    BY <2>1, <2>2, OneMore DEF OfSymbol
  <2>6. QED
    BY <2>3, <2>4, <2>5
<1>6. T!HandlersOf(s)' = now \/ (T!HandlersOf(s)' = Append(now, r) /\ now = hs)
  BY <1>1, <1>3, <1>4 DEF T!HandlersOf, T!Current
<1>7. \A t \in Symbols \ {s} : T!HandlersOf(t)' = T!HandlersOf(t)
  BY <1>3, <1>4 DEF T!HandlersOf, T!Current
<1>8. TicksTyped'
  <2>1. handlers' \in [Symbols -> Seq(Streams)]
    BY <1>2, <1>3, Appended DEF TicksTyped
  <2>2. known' \in Seq(Symbols)
    BY <1>1, Appended DEF TicksTyped, T!OpenStream
  <2>3. poller' \in {"none", "checking", "polling", "handing"}
    BY <1>3 DEF TicksTyped
  <2>4. open' \subseteq opened' /\ opened' \subseteq Streams
    BY <1>3 DEF TicksTyped
  <2>5. QED
    BY <1>3, <2>1, <2>2, <2>3, <2>4 DEF TicksTyped, T!Numbers
<1>9. Polling'
  BY <1>3 DEF Polling
<1>10. Listening'
  <2> SUFFICES ASSUME NEW t \in Symbols
               PROVE  /\ OfSymbol(handlers'[t], t, opened') /\ OfSymbol(T!HandlersOf(t)', t, opened')
                      /\ list'[t] # T!Current => t \in Elements(todo')
    BY DEF Listening, T!Current
  <2>1. /\ OfSymbol(handlers[t], t, opened) /\ OfSymbol(T!HandlersOf(t), t, opened)
        /\ list[t] # T!Current => t \in Elements(todo)
    BY DEF Listening
  <2>2. CASE t = s
    BY <1>3, <1>4, <1>5, <1>6, <2>1, <2>2
  <2>3. CASE t # s
    <3>1. handlers'[t] = handlers[t] /\ T!HandlersOf(t)' = T!HandlersOf(t)
      BY <1>4, <1>7, <2>3
    <3>2. OfSymbol(handlers[t], t, opened') /\ OfSymbol(T!HandlersOf(t), t, opened')
      BY <1>3, <2>1 DEF OfSymbol
    <3>3. QED
      BY <1>3, <2>1, <3>1, <3>2
  <2>4. QED
    BY <2>2, <2>3
<1>11. Queued'
  BY <1>3 DEF Queued, TickHad
<1>12. ASSUME executor' = "up", NEW q \in Streams PROVE InStep(q)'
  <2>1. InStep(q) /\ UNCHANGED <<queues, lastRead, tick, todo, position>>
    BY <1>3, <1>12
  <2>2. CASE q = r
    <3>1. TickHad(q) = <<>> /\ TickHad(q)' = <<>>
      BY <1>1, <2>1, <2>2 DEF Queued, TickHad
    <3>2. TickHad(q) \in Seq(Nat) /\ Rest(TickHad(q), TickHad(q)')
      BY <3>1 DEF Rest
    <3>3. QED
      BY <2>1, <3>1, <3>2, StaysInStep
  <2>3. CASE q # r
    <3>1. poller' = "handing" <=> poller = "handing"
      BY <1>3
    <3>2. CASE SymbolOf[q] # s
      <4>1. SymbolOf[q] \in Symbols \ {s}
        BY <3>2 DEF T!ConstantsOK
      <4>2. /\ T!HandlersOf(SymbolOf[q])' = T!HandlersOf(SymbolOf[q])
            /\ handlers'[SymbolOf[q]] = handlers[SymbolOf[q]]
        BY <1>4, <1>7, <4>1
      <4>3. (Served(q)' <=> Served(q)) /\ (Live(q)' <=> Live(q))
        BY <4>2 DEF Served, Live, Elements
      <4>4. AboutTo(q)' <=> AboutTo(q)
        BY <2>1, <3>1, <4>2 DEF AboutTo
      <4>5. QED
        BY <2>1, <4>3, <4>4, Undisturbed
    <3>3. CASE SymbolOf[q] = s
      <4> HIDE DEF s, hs, now
      <4>1. /\ SymbolOf[q] = s /\ q # r /\ now \in Seq(Streams) /\ hs \in Seq(Streams)
            /\ T!HandlersOf(s) = now /\ handlers[s] = hs /\ handlers'[s] = Append(hs, r)
        BY <1>2, <1>4, <2>3, <3>3 DEF s, hs, now
      <4>2. /\ Elements(Append(hs, r)) = Elements(hs) \cup {r}
            /\ Elements(Append(now, r)) = Elements(now) \cup {r}
        BY <4>1, OneMore
      <4>3. \A i \in 1..Len(Append(now, r)) :
               Append(now, r)[i] = q => i \in 1..Len(now) /\ now[i] = q
        BY <4>1, Appended
      <4>4. \A i \in 1..Len(now) : i \in 1..Len(Append(now, r)) /\ Append(now, r)[i] = now[i]
        BY <4>1, Appended
      <4>5. (Served(q)' <=> Served(q)) /\ (Live(q)' <=> Live(q))
        <5>1. Served(q) <=> q \in Elements(now)
          BY <4>1 DEF Served
        <5>2. Live(q) <=> Served(q) \/ q \in Elements(hs)
          BY <4>1 DEF Live
        <5>3. Served(q)' <=> q \in Elements(T!HandlersOf(s)')
          BY <4>1 DEF Served, Elements
        <5>4. Live(q)' <=> Served(q)' \/ q \in Elements(Append(hs, r))
          BY <4>1 DEF Live, Elements
        <5>5. QED
          BY <1>6, <4>1, <4>2, <5>1, <5>2, <5>3, <5>4
      <4>6. AboutTo(q)' <=> AboutTo(q)
        BY <1>6, <2>1, <3>1, <4>1, <4>3, <4>4 DEF AboutTo
      <4>7. QED
        BY <2>1, <4>5, <4>6, Undisturbed
    <3>4. QED
      BY <3>2, <3>3
  <2>4. QED
    BY <2>2, <2>3
<1>13. QED
  BY <1>8, <1>9, <1>10, <1>11, <1>12

\* The end of a stream leaves the round with the list it walks over, unless
\* the round is through with the symbol.
LEMMA CloseKeeps ==
    ASSUME T!ConstantsOK, RoundInv, NEW r \in Streams, T!CloseStream(r)
    PROVE  RoundInv'
<1> DEFINE s == SymbolOf[r]
           hs == handlers[s]
           now == T!HandlersOf(s)
           less == Kept(hs, Streams \ {r})
<1> USE DEF RoundInv
<1>1. s \in Symbols /\ r \in open /\ r \in opened
  BY DEF T!ConstantsOK, T!CloseStream, TicksTyped
<1>2. OfSymbol(hs, s, opened) /\ OfSymbol(now, s, opened) /\ (list[s] # T!Current => s \in Elements(todo))
  BY <1>1 DEF Listening
<1>3. /\ open' = open \ {r} /\ handlers' = [handlers EXCEPT ![s] = less]
      /\ list' = [list EXCEPT ![s] = T!ListAfterClose(s)]
      /\ lastRead' = [lastRead EXCEPT ![r] = <<>>]
      /\ UNCHANGED <<connected, executor, known, poller, todo, position, queues, opened, tick>>
  <2>1. T!Kept(hs, Streams \ {r}) = less
    BY DEF T!Kept, Kept
  <2>2. QED
    BY <1>1, <2>1 DEF T!CloseStream, TicksTyped
<1>4. /\ handlers'[s] = less /\ \A t \in Symbols \ {s} : handlers'[t] = handlers[t]
      /\ list'[s] = T!ListAfterClose(s) /\ \A t \in Symbols \ {s} : list'[t] = list[t]
  <2>1. s \in DOMAIN list /\ s \in DOMAIN handlers
    BY <1>1 DEF TicksTyped
  <2>2. QED
    BY <1>1, <1>3, <2>1 DEF TicksTyped
<1>5. less \in Seq(Streams) /\ Elements(less) = Elements(hs) \ {r} /\ OfSymbol(less, s, opened)
  <2>1. hs \in Seq(Streams) /\ Once(hs) /\ OfSymbol(hs, s, opened)
    BY <1>2 DEF OfSymbol
  <2> DEFINE keep == Streams \ {r}
             more == Kept(hs, keep)
  <2>2. Elements(hs) \subseteq Streams
    BY <2>1 DEF Elements
  <2> HIDE DEF hs, keep
  <2>3. more \in Seq(Streams) /\ Elements(more) = Elements(hs) \cap keep /\ Once(more)
    BY <2>1, KeptSet
  <2> HIDE DEF more
  <2>4. Elements(more) = Elements(hs) \ {r}
    BY <2>2, <2>3 DEF keep
  <2>5. OfSymbol(more, s, opened)
    BY <2>1, <2>3, <2>4 DEF OfSymbol
  <2>6. QED
    BY <2>3, <2>4, <2>5 DEF more, keep
<1>6. /\ T!HandlersOf(s)' = now \/ (T!HandlersOf(s)' = less /\ now = hs /\ s \notin Elements(todo))
      /\ list'[s] # T!Current => s \in Elements(todo)
  <2>1. T!Contains(todo, s) <=> s \in Elements(todo)
    BY DEF T!Contains, Elements
  <2>2. CASE list[s] = T!Current /\ T!Contains(todo, s)
    <3>1. list'[s] = T!Replaced(hs) /\ now = hs
      BY <1>4, <2>2 DEF T!ListAfterClose, T!HandlersOf
    <3>2. T!Replaced(hs).of = "replaced" /\ T!Replaced(hs).handlers = hs
      BY DEF T!Replaced
    <3>3. T!Current.of = "current"
      BY DEF T!Current
    <3>4. list'[s] # T!Current /\ list'[s].handlers = hs
      BY <3>1, <3>2, <3>3
    <3>5. T!HandlersOf(s)' = hs
      BY <3>4 DEF T!HandlersOf, T!Current
    <3>6. QED
      BY <2>1, <2>2, <3>1, <3>5
  <2>3. CASE ~(list[s] = T!Current /\ T!Contains(todo, s))
    <3>1. list'[s] = list[s]
      BY <1>4, <2>3 DEF T!ListAfterClose
    <3>2. CASE list[s] = T!Current
      <4>1. s \notin Elements(todo)
        BY <2>1, <2>3, <3>2
      <4>2. T!HandlersOf(s)' = handlers'[s] /\ now = hs
        BY <3>1, <3>2 DEF T!HandlersOf, T!Current
      <4>3. QED
        BY <1>4, <3>1, <3>2, <4>1, <4>2
    <3>3. CASE list[s] # T!Current
      <4>1. T!HandlersOf(s)' = now
        BY <3>1, <3>3 DEF T!HandlersOf, T!Current
      <4>2. QED
        BY <1>2, <3>3, <4>1
    <3>4. QED
      BY <3>2, <3>3
  <2>4. QED
    BY <2>2, <2>3
<1>7. \A t \in Symbols \ {s} : T!HandlersOf(t)' = T!HandlersOf(t)
  BY <1>4 DEF T!HandlersOf, T!Current
<1>8. TicksTyped'
  <2>1. handlers' \in [Symbols -> Seq(Streams)]
    BY <1>3, <1>5 DEF TicksTyped
  <2>2. list' = [t \in Symbols |-> list'[t]]
    BY <1>3 DEF TicksTyped
  <2>3. lastRead' \in [Streams -> {<<>>} \cup {<<n>> : n \in T!Numbers}]
    BY <1>3 DEF TicksTyped
  <2>4. open' \subseteq opened'
    BY <1>3 DEF TicksTyped
  <2>5. QED
    BY <1>3, <2>1, <2>2, <2>3, <2>4 DEF TicksTyped, T!Numbers
<1>9. Polling'
  BY <1>3 DEF Polling
<1>10. Listening'
  <2> SUFFICES ASSUME NEW t \in Symbols
               PROVE  /\ OfSymbol(handlers'[t], t, opened) /\ OfSymbol(T!HandlersOf(t)', t, opened)
                      /\ list'[t] # T!Current => t \in Elements(todo)
    BY <1>3 DEF Listening, T!Current
  <2>1. CASE t = s
    BY <1>2, <1>4, <1>5, <1>6, <2>1
  <2>2. CASE t # s
    BY <1>4, <1>7, <2>2 DEF Listening
  <2>3. QED
    BY <2>1, <2>2
<1>11. TickHad(r)' = queues[r] /\ \A q \in Streams \ {r} : TickHad(q)' = TickHad(q)
  <2>1. queues[r] \in Seq(Nat)
    BY TickTypes
  <2>2. lastRead'[r] = <<>> /\ \A q \in Streams \ {r} : lastRead'[q] = lastRead[q]
    BY <1>3 DEF TicksTyped
  <2>3. <<>> \o queues[r] = queues[r]
    BY <2>1
  <2>4. QED
    BY <1>3, <2>2, <2>3 DEF TickHad
<1>12. Queued'
  BY <1>1, <1>3, <1>11 DEF Queued
<1>13. ASSUME executor' = "up", NEW q \in Streams PROVE InStep(q)'
  <2>1. InStep(q) /\ UNCHANGED <<queues, tick, todo, position, poller>>
    BY <1>3, <1>13
  <2>2. TickHad(q) \in Seq(Nat) /\ TickHad(q)' \in Seq(Nat) /\ Rest(TickHad(q), TickHad(q)')
    <3>1. TickHad(q) \in Seq(Nat) /\ queues[q] \in Seq(Nat) /\ Rest(TickHad(q), queues[q])
      BY TickTypes
    <3>2. QED
      BY <1>11, <3>1 DEF Rest
  <2>3. /\ Live(q)' => Live(q)
        /\ Live(q)' /\ Served(q) => Served(q)'
        /\ Live(q)' => (AboutTo(q)' <=> AboutTo(q))
    <3>1. CASE SymbolOf[q] # s
      <4>1. SymbolOf[q] \in Symbols \ {s}
        BY <3>1 DEF T!ConstantsOK
      <4>2. /\ T!HandlersOf(SymbolOf[q])' = T!HandlersOf(SymbolOf[q])
            /\ handlers'[SymbolOf[q]] = handlers[SymbolOf[q]]
        BY <1>4, <1>7, <4>1
      <4>3. (Served(q)' <=> Served(q)) /\ (Live(q)' <=> Live(q))
        BY <4>2 DEF Served, Live, Elements
      <4>4. AboutTo(q)' <=> AboutTo(q)
        BY <2>1, <4>2 DEF AboutTo
      <4>5. QED
        BY <4>3, <4>4
    <3>2. CASE SymbolOf[q] = s
      <4> HIDE DEF s, hs, now, less
      <4>1. /\ SymbolOf[q] = s /\ T!HandlersOf(s) = now /\ handlers[s] = hs /\ handlers'[s] = less
        BY <1>4, <3>2 DEF s, hs, now
      <4>2. Served(q) <=> q \in Elements(now)
        BY <4>1 DEF Served
      <4>3. Live(q) <=> Served(q) \/ q \in Elements(hs)
        BY <4>1 DEF Live
      <4>4. Served(q)' <=> q \in Elements(T!HandlersOf(s)')
        BY <4>1 DEF Served, Elements
      <4>5. Live(q)' <=> Served(q)' \/ q \in Elements(less)
        BY <4>1 DEF Live, Elements
      <4>6. CASE T!HandlersOf(s)' = now
        <5>1. AboutTo(q)' <=> AboutTo(q)
          BY <2>1, <4>1, <4>6 DEF AboutTo
        <5>2. QED
          BY <1>5, <4>2, <4>3, <4>4, <4>5, <4>6, <5>1
      <4>7. CASE T!HandlersOf(s)' = less /\ now = hs /\ s \notin Elements(todo)
        <5>1. poller = "handing" => s # Head(todo)
          <6>1. poller = "handing" => todo # <<>> /\ todo \in Seq(Symbols)
            BY DEF Polling, TicksTyped
          <6>2. QED
            BY <4>7, <6>1, WithoutFirst
        <5>2. ~AboutTo(q) /\ ~AboutTo(q)'
          BY <2>1, <4>1, <5>1 DEF AboutTo
        <5>3. QED
          BY <1>5, <4>2, <4>3, <4>4, <4>5, <4>7, <5>2
      <4>8. QED
        BY <1>6, <4>6, <4>7
    <3>3. QED
      BY <3>1, <3>2
  <2>4. tick'[SymbolOf[q]] = tick[SymbolOf[q]]
    BY <2>1
  <2>5. QED
    BY <2>1, <2>2, <2>3, <2>4, StaysInStep
<1>14. QED
  BY <1>8, <1>9, <1>10, <1>12, <1>13

\* A reader takes the first tick in its queue.
LEMMA ReadKeeps ==
    ASSUME T!ConstantsOK, RoundInv, NEW r \in Streams, T!ReadTick(r)
    PROVE  RoundInv'
<1> USE DEF RoundInv
<1>1. /\ r \in open /\ queues[r] # <<>>
      /\ lastRead' = [lastRead EXCEPT ![r] = <<Head(queues[r])>>]
      /\ queues' = [queues EXCEPT ![r] = Tail(queues[r])]
      /\ UNCHANGED <<connected, executor, known, handlers, poller, todo, list, position, open,
                      opened, tick>>
  BY DEF T!ReadTick
<1>2. /\ Head(queues[r]) \in T!Numbers /\ Tail(queues[r]) \in Seq(T!Numbers)
      /\ Len(Tail(queues[r])) <= TickQueue
  <2> DEFINE q == queues[r]
             Val == T!Numbers
  <2>1. q \in Seq(Val) /\ q # <<>> /\ Len(q) <= TickQueue /\ TickQueue \in Nat
    BY <1>1 DEF TicksTyped, T!ConstantsOK
  <2> HIDE DEF q, Val
  <2>2. Head(q) \in Val /\ Tail(q) \in Seq(Val) /\ Len(q) \in Nat /\ Len(Tail(q)) = Len(q) - 1
    BY <2>1, FirstOfList
  <2>3. Head(q) \in Val /\ Tail(q) \in Seq(Val) /\ Len(Tail(q)) <= TickQueue
    BY <2>1, <2>2
  <2>4. QED
    BY <2>3 DEF q, Val
<1>3. TicksTyped'
  <2>1. queues' \in [Streams -> Seq(T!Numbers)]
    BY <1>1, <1>2 DEF TicksTyped
  <2>2. \A q \in Streams : Len(queues'[q]) <= TickQueue
    BY <1>1, <1>2 DEF TicksTyped
  <2>3. lastRead' \in [Streams -> {<<>>} \cup {<<n>> : n \in T!Numbers}]
    BY <1>1, <1>2 DEF TicksTyped
  <2>4. QED
    BY <1>1, <2>1, <2>2, <2>3 DEF TicksTyped, T!Numbers
<1>4. Polling'
  BY <1>1 DEF Polling
<1>5. \A s \in Symbols : T!HandlersOf(s)' = T!HandlersOf(s)
  BY <1>1 DEF T!HandlersOf, T!Current
<1>6. Listening'
  <2> SUFFICES ASSUME NEW s \in Symbols
               PROVE  /\ OfSymbol(handlers'[s], s, opened') /\ OfSymbol(T!HandlersOf(s)', s, opened')
                      /\ list'[s] # T!Current => s \in Elements(todo')
    BY DEF Listening, T!Current
  <2>1. /\ OfSymbol(handlers[s], s, opened) /\ OfSymbol(T!HandlersOf(s), s, opened)
        /\ list[s] # T!Current => s \in Elements(todo)
    BY DEF Listening
  <2>2. QED
    BY <1>1, <1>5, <2>1
<1>7. TickHad(r)' = queues[r] /\ \A q \in Streams \ {r} : TickHad(q)' = TickHad(q)
  <2>1. queues[r] \in Seq(Nat)
    BY TickTypes
  <2>2. <<Head(queues[r])>> \o Tail(queues[r]) = queues[r]
    BY <1>1, <2>1, FirstOfList
  <2>3. /\ lastRead'[r] = <<Head(queues[r])>> /\ queues'[r] = Tail(queues[r])
        /\ \A q \in Streams \ {r} : lastRead'[q] = lastRead[q] /\ queues'[q] = queues[q]
    BY <1>1 DEF TicksTyped
  <2>4. QED
    BY <2>2, <2>3 DEF TickHad
<1>8. Queued'
  BY <1>1, <1>7 DEF Queued, TicksTyped
<1>9. ASSUME executor' = "up", NEW q \in Streams PROVE InStep(q)'
  <2>1. InStep(q) /\ SymbolOf[q] \in Symbols /\ tick'[SymbolOf[q]] = tick[SymbolOf[q]]
    BY <1>1, <1>9 DEF T!ConstantsOK
  <2>2. TickHad(q) \in Seq(Nat) /\ TickHad(q)' \in Seq(Nat) /\ Rest(TickHad(q), TickHad(q)')
    <3>1. TickHad(q) \in Seq(Nat) /\ queues[q] \in Seq(Nat) /\ Rest(TickHad(q), queues[q])
      BY TickTypes
    <3>2. QED
      BY <1>7, <3>1 DEF Rest
  <2>3. (Served(q)' <=> Served(q)) /\ (Live(q)' <=> Live(q))
    BY <1>1, <1>5, <2>1 DEF Served, Live, Elements
  <2>4. AboutTo(q)' <=> AboutTo(q)
    BY <1>1, <1>5, <2>1 DEF AboutTo
  <2>5. QED
    BY <2>1, <2>2, <2>3, <2>4, StaysInStep
<1>10. QED
  BY <1>3, <1>4, <1>6, <1>8, <1>9

\* The poller has a tick of the next symbol, which is due to every stream in
\* the list of the round.
LEMMA PollKeeps ==
    ASSUME T!ConstantsOK, RoundInv, T!PollTick
    PROVE  RoundInv'
<1> DEFINE s == Head(todo)
<1> USE DEF RoundInv
<1>1. /\ poller = "polling" /\ todo # <<>> /\ poller' = "handing"
      /\ tick' = [tick EXCEPT ![s] = (tick[s] + 1) % Wrap]
      /\ UNCHANGED <<connected, executor, known, handlers, todo, list, position, queues, open,
                      opened, lastRead>>
  BY DEF T!PollTick
<1>2. s \in Symbols /\ position = 1
  <2>1. todo \in Seq(Symbols) /\ position = 1
    BY <1>1 DEF TicksTyped, Polling
  <2>2. QED
    BY <1>1, <2>1, FirstOfList
<1>3. tick[s] \in Nat /\ (tick[s] + 1) % Wrap \in T!Numbers
  BY <1>2 DEF TicksTyped, T!Numbers, T!ConstantsOK
<1>4. tick'[s] = (tick[s] + 1) % Wrap /\ \A t \in Symbols \ {s} : tick'[t] = tick[t]
  BY <1>1, <1>2 DEF TicksTyped
<1>5. TicksTyped'
  <2>1. tick' \in [Symbols -> T!Numbers]
    BY <1>1, <1>3 DEF TicksTyped
  <2>2. QED
    BY <1>1, <2>1 DEF TicksTyped, T!Numbers
<1>6. Polling'
  BY <1>1 DEF Polling
<1>7. \A t \in Symbols : T!HandlersOf(t)' = T!HandlersOf(t)
  BY <1>1 DEF T!HandlersOf, T!Current
<1>8. Listening'
  <2> SUFFICES ASSUME NEW t \in Symbols
               PROVE  /\ OfSymbol(handlers'[t], t, opened') /\ OfSymbol(T!HandlersOf(t)', t, opened')
                      /\ list'[t] # T!Current => t \in Elements(todo')
    BY DEF Listening, T!Current
  <2>1. /\ OfSymbol(handlers[t], t, opened) /\ OfSymbol(T!HandlersOf(t), t, opened)
        /\ list[t] # T!Current => t \in Elements(todo)
    BY DEF Listening
  <2>2. QED
    BY <1>1, <1>7, <2>1
<1>9. \A q \in Streams : TickHad(q)' = TickHad(q)
  BY <1>1 DEF TickHad
<1>10. Queued'
  BY <1>1, <1>9 DEF Queued
<1>11. ASSUME executor' = "up", NEW q \in Streams PROVE InStep(q)'
  <2>1. InStep(q) /\ SymbolOf[q] \in Symbols /\ TickHad(q)' = TickHad(q)
    BY <1>1, <1>9, <1>11 DEF T!ConstantsOK
  <2>2. (Served(q)' <=> Served(q)) /\ (Live(q)' <=> Live(q))
    BY <1>1, <1>7, <2>1 DEF Served, Live, Elements
  <2>3. ~AboutTo(q)
    BY <1>1 DEF AboutTo
  <2>4. CASE SymbolOf[q] # s
    <3>1. ~AboutTo(q)' /\ tick'[SymbolOf[q]] = tick[SymbolOf[q]]
      BY <1>1, <1>4, <2>1, <2>4 DEF AboutTo
    <3>2. UNCHANGED <<queues, lastRead>>
      BY <1>1
    <3>3. QED
      BY <2>1, <2>2, <2>3, <3>1, <3>2, Undisturbed
  <2>5. CASE SymbolOf[q] = s
    <3>1. Served(q) => AboutTo(q)'
      <4>1. Served(q) => \E i \in 1..Len(T!HandlersOf(s)) : T!HandlersOf(s)[i] = q
        BY <2>5 DEF Served, Elements
      <4>2. \A i \in 1..Len(T!HandlersOf(s)) : i >= position'
        BY <1>1, <1>2
      <4>3. T!HandlersOf(SymbolOf[q])' = T!HandlersOf(s)
        BY <1>2, <1>7, <2>5
      <4>4. poller' = "handing" /\ SymbolOf[q] = Head(todo)'
        BY <1>1, <2>5
      <4>5. QED
        BY <4>1, <4>2, <4>3, <4>4 DEF AboutTo
    <3> DEFINE h == TickHad(q)
               n == tick[s]
               m == (tick[s] + 1) % Wrap
    <3>2. T!Consecutive(h) /\ (Live(q) => UpTo(h, n, FALSE)) /\ (Live(q) /\ ~Served(q) => h = <<>>)
      BY <2>1, <2>3, <2>5 DEF InStep, UpTo
    <3>3. m = (n + 1) % Wrap
      OBVIOUS
    <3>4. TickHad(q)' = h /\ tick'[SymbolOf[q]] = m
      BY <1>4, <2>1, <2>5
    <3> HIDE DEF h, n, m
    <3>5. Live(q)' => UpTo(h, m, AboutTo(q)')
      BY <2>2, <3>1, <3>2, <3>3 DEF UpTo
    <3>6. QED
      BY <2>2, <3>2, <3>4, <3>5 DEF InStep, UpTo, T!Consecutive
  <2>6. QED
    BY <2>4, <2>5
<1>12. QED
  BY <1>5, <1>6, <1>8, <1>10, <1>11

\* The poller is through with the symbol: no stream is left that the tick in
\* hand is still to go to.
LEMMA AfterKeeps ==
    ASSUME T!ConstantsOK, RoundInv, T!AfterSymbol, todo # <<>>,
           \/ poller = "polling"
           \/ poller = "handing" /\ position > Len(T!HandlersOf(Head(todo))),
           UNCHANGED <<connected, executor, known, handlers, queues, open, opened, tick, lastRead>>
    PROVE  RoundInv'
<1> USE DEF RoundInv
<1>0. /\ Head(todo) \in Symbols /\ Tail(todo) \in Seq(Symbols)
      /\ Elements(todo) = {Head(todo)} \cup Elements(Tail(todo))
  <2>1. todo \in Seq(Symbols)
    BY DEF TicksTyped
  <2>2. QED
    BY <2>1, WithoutFirst
<1> PICK s \in Symbols : s = Head(todo)
  BY <1>0
<1>1. /\ todo' = Tail(todo) /\ poller' = "polling" /\ position' = 1
      /\ list' = [list EXCEPT ![s] = T!Current]
  BY DEF T!AfterSymbol
<1>2. /\ s \in Symbols /\ Tail(todo) \in Seq(Symbols)
      /\ Elements(todo) = {s} \cup Elements(Tail(todo))
  BY <1>0
<1>3. list'[s] = T!Current /\ \A t \in Symbols \ {s} : list'[t] = list[t]
  <2>1. s \in DOMAIN list
    BY <1>2 DEF TicksTyped
  <2>2. QED
    BY <1>1, <2>1
<1>4. T!HandlersOf(s)' = handlers[s] /\ \A t \in Symbols \ {s} : T!HandlersOf(t)' = T!HandlersOf(t)
  BY <1>3 DEF T!HandlersOf, T!Current
<1>5. TicksTyped'
  <2>1. list' = [t \in Symbols |-> list'[t]]
    BY <1>1 DEF TicksTyped
  <2>2. QED
    BY <1>1, <1>2, <2>1 DEF TicksTyped, T!Numbers
<1>6. Polling'
  BY <1>1 DEF Polling
<1>7. Listening'
  <2> SUFFICES ASSUME NEW t \in Symbols
               PROVE  /\ OfSymbol(handlers[t], t, opened) /\ OfSymbol(T!HandlersOf(t)', t, opened)
                      /\ list'[t] # T!Current => t \in Elements(Tail(todo))
    BY <1>1 DEF Listening, T!Current
  <2>1. /\ OfSymbol(handlers[t], t, opened) /\ OfSymbol(T!HandlersOf(t), t, opened)
        /\ list[t] # T!Current => t \in Elements(todo)
    BY DEF Listening
  <2>2. QED
    BY <1>2, <1>3, <1>4, <2>1
<1>8. Queued'
  BY DEF Queued, TickHad
<1>9. ASSUME executor' = "up", NEW q \in Streams PROVE InStep(q)'
  <2>1. InStep(q) /\ SymbolOf[q] \in Symbols /\ tick'[SymbolOf[q]] = tick[SymbolOf[q]]
    BY <1>9 DEF T!ConstantsOK
  <2>2. ~AboutTo(q) /\ ~AboutTo(q)'
    <3>1. T!HandlersOf(s) \in Seq(Streams) /\ position \in Nat
      BY <1>2 DEF Listening, OfSymbol, TicksTyped
    <3>2. QED
      BY <1>1, <3>1 DEF AboutTo
  <2>3. Live(q)' => Live(q) /\ (Served(q) => Served(q)')
    <3>1. CASE SymbolOf[q] = s
      <4>1. Served(q)' <=> q \in Elements(handlers[s])
        BY <1>4, <3>1 DEF Served, Elements
      <4>2. Live(q)' <=> Served(q)' \/ q \in Elements(handlers[s])
        BY <3>1 DEF Live, Elements
      <4>3. q \in Elements(handlers[s]) => Live(q)
        BY <3>1 DEF Live
      <4>4. QED
        BY <4>1, <4>2, <4>3
    <3>2. CASE SymbolOf[q] # s
      BY <1>4, <2>1, <3>2 DEF Served, Live, Elements
    <3>3. QED
      BY <3>1, <3>2
  <2>4. QED
    BY <2>1, <2>2, <2>3, Undisturbed
<1>10. QED
  BY <1>5, <1>6, <1>7, <1>8, <1>9

\* What comes before a list comes before the longer list.
LEMMA BeforeAppend ==
    ASSUME NEW v, NEW q \in Seq(Nat), NEW n \in Nat, v = <<>> \/ \E x \in Nat : v = <<x>>
    PROVE  v \o Append(q, n) = Append(v \o q, n)
<1>1. CASE v = <<>>
  BY <1>1
<1>2. ASSUME NEW x \in Nat, v = <<x>> PROVE v \o Append(q, n) = Append(v \o q, n)
  <2>1. <<x>> \o Append(q, n) = Append(<<x>> \o q, n)
    OBVIOUS
  <2>2. QED
    BY <1>2, <2>1
<1>3. QED
  BY <1>1, <1>2

\* The next stream in the list gets the tick in hand, which was due to it and
\* is no longer.
LEMMA HandKeeps ==
    ASSUME T!ConstantsOK, RoundInv, T!HandTick
    PROVE  RoundInv'
<1> USE DEF RoundInv
<1>1. todo \in Seq(Symbols) /\ Head(todo) \in Symbols /\ poller = "handing"
  <2>1. todo \in Seq(Symbols) /\ todo # <<>> /\ poller = "handing"
    BY DEF TicksTyped, Polling, T!HandTick
  <2>2. QED
    BY <2>1, FirstOfList
<1> PICK s \in Symbols : s = Head(todo)
  BY <1>1
<1>2. T!HandlersOf(s) \in Seq(Streams) /\ OfSymbol(T!HandlersOf(s), s, opened)
  BY DEF Listening, OfSymbol
<1>3. position \in 1..Len(T!HandlersOf(s)) /\ T!HandlersOf(s)[position] \in Streams
  BY <1>2 DEF T!HandTick, TicksTyped
<1> PICK r \in Streams : r = T!HandlersOf(s)[position]
  BY <1>3
<1>4. /\ Len(queues[r]) < TickQueue
      /\ queues' = [queues EXCEPT ![r] = Append(queues[r], tick[s])]
      /\ position' = position + 1
      /\ UNCHANGED <<connected, executor, known, handlers, poller, todo, list, open, opened,
                      tick, lastRead>>
  BY DEF T!HandTick
<1>5. SymbolOf[r] = s /\ r \in opened /\ Served(r)
  BY <1>2, <1>3 DEF OfSymbol, Elements, Served
<1>6. tick[s] \in T!Numbers /\ tick[s] \in Nat
  BY <1>5, TickTypes DEF TicksTyped
<1>7. /\ Append(queues[r], tick[s]) \in Seq(T!Numbers)
      /\ Len(Append(queues[r], tick[s])) <= TickQueue
      /\ lastRead[r] \o Append(queues[r], tick[s]) = Append(TickHad(r), tick[s])
  <2> DEFINE q == queues[r]
             Val == T!Numbers
             n == tick[s]
  <2>1. q \in Seq(Val) /\ n \in Val /\ Len(q) < TickQueue /\ TickQueue \in Nat
    BY <1>4, <1>6 DEF TicksTyped, T!ConstantsOK
  <2>2. q \in Seq(Nat) /\ n \in Nat
    BY <1>6, TickTypes
  <2>3. lastRead[r] = <<>> \/ \E x \in Nat : lastRead[r] = <<x>>
    BY TickTypes DEF TicksTyped
  <2>4. TickHad(r) = lastRead[r] \o q
    BY DEF TickHad
  <2> HIDE DEF q, n, Val
  <2>5. Append(q, n) \in Seq(Val) /\ Len(Append(q, n)) <= TickQueue
    BY <2>1, Appended
  <2>6. lastRead[r] \o Append(q, n) = Append(TickHad(r), n)
    BY <2>2, <2>3, <2>4, BeforeAppend
  <2>7. QED
    BY <2>5, <2>6 DEF q, n, Val
<1>8. TicksTyped'
  <2>1. queues' \in [Streams -> Seq(T!Numbers)]
    BY <1>4, <1>7 DEF TicksTyped
  <2>2. \A q \in Streams : Len(queues'[q]) <= TickQueue
    BY <1>4, <1>7 DEF TicksTyped
  <2>3. position' \in Nat \ {0}
    BY <1>4 DEF TicksTyped
  <2>4. QED
    BY <1>4, <2>1, <2>2, <2>3 DEF TicksTyped, T!Numbers
<1>9. Polling'
  BY <1>1, <1>4 DEF Polling
<1>10. \A t \in Symbols : T!HandlersOf(t)' = T!HandlersOf(t)
  BY <1>4 DEF T!HandlersOf, T!Current
<1>11. Listening'
  <2> SUFFICES ASSUME NEW t \in Symbols
               PROVE  /\ OfSymbol(handlers'[t], t, opened') /\ OfSymbol(T!HandlersOf(t)', t, opened')
                      /\ list'[t] # T!Current => t \in Elements(todo')
    BY DEF Listening, T!Current
  <2>1. /\ OfSymbol(handlers[t], t, opened) /\ OfSymbol(T!HandlersOf(t), t, opened)
        /\ list[t] # T!Current => t \in Elements(todo)
    BY DEF Listening
  <2>2. QED
    BY <1>4, <1>10, <2>1
<1>12. /\ TickHad(r)' = Append(TickHad(r), tick[s])
       /\ \A q \in Streams \ {r} : TickHad(q)' = TickHad(q)
  <2>1. queues'[r] = Append(queues[r], tick[s]) /\ \A q \in Streams \ {r} : queues'[q] = queues[q]
    BY <1>4 DEF TicksTyped
  <2>2. QED
    BY <1>4, <1>7, <2>1 DEF TickHad
<1>13. Queued'
  BY <1>4, <1>5, <1>12 DEF Queued
<1>14. ASSUME executor' = "up", NEW q \in Streams PROVE InStep(q)'
  <2>1. InStep(q) /\ SymbolOf[q] \in Symbols /\ tick'[SymbolOf[q]] = tick[SymbolOf[q]]
    BY <1>4, <1>14 DEF T!ConstantsOK
  <2>2. (Served(q)' <=> Served(q)) /\ (Live(q)' <=> Live(q))
    BY <1>4, <1>10, <2>1 DEF Served, Live, Elements
  <2> DEFINE now == T!HandlersOf(s)
  <2>3. now \in Seq(Streams) /\ Once(now) /\ position \in 1..Len(now) /\ now[position] = r
    BY <1>2, <1>3 DEF OfSymbol
  <2>4. T!HandlersOf(s)' = now
    BY <1>10
  <2>5. CASE q # r
    <3>1. AboutTo(q)' <=> AboutTo(q)
      <4>1. CASE SymbolOf[q] = s
        <5> HIDE DEF now
        <5>1. /\ AboutTo(q) <=> \E i \in 1..Len(now) : i >= position /\ now[i] = q
              /\ AboutTo(q)' <=> \E i \in 1..Len(now) : i >= position' /\ now[i] = q
          BY <1>1, <1>4, <2>4, <4>1 DEF AboutTo, now
        <5>2. \A i \in 1..Len(now) : now[i] = q => (i >= position <=> i >= position')
          BY <1>4, <2>3, <2>5
        <5>3. QED
          BY <5>1, <5>2
      <4>2. CASE SymbolOf[q] # s
        BY <1>4, <4>2 DEF AboutTo
      <4>3. QED
        BY <4>1, <4>2
    <3>2. TickHad(q)' = TickHad(q) /\ TickHad(q) \in Seq(Nat)
      BY <1>12, <2>5, TickTypes
    <3>3. Rest(TickHad(q), TickHad(q)')
      BY <3>2 DEF Rest
    <3>4. QED
      BY <2>1, <2>2, <3>1, <3>2, <3>3, StaysInStep
  <2>6. CASE q = r
    <3>1. AboutTo(r)
      BY <1>1, <1>3, <1>5 DEF AboutTo
    <3>2. ~AboutTo(r)'
      <4> HIDE DEF now
      <4>1. AboutTo(r)' => \E i \in 1..Len(now) : i >= position' /\ now[i] = r
        BY <1>5, <2>4 DEF AboutTo, now
      <4>2. \A i \in 1..Len(now) : now[i] = r => i = position
        BY <2>3 DEF Once
      <4>3. QED
        BY <1>4, <2>3, <4>1, <4>2
    <3> DEFINE h == TickHad(r)
               n == tick[s]
    <3>3. /\ h \in Seq(Nat) /\ n \in Nat /\ T!Consecutive(h)
          /\ h # <<>> => n = (h[Len(h)] + 1) % Wrap
      BY <1>5, <1>6, <2>1, <2>6, <3>1, TickTypes DEF InStep, Live, UpTo
    <3>4. TickHad(r)' = Append(h, n) /\ tick'[SymbolOf[r]] = n
      BY <1>5, <1>12, <2>1, <2>6
    <3> HIDE DEF h, n
    <3>5. T!Consecutive(Append(h, n)) /\ Append(h, n)[Len(Append(h, n))] = n
      BY <3>3, NextTick
    <3>6. UpTo(TickHad(r)', n, AboutTo(r)')
      BY <3>2, <3>4, <3>5 DEF UpTo
    <3>7. Served(r)'
      BY <1>5, <2>2, <2>6
    <3>8. QED
      BY <2>6, <3>4, <3>5, <3>6, <3>7 DEF InStep, UpTo, T!Consecutive
  <2>7. QED
    BY <2>5, <2>6
<1>15. QED
  BY <1>8, <1>9, <1>11, <1>13, <1>14

\* No step of the market data provider puts a stream out of step.
LEMMA RoundStep == T!ConstantsOK /\ RoundInv /\ [T!Next]_(T!vars) => RoundInv'
<1> SUFFICES ASSUME T!ConstantsOK, RoundInv, [T!Next]_(T!vars) PROVE RoundInv'
  OBVIOUS
<1>1. /\ connected \in BOOLEAN /\ todo \in Seq(Symbols) /\ known \in Seq(Symbols)
      /\ poller \in {"none", "checking", "polling", "handing"} /\ open \subseteq opened
      /\ poller \in {"none", "checking"} => todo = <<>>
      /\ poller = "handing" => todo # <<>>
  BY DEF RoundInv, TicksTyped, Polling
<1>2. ASSUME NEW succeeds \in BOOLEAN, T!Connect(succeeds) PROVE RoundInv'
  BY <1>1, <1>2, IdleKeeps DEF T!Connect
<1>3. CASE T!Disconnect
  BY <1>3, DisconnectKeeps
<1>4. ASSUME NEW r \in Streams, T!OpenStream(r) \/ T!CloseStream(r) \/ T!ReadTick(r) PROVE RoundInv'
  BY <1>4, OpenKeeps, CloseKeeps, ReadKeeps
<1>5. CASE T!CheckConnected
  <2>1. /\ poller' \in {"none", "polling"} /\ todo' \in Seq(Symbols)
        /\ poller' # "polling" => todo' = <<>>
    BY <1>1, <1>5 DEF T!CheckConnected
  <2>2. QED
    BY <1>1, <1>5, <2>1, IdleKeeps DEF T!CheckConnected
<1>6. CASE T!PollTick
  BY <1>6, PollKeeps
<1>7. CASE T!PollNothing
  BY <1>7, AfterKeeps DEF T!PollNothing
<1>8. CASE T!HandTick
  BY <1>8, HandKeeps
<1>9. CASE T!NextSymbol
  BY <1>1, <1>9, AfterKeeps DEF T!NextSymbol
<1>10. CASE T!SleepAndWake
  BY <1>1, <1>10, IdleKeeps DEF T!SleepAndWake
<1>11. CASE UNCHANGED T!vars
  BY <1>1, <1>11, IdleKeeps DEF T!vars
<1>12. QED
  BY <1>2, <1>3, <1>4, <1>5, <1>6, <1>7, <1>8, <1>9, <1>10, <1>11 DEF T!Next, T!PollerStep

\* After disconnect nothing is polled any more, and what the streams have had
\* has no gaps still.
Ended ==
    executor = "down" =>
        /\ connected = FALSE /\ poller \in {"none", "checking"}
        /\ \A r \in Streams : T!Consecutive(TickHad(r))

TicksInv == RoundInv /\ Ended

\* That is what TypeOK and NoGaps say.
LEMMA TicksMean == TicksInv => T!TypeOK /\ T!NoGaps
<1> SUFFICES ASSUME TicksInv PROVE T!TypeOK /\ T!NoGaps
  OBVIOUS
<1>1. executor \in {"up", "down"}
  BY DEF TicksInv, RoundInv, TicksTyped
<1>2. T!NoGaps
  BY <1>1 DEF TicksInv, RoundInv, Ended, InStep, TickHad, T!NoGaps
<1>3. QED
  BY <1>2, RoundMean DEF TicksInv

\* Initially the provider is not disconnected.
LEMMA TicksInit == T!ConstantsOK /\ T!Init => TicksInv
  BY RoundInit DEF TicksInv, Ended, T!Init

\* A list of numbers that a step leaves alone or shortens has no gaps after it.
LEMMA StaysConsecutive ==
    ASSUME T!ConstantsOK, TicksTyped, NEW r \in Streams, T!Consecutive(TickHad(r)),
           TickHad(r)' = TickHad(r) \/ TickHad(r)' = queues[r]
    PROVE  T!Consecutive(TickHad(r)')
<1> DEFINE h == TickHad(r)
           q == queues[r]
<1>1. h \in Seq(Nat) /\ q \in Seq(Nat) /\ Rest(h, q)
  BY TickTypes
<1>2. T!Consecutive(h)
  OBVIOUS
<1> HIDE DEF h, q
<1>3. T!Consecutive(q)
  BY <1>1, <1>2, LaterTick
<1>4. QED
  BY <1>2, <1>3 DEF h, q

\* What the streams have had after a step of a provider that is disconnected.
LEMMA EndedStep ==
    ASSUME T!ConstantsOK, TicksInv, [T!Next]_(T!vars), executor = "down"
    PROVE  /\ connected' = FALSE /\ poller' \in {"none", "checking"}
           /\ \A r \in Streams : TickHad(r)' = TickHad(r) \/ TickHad(r)' = queues[r]
<1>1. connected = FALSE /\ poller \in {"none", "checking"} /\ TicksTyped
  BY DEF TicksInv, RoundInv, Ended
<1>2. ~T!PollTick /\ ~T!PollNothing /\ ~T!HandTick /\ ~T!NextSymbol /\ ~T!SleepAndWake /\ ~T!Disconnect
      /\ \A succeeds \in BOOLEAN : ~T!Connect(succeeds)
  BY <1>1 DEF T!PollTick, T!PollNothing, T!HandTick, T!NextSymbol, T!SleepAndWake, T!Disconnect, T!Connect
<1>3. CASE T!CheckConnected \/ UNCHANGED T!vars
  <2>1. /\ UNCHANGED <<connected, queues, lastRead>>
        /\ poller' \in {"none", "checking"}
    BY <1>1, <1>3 DEF T!CheckConnected, T!vars
  <2>2. QED
    BY <1>1, <2>1 DEF TickHad
<1>4. ASSUME NEW r \in Streams, T!OpenStream(r)
      PROVE  /\ UNCHANGED <<connected, queues, lastRead>>
             /\ poller' \in {"none", "checking"}
  BY <1>1, <1>4 DEF T!OpenStream
<1>5. ASSUME NEW r \in Streams, T!CloseStream(r) \/ T!ReadTick(r), NEW q \in Streams
      PROVE  /\ UNCHANGED <<connected, poller>>
             /\ TickHad(q)' = TickHad(q) \/ TickHad(q)' = queues[q]
  <2>1. UNCHANGED <<connected, poller>>
    BY <1>5 DEF T!CloseStream, T!ReadTick
  <2>2. queues[q] \in Seq(Nat)
    BY <1>1, TickTypes
  <2>3. CASE q # r
    <3>1. lastRead'[q] = lastRead[q] /\ queues'[q] = queues[q]
      BY <1>1, <1>5, <2>3 DEF T!CloseStream, T!ReadTick, TicksTyped
    <3>2. QED
      BY <2>1, <3>1 DEF TickHad
  <2>4. CASE q = r /\ T!CloseStream(r)
    <3>1. lastRead'[r] = <<>> /\ queues'[r] = queues[r]
      BY <1>1, <2>4 DEF T!CloseStream, TicksTyped
    <3>2. <<>> \o queues[q] = queues[q]
      BY <2>2
    <3>3. QED
      BY <2>1, <2>4, <3>1, <3>2 DEF TickHad
  <2>5. CASE q = r /\ T!ReadTick(r)
    <3>1. queues[r] # <<>> /\ lastRead'[r] = <<Head(queues[r])>> /\ queues'[r] = Tail(queues[r])
      BY <1>1, <2>5 DEF T!ReadTick, TicksTyped
    <3>2. <<Head(queues[q])>> \o Tail(queues[q]) = queues[q]
      BY <2>2, <2>5, <3>1, FirstOfList
    <3>3. QED
      BY <2>1, <2>5, <3>1, <3>2 DEF TickHad
  <2>6. QED
    BY <1>5, <2>3, <2>4, <2>5
<1>6. ASSUME NEW r \in Streams, T!OpenStream(r) \/ T!CloseStream(r) \/ T!ReadTick(r)
      PROVE  /\ connected' = FALSE /\ poller' \in {"none", "checking"}
             /\ \A q \in Streams : TickHad(q)' = TickHad(q) \/ TickHad(q)' = queues[q]
  <2>1. CASE T!OpenStream(r)
    BY <1>1, <1>4, <2>1 DEF TickHad
  <2>2. CASE T!CloseStream(r) \/ T!ReadTick(r)
    BY <1>1, <1>5, <2>2
  <2>3. QED
    BY <1>6, <2>1, <2>2
<1>7. QED
  BY <1>2, <1>3, <1>6 DEF T!Next, T!PollerStep

\* No step of the market data provider leaves a gap.
LEMMA TicksStep == T!ConstantsOK /\ TicksInv /\ [T!Next]_(T!vars) => TicksInv'
<1> SUFFICES ASSUME T!ConstantsOK, TicksInv, [T!Next]_(T!vars) PROVE TicksInv'
  OBVIOUS
<1>1. RoundInv /\ RoundInv' /\ TicksTyped
  BY RoundStep DEF TicksInv, RoundInv
<1>2. CASE executor = "down"
  <2>1. /\ connected' = FALSE /\ poller' \in {"none", "checking"}
        /\ \A r \in Streams : TickHad(r)' = TickHad(r) \/ TickHad(r)' = queues[r]
    BY <1>2, EndedStep
  <2>2. \A r \in Streams : T!Consecutive(TickHad(r))
    BY <1>2 DEF TicksInv, Ended
  <2>3. \A r \in Streams : T!Consecutive(TickHad(r)')
    BY <1>1, <2>1, <2>2, StaysConsecutive
  <2>4. QED
    BY <1>1, <2>1, <2>3 DEF TicksInv, Ended, T!Consecutive
<1>3. CASE executor # "down"
  <2>1. executor = "up" /\ \A r \in Streams : T!Consecutive(TickHad(r))
    BY <1>1, <1>3 DEF RoundInv, TicksTyped, InStep
  <2>2. executor' = executor \/ T!Disconnect
    BY DEF T!Next, T!PollerStep, T!Connect, T!OpenStream, T!CloseStream, T!ReadTick, T!CheckConnected,
           T!PollTick, T!PollNothing, T!HandTick, T!NextSymbol, T!SleepAndWake, T!vars
  <2>3. CASE T!Disconnect
    <3>1. connected' = FALSE /\ poller' = "none" /\ UNCHANGED <<queues, lastRead>>
      BY <2>3 DEF T!Disconnect
    <3>2. \A r \in Streams : TickHad(r)' = TickHad(r)
      BY <3>1 DEF TickHad
    <3>3. QED
      BY <1>1, <2>1, <3>1, <3>2 DEF TicksInv, Ended, T!Consecutive
  <2>4. CASE executor' = executor
    BY <1>1, <2>1, <2>4 DEF TicksInv, Ended
  <2>5. QED
    BY <2>2, <2>3, <2>4
<1>4. QED
  BY <1>2, <1>3

=============================================================================
