---------------------------- MODULE SumTheorems ----------------------------
(***************************************************************************)
(* Facts about SumFunction and SumFunctionOnSet of the module Functions,   *)
(* which the books of Portfolio and TradingPlatform are added up with.     *)
(*                                                                         *)
(* A sum is a recursive function on the subsets of a set.  That there is   *)
(* such a function, and what it computes, is shown by induction on the     *)
(* number of elements; the induction is over a set of numbers, with the    *)
(* order of the natural numbers well founded.                              *)
(***************************************************************************)
EXTENDS Functions, FiniteSetTheorems, TLAPS
-----------------------------------------------------------------------------
(* Induction                                                                 *)

Less == {ss \in Nat \X Nat : ss[1] < ss[2]}

\* There is no infinite descent among the natural numbers.
LEMMA LessWellFounded == IsWellFoundedOn(Less, Nat)
  BY NatLessThanWellFounded DEF OpToRel, Less

\* A set with zero and with the successor of each of its numbers has them all.
LEMMA Induction ==
    ASSUME NEW N, 0 \in N, \A n \in Nat : n \in N => n + 1 \in N
    PROVE  Nat \subseteq N
<1> SUFFICES ASSUME ~(Nat \subseteq N) PROVE FALSE
  OBVIOUS
<1> DEFINE M == Nat \ N
<1>1. M \subseteq Nat /\ M # {}
  OBVIOUS
<1>2. \E x \in M : \A y \in M : ~(<<y, x>> \in Less)
  <2> HIDE DEF M
  <2> QED
    BY <1>1, LessWellFounded, WFMin
<1>3. PICK x \in M : \A y \in M : ~(<<y, x>> \in Less)
  BY <1>2
<1>4. x \in Nat /\ x # 0
  OBVIOUS
<1>5. x - 1 \in Nat /\ <<x - 1, x>> \in Less
  BY <1>4 DEF Less
<1>6. x - 1 \in N
  BY <1>3, <1>5
<1> QED
  BY <1>5, <1>6
-----------------------------------------------------------------------------
(* The recursive function behind a sum                                       *)

Pick(T) == CHOOSE x \in T : TRUE

\* F is that function, on the sets of U.
IsSum(F, f, U) ==
    F = [T \in U |-> IF T = {} THEN 0 ELSE f[Pick(T)] + F[T \ {Pick(T)}]]

\* F is that function on the subsets of S.
SumsOver(F, f, S) == IsSum(F, f, SUBSET S)

Agree(f, g, S) == \A x \in S : f[x] = g[x]

Integral(f, S) == \A x \in S : f[x] \in Int

\* What is left of a set without one of its elements.
LEMMA OneLess ==
    ASSUME NEW S, IsFiniteSet(S), NEW T \in SUBSET S, NEW x \in T
    PROVE  /\ IsFiniteSet(T) /\ Cardinality(T) \in Nat \ {0}
           /\ T \ {x} \in SUBSET S
           /\ Cardinality(T \ {x}) = Cardinality(T) - 1
           /\ Pick(T) \in T
<1>1. IsFiniteSet(T)
  BY FS_Subset
<1>2. Cardinality(T) \in Nat /\ Cardinality(T \ {x}) \in Nat
  BY <1>1, FS_CardinalityType, FS_RemoveElement
<1>3. Cardinality(T \ {x}) = Cardinality(T) - 1
  BY <1>1, FS_RemoveElement
<1> QED
  BY <1>1, <1>2, <1>3 DEF Pick

\* There is one: it is built a size at a time.
LEMMA SumExists ==
    ASSUME NEW S, IsFiniteSet(S), NEW f
    PROVE  \E F : IsSum(F, f, SUBSET S)
<1> DEFINE Level(n) == {T \in SUBSET S : Cardinality(T) <= n}
           N == {n \in Nat : \E F : IsSum(F, f, Level(n))}
<1>1. 0 \in N
  <2> DEFINE F == [T \in Level(0) |-> 0]
  <2>1. \A T \in Level(0) : T = {}
    <3> TAKE T \in Level(0)
    <3>1. IsFiniteSet(T) /\ Cardinality(T) \in Nat
      BY FS_Subset, FS_CardinalityType
    <3> QED
      BY <3>1, FS_EmptySet
  <2>2. IsSum(F, f, Level(0))
    BY <2>1 DEF IsSum
  <2> QED
    BY <2>2
<1>2. ASSUME NEW n \in Nat, n \in N PROVE n + 1 \in N
  <2>1. PICK F : IsSum(F, f, Level(n))
    BY <1>2
  <2> DEFINE G == [T \in Level(n + 1) |-> IF T = {} THEN 0 ELSE f[Pick(T)] + F[T \ {Pick(T)}]]
  <2>2. ASSUME NEW T \in Level(n + 1), T # {}
        PROVE  F[T \ {Pick(T)}] = G[T \ {Pick(T)}]
    <3> DEFINE R == T \ {Pick(T)}
    <3>1. Pick(T) \in T
      BY <2>2 DEF Pick
    <3>2. Cardinality(T) \in Nat /\ Cardinality(R) = Cardinality(T) - 1 /\ R \in SUBSET S
      BY <3>1, OneLess
    <3>3. R \in Level(n) /\ R \in Level(n + 1)
      BY <3>2
    <3> HIDE DEF R
    <3>4. F[R] = IF R = {} THEN 0 ELSE f[Pick(R)] + F[R \ {Pick(R)}]
      BY <2>1, <3>3 DEF IsSum
    <3>5. G[R] = IF R = {} THEN 0 ELSE f[Pick(R)] + F[R \ {Pick(R)}]
      BY <3>3
    <3> QED
      BY <3>4, <3>5 DEF R
  <2>3. IsSum(G, f, Level(n + 1))
    <3>1. \A T \in Level(n + 1) :
             (IF T = {} THEN 0 ELSE f[Pick(T)] + F[T \ {Pick(T)}])
               = (IF T = {} THEN 0 ELSE f[Pick(T)] + G[T \ {Pick(T)}])
      BY <2>2
    <3> QED
      BY <3>1 DEF IsSum
  <2> HIDE DEF G, Level
  <2>4. \E H : IsSum(H, f, Level(n + 1))
    BY <2>3
  <2> QED
    BY <2>4
<1>3. Cardinality(S) \in N
  <2>1. Nat \subseteq N
    <3> HIDE DEF N
    <3> QED
      BY <1>1, <1>2, Induction
  <2> QED
    BY <2>1, FS_CardinalityType
<1>4. Level(Cardinality(S)) = SUBSET S
  BY FS_Subset
<1> QED
  BY <1>3, <1>4

\* The library adds up with that function.
LEMMA SumUnfold ==
    ASSUME NEW S, IsFiniteSet(S), NEW f
    PROVE  \E F : SumsOver(F, f, S) /\ SumFunctionOnSet(f, S) = F[S]
<1> DEFINE G == CHOOSE F : IsSum(F, f, SUBSET S)
<1>1. IsSum(G, f, SUBSET S)
  BY SumExists
<1>2. SumFunctionOnSet(f, S) = G[S]
  BY Zenon DEF SumFunctionOnSet, FoldFunctionOnSet, MapThenFoldSet, IsSum, Pick
<1> HIDE DEF G
<1>3. SumsOver(G, f, S)
  BY <1>1 DEF SumsOver
<1> QED
  BY <1>2, <1>3

\* It depends on the values on the set alone.
LEMMA SumUnique ==
    ASSUME NEW S, IsFiniteSet(S), NEW T, T \subseteq S, NEW f, NEW g,
           Agree(f, g, T),
           NEW F, SumsOver(F, f, S), NEW G, SumsOver(G, g, T)
    PROVE  F[T] = G[T]
<1> DEFINE N == {n \in Nat : \A U \in SUBSET T : Cardinality(U) = n => F[U] = G[U]}
<1>1. IsFiniteSet(T)
  BY FS_Subset
<1>2. \A U \in SUBSET T :
         /\ F[U] = IF U = {} THEN 0 ELSE f[Pick(U)] + F[U \ {Pick(U)}]
         /\ G[U] = IF U = {} THEN 0 ELSE g[Pick(U)] + G[U \ {Pick(U)}]
  BY DEF SumsOver, IsSum
<1>3. 0 \in N
  <2>1. \A U \in SUBSET T : Cardinality(U) = 0 => U = {}
    BY <1>1, FS_Subset, FS_EmptySet
  <2> QED
    BY <1>2, <2>1
<1>4. ASSUME NEW n \in Nat, n \in N PROVE n + 1 \in N
  <2> SUFFICES ASSUME NEW U \in SUBSET T, Cardinality(U) = n + 1 PROVE F[U] = G[U]
    OBVIOUS
  <2>1. U # {}
    BY FS_EmptySet
  <2>2. Pick(U) \in U
    BY <2>1 DEF Pick
  <2>3. U \ {Pick(U)} \in SUBSET T /\ Cardinality(U \ {Pick(U)}) = n
    <3>1. U \in SUBSET S
      OBVIOUS
    <3>2. Cardinality(U \ {Pick(U)}) = Cardinality(U) - 1
      BY <2>2, <3>1, OneLess
    <3> QED
      BY <3>2
  <2>4. F[U \ {Pick(U)}] = G[U \ {Pick(U)}]
    BY <1>4, <2>3
  <2> QED
    BY <1>2, <2>1, <2>2, <2>4 DEF Agree
<1>5. Nat \subseteq N
  <2> HIDE DEF N
  <2> QED
    BY <1>3, <1>4, Induction
<1> QED
  BY <1>1, <1>5, FS_CardinalityType

\* Integers add up to an integer.
LEMMA SumInt ==
    ASSUME NEW S, IsFiniteSet(S), NEW f, Integral(f, S),
           NEW F, SumsOver(F, f, S)
    PROVE  \A T \in SUBSET S : F[T] \in Int
<1> DEFINE N == {n \in Nat : \A T \in SUBSET S : Cardinality(T) = n => F[T] \in Int}
<1>1. \A T \in SUBSET S : F[T] = IF T = {} THEN 0 ELSE f[Pick(T)] + F[T \ {Pick(T)}]
  BY DEF SumsOver, IsSum
<1>2. 0 \in N
  <2>1. \A T \in SUBSET S : Cardinality(T) = 0 => T = {}
    BY FS_Subset, FS_EmptySet
  <2>2. {} \in SUBSET S
    OBVIOUS
  <2>3. \A T \in SUBSET S : T = {} => F[T] = 0
    BY <1>1
  <2> QED
    BY <2>1, <2>3
<1>3. ASSUME NEW n \in Nat, n \in N PROVE n + 1 \in N
  <2> SUFFICES ASSUME NEW T \in SUBSET S, Cardinality(T) = n + 1 PROVE F[T] \in Int
    OBVIOUS
  <2>1. T # {}
    <3>1. Cardinality(T) # 0
      OBVIOUS
    <3> QED
      BY <3>1, FS_EmptySet
  <2>2. Pick(T) \in T
    BY <2>1 DEF Pick
  <2>3. T \ {Pick(T)} \in SUBSET S /\ Cardinality(T \ {Pick(T)}) = n
    BY <2>2, OneLess
  <2>4. F[T \ {Pick(T)}] \in Int /\ f[Pick(T)] \in Int
    BY <1>3, <2>2, <2>3 DEF Integral
  <2>5. F[T] = f[Pick(T)] + F[T \ {Pick(T)}]
    BY <1>1, <2>1
  <2> QED
    BY <2>4, <2>5
<1>4. Nat \subseteq N
  <2> HIDE DEF N
  <2> QED
    BY <1>2, <1>3, Induction
<1> QED
  <2> TAKE T \in SUBSET S
  <2>1. Cardinality(T) \in Nat
    BY FS_Subset, FS_CardinalityType
  <2> QED
    BY <1>4, <2>1

\* Any element may be taken first.
LEMMA SumAnyOrder ==
    ASSUME NEW S, IsFiniteSet(S), NEW f, Integral(f, S),
           NEW F, SumsOver(F, f, S)
    PROVE  \A T : T \subseteq S => \A x \in T : F[T] = f[x] + F[T \ {x}]
<1> DEFINE N == {n \in Nat : \A T \in SUBSET S : Cardinality(T) = n =>
                                \A x \in T : F[T] = f[x] + F[T \ {x}]}
<1>1. \A T \in SUBSET S : T # {} => F[T] = f[Pick(T)] + F[T \ {Pick(T)}]
  BY DEF SumsOver, IsSum
<1>2. \A T \in SUBSET S : F[T] \in Int
  BY SumInt
<1>3. 0 \in N
  <2>1. \A T \in SUBSET S : Cardinality(T) = 0 => T = {}
    BY FS_Subset, FS_EmptySet
  <2> QED
    BY <2>1
<1>4. ASSUME NEW n \in Nat, n \in N PROVE n + 1 \in N
  <2> SUFFICES ASSUME NEW T \in SUBSET S, Cardinality(T) = n + 1, NEW x \in T
               PROVE  F[T] = f[x] + F[T \ {x}]
    OBVIOUS
  <2> DEFINE p == Pick(T)
  <2>1. p \in T /\ F[T] = f[p] + F[T \ {p}]
    BY <1>1 DEF Pick
  <2>2. CASE x = p
    BY <2>1, <2>2
  <2>3. CASE x # p
    <3>1. /\ T \ {p} \in SUBSET S /\ Cardinality(T \ {p}) = n
          /\ T \ {x} \in SUBSET S /\ Cardinality(T \ {x}) = n
      BY <2>1, OneLess
    <3> HIDE DEF p
    <3>2. x \in T \ {p} /\ p \in T \ {x}
      BY <2>1, <2>3
    <3>3. F[T \ {p}] = f[x] + F[(T \ {p}) \ {x}]
      BY <1>4, <3>1, <3>2
    <3>4. F[T \ {x}] = f[p] + F[(T \ {x}) \ {p}]
      BY <1>4, <3>1, <3>2
    <3>5. (T \ {p}) \ {x} = (T \ {x}) \ {p} /\ (T \ {x}) \ {p} \in SUBSET S
      OBVIOUS
    <3>6. F[(T \ {x}) \ {p}] \in Int /\ f[x] \in Int /\ f[p] \in Int
      BY <1>2, <2>1, <3>5 DEF Integral
    <3> DEFINE c == F[(T \ {x}) \ {p}]
               a == f[x]
               b == f[p]
    <3>7. F[T] = b + (a + c) /\ F[T \ {x}] = b + c
      BY <2>1, <3>3, <3>4, <3>5
    <3>8. a \in Int /\ b \in Int /\ c \in Int
      BY <3>6
    <3>9. F[T] = a + F[T \ {x}]
      <4> HIDE DEF a, b, c
      <4> QED
        BY <3>7, <3>8
    <3> QED
      BY <3>9
  <2> QED
    BY <2>2, <2>3
<1>5. Nat \subseteq N
  <2> HIDE DEF N
  <2> QED
    BY <1>3, <1>4, Induction
<1> QED
  <2> SUFFICES ASSUME NEW T \in SUBSET S PROVE \A x \in T : F[T] = f[x] + F[T \ {x}]
    OBVIOUS
  <2>1. Cardinality(T) \in Nat
    BY FS_Subset, FS_CardinalityType
  <2> QED
    BY <1>5, <2>1
-----------------------------------------------------------------------------
(* Sums over a set                                                           *)

\* Nothing adds up to zero.
LEMMA SumEmpty ==
    ASSUME NEW f
    PROVE  SumFunctionOnSet(f, {}) = 0
<1>1. PICK F : SumsOver(F, f, {}) /\ SumFunctionOnSet(f, {}) = F[{}]
  BY SumUnfold, FS_EmptySet
<1> QED
  BY <1>1 DEF SumsOver, IsSum

\* Values that agree on a set have the same sum over it.
LEMMA SumSame ==
    ASSUME NEW S, IsFiniteSet(S), NEW f, NEW g, Agree(f, g, S)
    PROVE  SumFunctionOnSet(f, S) = SumFunctionOnSet(g, S)
<1>1. PICK F : SumsOver(F, f, S) /\ SumFunctionOnSet(f, S) = F[S]
  BY SumUnfold
<1>2. PICK G : SumsOver(G, g, S) /\ SumFunctionOnSet(g, S) = G[S]
  BY SumUnfold
<1>3. S \subseteq S
  OBVIOUS
<1>4. F[S] = G[S]
  <2>1. /\ IsFiniteSet(S) /\ Agree(f, g, S)
        /\ SumsOver(F, f, S) /\ SumsOver(G, g, S)
    BY <1>1, <1>2
  <2> QED
    BY ONLY <1>3, <2>1, SumUnique
<1> QED
  BY <1>1, <1>2, <1>4

\* A sum of integers is an integer.
LEMMA SumType ==
    ASSUME NEW S, IsFiniteSet(S), NEW f, Integral(f, S)
    PROVE  SumFunctionOnSet(f, S) \in Int
<1>1. PICK F : SumsOver(F, f, S) /\ SumFunctionOnSet(f, S) = F[S]
  BY SumUnfold
<1> QED
  BY <1>1, SumInt

\* An element may be taken out of the sum.
LEMMA SumTakeOut ==
    ASSUME NEW S, IsFiniteSet(S), NEW f, Integral(f, S), NEW x \in S
    PROVE  SumFunctionOnSet(f, S) = f[x] + SumFunctionOnSet(f, S \ {x})
<1>1. PICK F : SumsOver(F, f, S) /\ SumFunctionOnSet(f, S) = F[S]
  BY SumUnfold
<1>2. IsFiniteSet(S \ {x}) /\ S \ {x} \in SUBSET S
  BY FS_RemoveElement
<1>3. PICK G : SumsOver(G, f, S \ {x}) /\ SumFunctionOnSet(f, S \ {x}) = G[S \ {x}]
  BY <1>2, SumUnfold
<1> DEFINE R == S \ {x}
<1>4. F[R] = G[R]
  <2>1. R \subseteq S /\ SumsOver(G, f, R) /\ Agree(f, f, R)
    BY <1>3 DEF Agree
  <2>2. IsFiniteSet(S) /\ SumsOver(F, f, S)
    BY <1>1
  <2> HIDE DEF R
  <2> QED
    BY ONLY <2>1, <2>2, SumUnique
<1>5. F[S] = f[x] + F[S \ {x}]
  <2>1. \A T : T \subseteq S => \A y \in T : F[T] = f[y] + F[T \ {y}]
    <3>1. IsFiniteSet(S) /\ Integral(f, S) /\ SumsOver(F, f, S)
      BY <1>1
    <3> QED
      BY ONLY <3>1, SumAnyOrder
  <2>2. S \subseteq S
    OBVIOUS
  <2> QED
    BY <2>1, <2>2
<1> QED
  BY <1>1, <1>3, <1>4, <1>5

\* An element may be added to it.
LEMMA SumAddOne ==
    ASSUME NEW S, IsFiniteSet(S), NEW x, x \notin S, NEW f, Integral(f, S \cup {x})
    PROVE  SumFunctionOnSet(f, S \cup {x}) = f[x] + SumFunctionOnSet(f, S)
<1> DEFINE W == S \cup {x}
<1>1. IsFiniteSet(W) /\ x \in W /\ W \ {x} = S
  BY FS_AddElement
<1>2. Integral(f, W)
  OBVIOUS
<1> HIDE DEF W
<1>3. SumFunctionOnSet(f, W) = f[x] + SumFunctionOnSet(f, W \ {x})
  BY <1>1, <1>2, SumTakeOut
<1> QED
  BY <1>1, <1>3 DEF W

\* A value that changes changes the sum by as much.
LEMMA SumChange ==
    ASSUME NEW S, IsFiniteSet(S), NEW x \in S, NEW f, NEW g,
           Integral(f, S), Integral(g, S), Agree(f, g, S \ {x})
    PROVE  SumFunctionOnSet(g, S) = SumFunctionOnSet(f, S) + (g[x] - f[x])
<1> DEFINE R == S \ {x}
<1>1. IsFiniteSet(R)
  BY FS_RemoveElement
<1>2. SumFunctionOnSet(f, S) = f[x] + SumFunctionOnSet(f, R)
  BY SumTakeOut
<1>3. SumFunctionOnSet(g, S) = g[x] + SumFunctionOnSet(g, R)
  BY SumTakeOut
<1>4. f[x] \in Int /\ g[x] \in Int /\ Integral(f, R) /\ Agree(f, g, R)
  BY DEF Integral
<1> HIDE DEF R
<1>5. SumFunctionOnSet(f, R) = SumFunctionOnSet(g, R) /\ SumFunctionOnSet(f, R) \in Int
  BY <1>1, <1>4, SumSame, SumType
<1> QED
  BY <1>2, <1>3, <1>4, <1>5

\* What holds of the empty set, and of a set whenever it holds of the set
\* without one element, holds of every finite set.
LEMMA SetInduction ==
    ASSUME NEW S, IsFiniteSet(S), NEW P,
           {} \in P,
           \A T \in SUBSET S : \A x \in T : T \ {x} \in P => T \in P
    PROVE  S \in P
<1> DEFINE N == {n \in Nat : \A T \in SUBSET S : Cardinality(T) = n => T \in P}
<1>1. 0 \in N
  <2>1. \A T \in SUBSET S : Cardinality(T) = 0 => T = {}
    BY FS_Subset, FS_EmptySet
  <2> QED
    BY <2>1
<1>2. ASSUME NEW n \in Nat, n \in N PROVE n + 1 \in N
  <2> SUFFICES ASSUME NEW T \in SUBSET S, Cardinality(T) = n + 1 PROVE T \in P
    OBVIOUS
  <2>1. T # {}
    <3>1. Cardinality(T) # 0
      OBVIOUS
    <3> QED
      BY <3>1, FS_EmptySet
  <2>2. PICK x \in T : TRUE
    BY <2>1
  <2>3. T \ {x} \in SUBSET S /\ Cardinality(T \ {x}) = n
    BY <2>2, OneLess
  <2>4. T \ {x} \in P
    BY <1>2, <2>3
  <2> QED
    BY <2>2, <2>4
<1>3. Nat \subseteq N
  <2> HIDE DEF N
  <2> QED
    BY <1>1, <1>2, Induction
<1> QED
  <2>1. S \in SUBSET S /\ Cardinality(S) \in Nat
    BY FS_CardinalityType
  <2> QED
    BY <1>3, <2>1

\* Zeros add up to zero.
LEMMA SumZeros ==
    ASSUME NEW S, IsFiniteSet(S), NEW f, \A x \in S : f[x] = 0
    PROVE  SumFunctionOnSet(f, S) = 0
<1> DEFINE P == {T \in SUBSET S : SumFunctionOnSet(f, T) = 0}
<1>1. {} \in P
  BY SumEmpty
<1>2. ASSUME NEW T \in SUBSET S, NEW x \in T, T \ {x} \in P
      PROVE  T \in P
  <2>1. IsFiniteSet(T) /\ Integral(f, T) /\ f[x] = 0
    BY FS_Subset DEF Integral
  <2>2. SumFunctionOnSet(f, T) = f[x] + SumFunctionOnSet(f, T \ {x})
    BY <2>1, SumTakeOut
  <2> QED
    BY <1>2, <2>1, <2>2
<1>3. S \in P
  <2> HIDE DEF P
  <2> QED
    BY <1>1, <1>2, SetInduction
<1> QED
  BY <1>3

\* Elements whose value is zero may be left out.
LEMMA SumOfNonZero ==
    ASSUME NEW S, IsFiniteSet(S), NEW D, D \subseteq S, NEW f, Integral(f, D),
           \A x \in S \ D : f[x] = 0
    PROVE  SumFunctionOnSet(f, S) = SumFunctionOnSet(f, D)
<1> DEFINE P == {T \in SUBSET S : SumFunctionOnSet(f, T) = SumFunctionOnSet(f, T \cap D)}
<1>1. {} \in P
  <2>1. {} \cap D = {}
    OBVIOUS
  <2> QED
    BY <2>1
<1>2. ASSUME NEW T \in SUBSET S, NEW x \in T, T \ {x} \in P
      PROVE  T \in P
  <2> DEFINE R == T \ {x}
             E == T \cap D
  <2>1. IsFiniteSet(T) /\ Integral(f, T) /\ IsFiniteSet(E) /\ Integral(f, E) /\ Integral(f, R \cap D)
    BY FS_Subset DEF Integral
  <2>2. SumFunctionOnSet(f, T) = f[x] + SumFunctionOnSet(f, R)
    BY <2>1, SumTakeOut
  <2>3. IsFiniteSet(R \cap D)
    BY FS_Subset
  <2>4. SumFunctionOnSet(f, R) = SumFunctionOnSet(f, R \cap D)
    BY <1>2
  <2>5. CASE x \in D
    <3>1. x \in E /\ E \ {x} = R \cap D
      BY <2>5
    <3> HIDE DEF E, R
    <3>2. SumFunctionOnSet(f, E) = f[x] + SumFunctionOnSet(f, E \ {x})
      BY <2>1, <3>1, SumTakeOut
    <3> QED
      BY <2>2, <2>4, <3>1, <3>2 DEF E
  <2>6. CASE x \notin D
    <3>1. E = R \cap D /\ f[x] = 0
      BY <2>6
    <3> DEFINE Q == R \cap D
    <3>2. SumFunctionOnSet(f, Q) \in Int
      <4> HIDE DEF Q, R
      <4> QED
        BY <2>1, <2>3, SumType DEF Q
    <3>3. SumFunctionOnSet(f, T) = SumFunctionOnSet(f, Q)
      <4> HIDE DEF Q, R
      <4>1. SumFunctionOnSet(f, T) = 0 + SumFunctionOnSet(f, Q)
        BY <2>2, <2>4, <3>1 DEF Q
      <4> QED
        BY <3>2, <4>1
    <3>4. SumFunctionOnSet(f, T) = SumFunctionOnSet(f, E)
      BY <3>1, <3>3
    <3> QED
      BY <3>4
  <2> QED
    BY <2>5, <2>6
<1>3. S \in P
  <2> HIDE DEF P
  <2> QED
    BY <1>1, <1>2, SetInduction
<1>4. S \cap D = D
  OBVIOUS
<1> QED
  BY <1>3, <1>4

\* Values within c / 2 of a difference add up to within c / 2 for each of them.
LEMMA SumNear ==
    ASSUME NEW S, IsFiniteSet(S), NEW f, NEW g, NEW h, NEW c \in Nat,
           Integral(f, S), Integral(g, S), Integral(h, S),
           \A x \in S : -c <= 2 * (f[x] - (g[x] - h[x])) /\ 2 * (f[x] - (g[x] - h[x])) <= c
    PROVE  /\ Cardinality(S) \in Nat
           /\ -(c * Cardinality(S)) <= 2 * (SumFunctionOnSet(f, S) - (SumFunctionOnSet(g, S) - SumFunctionOnSet(h, S)))
           /\ 2 * (SumFunctionOnSet(f, S) - (SumFunctionOnSet(g, S) - SumFunctionOnSet(h, S))) <= c * Cardinality(S)
<1> DEFINE d(T) == SumFunctionOnSet(f, T) - (SumFunctionOnSet(g, T) - SumFunctionOnSet(h, T))
           P == {T \in SUBSET S : -(c * Cardinality(T)) <= 2 * d(T) /\ 2 * d(T) <= c * Cardinality(T)}
<1>1. {} \in P
  BY SumEmpty, FS_EmptySet
<1>2. ASSUME NEW T \in SUBSET S, NEW x \in T, T \ {x} \in P
      PROVE  T \in P
  <2> DEFINE R == T \ {x}
             n == Cardinality(R)
  <2>1. IsFiniteSet(T) /\ IsFiniteSet(R) /\ n \in Nat /\ Cardinality(T) = n + 1
    BY FS_Subset, FS_RemoveElement, FS_CardinalityType
  <2>2. /\ Integral(f, T) /\ Integral(g, T) /\ Integral(h, T)
        /\ Integral(f, R) /\ Integral(g, R) /\ Integral(h, R)
    BY DEF Integral
  <2>3. /\ SumFunctionOnSet(f, T) = f[x] + SumFunctionOnSet(f, R)
        /\ SumFunctionOnSet(g, T) = g[x] + SumFunctionOnSet(g, R)
        /\ SumFunctionOnSet(h, T) = h[x] + SumFunctionOnSet(h, R)
    BY <2>1, <2>2, SumTakeOut
  <2>4. f[x] \in Int /\ g[x] \in Int /\ h[x] \in Int
    BY DEF Integral
  <2> HIDE DEF R
  <2>5. /\ SumFunctionOnSet(f, R) \in Int
        /\ SumFunctionOnSet(g, R) \in Int
        /\ SumFunctionOnSet(h, R) \in Int
    BY <2>1, <2>2, SumType
  <2> DEFINE e == f[x] - (g[x] - h[x])
             r == d(R)
             k == c * n
  <2>6. d(T) = e + r /\ e \in Int /\ r \in Int /\ k \in Int
    BY <2>1, <2>3, <2>4, <2>5
  <2>7. -c <= 2 * e /\ 2 * e <= c /\ -k <= 2 * r /\ 2 * r <= k
    BY <1>2 DEF R
  <2>8. c * Cardinality(T) = k + c
    BY <2>1
  <2> HIDE DEF d, e, r, k, n
  <2>9. -(k + c) <= 2 * d(T) /\ 2 * d(T) <= k + c
    BY <2>6, <2>7
  <2> QED
    BY <2>8, <2>9
<1>3. S \in P
  <2> HIDE DEF P
  <2> QED
    BY <1>1, <1>2, SetInduction
<1> QED
  BY <1>3, FS_CardinalityType
-----------------------------------------------------------------------------
(* Sums over sequences                                                       *)

\* The last element of an interval may be taken out of the sum.
LEMMA SumLast ==
    ASSUME NEW a \in Nat, NEW b \in Nat, a <= b + 1, NEW f, Integral(f, a..(b + 1))
    PROVE  /\ SumFunctionOnSet(f, a..b) \in Int
           /\ SumFunctionOnSet(f, a..(b + 1)) = SumFunctionOnSet(f, a..b) + f[b + 1]
<1> DEFINE S == a..b
           x == b + 1
<1>1. IsFiniteSet(S) /\ x \notin S /\ S \cup {x} = a..(b + 1)
  <2>1. IsFiniteSet(S)
    BY FS_Interval
  <2> QED
    BY <2>1
<1>2. Integral(f, S \cup {x}) /\ Integral(f, S) /\ f[x] \in Int
  BY <1>1 DEF Integral
<1> HIDE DEF S, x
<1>3. SumFunctionOnSet(f, S) \in Int
  BY <1>1, <1>2, SumType
<1>4. SumFunctionOnSet(f, S \cup {x}) = f[x] + SumFunctionOnSet(f, S)
  BY <1>1, <1>2, SumAddOne
<1>5. SumFunctionOnSet(f, S \cup {x}) = SumFunctionOnSet(f, S) + f[x]
  BY <1>2, <1>3, <1>4
<1> QED
  BY <1>1, <1>3, <1>5 DEF S, x

\* An interval may be added up in two parts.
LEMMA SumSplit ==
    ASSUME NEW n \in Nat, NEW m \in Nat, n <= m, NEW f, Integral(f, 1..m)
    PROVE  /\ SumFunctionOnSet(f, 1..n) \in Int
           /\ SumFunctionOnSet(f, (n + 1)..m) \in Int
           /\ SumFunctionOnSet(f, 1..m) = SumFunctionOnSet(f, 1..n) + SumFunctionOnSet(f, (n + 1)..m)
<1> DEFINE N == {j \in Nat : n + j <= m =>
                   SumFunctionOnSet(f, 1..(n + j))
                     = SumFunctionOnSet(f, 1..n) + SumFunctionOnSet(f, (n + 1)..(n + j))}
<1>1. \A a \in Nat, b \in Nat : a >= 1 /\ b <= m => SumFunctionOnSet(f, a..b) \in Int
  <2> TAKE a \in Nat, b \in Nat
  <2> HAVE a >= 1 /\ b <= m
  <2>1. IsFiniteSet(a..b) /\ Integral(f, a..b)
    BY FS_Interval DEF Integral
  <2> QED
    BY <2>1, SumType
<1>2. 0 \in N
  <2>1. (n + 1)..(n + 0) = {} /\ n + 0 = n
    OBVIOUS
  <2>2. SumFunctionOnSet(f, 1..n) \in Int
    BY <1>1
  <2> QED
    BY <2>1, <2>2, SumEmpty
<1>3. ASSUME NEW j \in Nat, j \in N PROVE j + 1 \in N
  <2> SUFFICES ASSUME n + (j + 1) <= m
               PROVE  SumFunctionOnSet(f, 1..(n + (j + 1)))
                        = SumFunctionOnSet(f, 1..n) + SumFunctionOnSet(f, (n + 1)..(n + (j + 1)))
    OBVIOUS
  <2> DEFINE b == n + j
             low == SumFunctionOnSet(f, 1..n)
             left == SumFunctionOnSet(f, 1..b)
             right == SumFunctionOnSet(f, (n + 1)..b)
  <2>1. b \in Nat /\ b + 1 = n + (j + 1) /\ n + 1 <= b + 1 /\ n + 1 \in Nat /\ n + 1 >= 1 /\ b <= m
    OBVIOUS
  <2>2. left = low + right
    BY <1>3
  <2>3. Integral(f, 1..(b + 1)) /\ Integral(f, (n + 1)..(b + 1)) /\ f[b + 1] \in Int
    BY DEF Integral
  <2>4. low \in Int /\ right \in Int
    BY <1>1, <2>1
  <2>5. SumFunctionOnSet(f, 1..(b + 1)) = left + f[b + 1]
    <3> HIDE DEF b
    <3> QED
      BY <2>1, <2>3, SumLast
  <2>6. SumFunctionOnSet(f, (n + 1)..(b + 1)) = right + f[b + 1]
    <3> HIDE DEF b
    <3> QED
      BY <2>1, <2>3, SumLast
  <2> HIDE DEF left, right, low, b
  <2>7. SumFunctionOnSet(f, 1..(b + 1)) = low + SumFunctionOnSet(f, (n + 1)..(b + 1))
    BY <2>2, <2>3, <2>4, <2>5, <2>6
  <2> QED
    BY <2>1, <2>7 DEF low
<1>4. Nat \subseteq N
  <2> HIDE DEF N
  <2> QED
    BY <1>2, <1>3, Induction
<1>5. m - n \in N /\ n + (m - n) = m
  BY <1>4
<1>6. SumFunctionOnSet(f, 1..m) = SumFunctionOnSet(f, 1..n) + SumFunctionOnSet(f, (n + 1)..m)
  BY <1>5
<1>7. SumFunctionOnSet(f, 1..n) \in Int /\ SumFunctionOnSet(f, (n + 1)..m) \in Int
  BY <1>1
<1> QED
  BY <1>6, <1>7

\* Where an interval begins does not matter to a sum.
LEMMA SumShift ==
    ASSUME NEW k \in Nat, NEW n \in Nat, NEW f, NEW g,
           Integral(g, (k + 1)..(k + n)), \A i \in 1..n : f[i] = g[k + i]
    PROVE  SumFunctionOnSet(f, 1..n) = SumFunctionOnSet(g, (k + 1)..(k + n))
<1> DEFINE N == {j \in Nat : j <= n =>
                   SumFunctionOnSet(f, 1..j) = SumFunctionOnSet(g, (k + 1)..(k + j))}
<1>1. 0 \in N
  <2>1. 1..0 = {} /\ (k + 1)..(k + 0) = {}
    OBVIOUS
  <2> QED
    BY <2>1, SumEmpty
<1>2. ASSUME NEW j \in Nat, j \in N PROVE j + 1 \in N
  <2> SUFFICES ASSUME j + 1 <= n
               PROVE  SumFunctionOnSet(f, 1..(j + 1)) = SumFunctionOnSet(g, (k + 1)..(k + (j + 1)))
    OBVIOUS
  <2> DEFINE b == k + j
             a == k + 1
  <2>1. b \in Nat /\ a \in Nat /\ a <= b + 1 /\ b + 1 = k + (j + 1)
    OBVIOUS
  <2>2. Integral(g, a..(b + 1))
    BY DEF Integral
  <2>3. f[j + 1] = g[b + 1]
    BY <2>1
  <2>4. Integral(f, 1..(j + 1))
    BY DEF Integral
  <2>5. SumFunctionOnSet(f, 1..j) = SumFunctionOnSet(g, a..b)
    BY <1>2
  <2> HIDE DEF a, b
  <2>6. SumFunctionOnSet(f, 1..(j + 1)) = SumFunctionOnSet(f, 1..j) + f[j + 1]
    BY <2>4, SumLast
  <2>7. SumFunctionOnSet(g, a..(b + 1)) = SumFunctionOnSet(g, a..b) + g[b + 1]
    BY <2>1, <2>2, SumLast
  <2>8. SumFunctionOnSet(f, 1..(j + 1)) = SumFunctionOnSet(g, a..(b + 1))
    BY <2>3, <2>5, <2>6, <2>7
  <2> QED
    BY <2>1, <2>8 DEF a
<1>3. Nat \subseteq N
  <2> HIDE DEF N
  <2> QED
    BY <1>1, <1>2, Induction
<1> QED
  BY <1>3
=============================================================================
