------------------------------ MODULE NatFacts ------------------------------
(***************************************************************************)
(* Facts about natural numbers that several proofs rest on: the greatest   *)
(* element of a bounded set, induction over a set of numbers, and what a   *)
(* function that is defined step by step along 1, 2, 3, ... returns.       *)
(***************************************************************************)
EXTENDS Integers, FiniteSetTheorems, WellFoundedInduction, TLAPS

\* A bounded, inhabited set of naturals has a greatest element.
LEMMA GreatestExists ==
  ASSUME NEW bound \in Nat, NEW A \in SUBSET (0..bound), A # {}
  PROVE  \E n \in A : \A m \in A : m <= n
<1> DEFINE Above == {n..bound : n \in A}
<1>1. IsWellFoundedOn(StrictSubsetOrdering(0..bound), FiniteSubsetsOf(0..bound))
  BY FS_StrictSubsetOrderingWellFounded
<1>2. Above \subseteq FiniteSubsetsOf(0..bound)
  <2> SUFFICES ASSUME NEW n \in A PROVE n..bound \in FiniteSubsetsOf(0..bound)
    OBVIOUS
  <2>1. n \in Nat /\ n..bound \subseteq 0..bound
    OBVIOUS
  <2>2. IsFiniteSet(n..bound)
    BY <2>1, FS_Interval
  <2> QED
    BY <2>1, <2>2 DEF FiniteSubsetsOf
<1>3. Above # {}
  OBVIOUS
<1>4. PICK least \in Above : \A other \in Above :
        <<other, least>> \notin StrictSubsetOrdering(0..bound)
  BY <1>1, <1>2, <1>3, WFMin
<1>5. PICK n \in A : least = n..bound
  OBVIOUS
<1>6. ASSUME NEW m \in A, n < m PROVE FALSE
  <2>1. m..bound \subseteq n..bound /\ n \in n..bound /\ n \notin m..bound
    BY <1>6
  <2>2. m..bound \in SUBSET (0..bound) /\ n..bound \in SUBSET (0..bound)
    OBVIOUS
  <2>3. <<m..bound, n..bound>> \in StrictSubsetOrdering(0..bound)
    BY <2>1, <2>2 DEF StrictSubsetOrdering
  <2> QED
    BY <1>4, <1>5, <2>3
<1> QED
  BY <1>6

\* A set of naturals that holds 0 and with every number the next holds all of them.
LEMMA SetInduction ==
  ASSUME NEW S \in SUBSET Nat, 0 \in S, \A n \in S : n + 1 \in S
  PROVE  S = Nat
<1> SUFFICES ASSUME NEW k \in Nat, k \notin S PROVE FALSE
  OBVIOUS
<1> DEFINE A == {m \in 0..k : m \in S}
<1>1. A \in SUBSET (0..k) /\ A # {}
  OBVIOUS
<1>2. PICK m \in A : \A o \in A : o <= m
  <2> HIDE DEF A
  <2> QED
    BY <1>1, GreatestExists
<1>3. m + 1 \in S /\ m # k /\ m \in 0..k
  OBVIOUS
<1>4. m + 1 \in A
  BY <1>3
<1> QED
  BY <1>2, <1>4

-----------------------------------------------------------------------------
(* Functions defined step by step *)

\* f starts with base and goes from each number to the next by step.
Follows(f, base, step, N) ==
  f[0] = base /\ \A n \in 1..N : f[n] = step[n][f[n - 1]]

\* There is such a function.
LEMMA StepsExist ==
  ASSUME NEW T, NEW base \in T, NEW N \in Nat, NEW step \in [1..N -> [T -> T]]
  PROVE  \E f \in [0..N -> T] : Follows(f, base, step, N)
<1> DEFINE S == {k \in Nat : k <= N => \E f \in [0..k -> T] : Follows(f, base, step, k)}
<1>1. 0 \in S
  <2>1. [n \in 0..0 |-> base] \in [0..0 -> T] /\ Follows([n \in 0..0 |-> base], base, step, 0)
    BY DEF Follows
  <2> QED
    BY <2>1
<1>2. ASSUME NEW k \in S PROVE k + 1 \in S
  <2> SUFFICES ASSUME k + 1 <= N
               PROVE  \E f \in [0..k + 1 -> T] : Follows(f, base, step, k + 1)
    OBVIOUS
  <2>1. k \in Nat /\ k <= N
    OBVIOUS
  <2>2. PICK f \in [0..k -> T] : Follows(f, base, step, k)
    BY <2>1
  <2> DEFINE h == [n \in 0..k + 1 |-> IF n = k + 1 THEN step[k + 1][f[k]] ELSE f[n]]
  <2>3. step[k + 1][f[k]] \in T
    <3>1. k + 1 \in 1..N /\ f[k] \in T
      BY <2>1
    <3> QED
      BY <3>1
  <2>4. h \in [0..k + 1 -> T]
    BY <2>1, <2>3
  <2>5. h[0] = base
    BY <2>1, <2>2 DEF Follows
  <2>6. ASSUME NEW n \in 1..k + 1 PROVE h[n] = step[n][h[n - 1]]
    <3>1. CASE n = k + 1
      BY <2>1, <3>1
    <3>2. CASE n # k + 1
      <4>1. n \in 1..k /\ n - 1 \in 0..k
        BY <2>1, <3>2
      <4> QED
        BY <2>1, <2>2, <3>2, <4>1 DEF Follows
    <3> QED
      BY <3>1, <3>2
  <2>7. Follows(h, base, step, k + 1)
    BY <2>5, <2>6 DEF Follows
  <2> QED
    BY <2>4, <2>7
<1>3. S = Nat
  <2>1. S \in SUBSET Nat
    OBVIOUS
  <2> HIDE DEF S
  <2> QED
    BY <1>1, <1>2, <2>1, SetInduction
<1> QED
  BY <1>3

-----------------------------------------------------------------------------
(* Sums *)

\* SumFunctionOnSet takes the numbers in some order, as the value at the whole set of the
\* function that adds one more number at a time.
Picked(U) == CHOOSE x \in U : TRUE
Adds(g, fun, U) == g[U] = IF U = {} THEN 0 ELSE fun[Picked(U)] + g[U \ {Picked(U)}]

LEMMA FiniteParts ==
  ASSUME NEW T, IsFiniteSet(T), NEW U \in SUBSET T
  PROVE  /\ IsFiniteSet(U) /\ Cardinality(U) \in Nat
         /\ Cardinality(U) = 0 <=> U = {}
         /\ \A x \in U : U \ {x} \in SUBSET T /\ Cardinality(U \ {x}) = Cardinality(U) - 1
         /\ U # {} => Picked(U) \in U
<1>1. IsFiniteSet(U) /\ Cardinality(U) \in Nat
  BY FS_Subset, FS_CardinalityType
<1>2. Cardinality(U) = 0 <=> U = {}
  BY <1>1, FS_EmptySet
<1>3. \A x \in U : U \ {x} \in SUBSET T /\ Cardinality(U \ {x}) = Cardinality(U) - 1
  BY <1>1, FS_RemoveElement
<1> QED
  BY <1>1, <1>2, <1>3 DEF Picked

LEMMA AddsExist ==
  ASSUME NEW T, IsFiniteSet(T), NEW fun, \A x \in T : fun[x] \in Nat
  PROVE  \E g \in [SUBSET T -> Nat] : \A U \in SUBSET T : Adds(g, fun, U)
<1> DEFINE S == {k \in Nat : \E g \in [SUBSET T -> Nat] :
                               \A U \in SUBSET T : Cardinality(U) <= k => Adds(g, fun, U)}
<1>1. 0 \in S
  <2> DEFINE g == [U \in SUBSET T |-> 0]
  <2>1. g \in [SUBSET T -> Nat]
    OBVIOUS
  <2>2. ASSUME NEW U \in SUBSET T, Cardinality(U) <= 0 PROVE Adds(g, fun, U)
    <3>1. U = {}
      BY <2>2, FiniteParts
    <3> QED
      BY <3>1 DEF Adds
  <2> HIDE DEF g
  <2> QED
    BY <2>1, <2>2
<1>2. ASSUME NEW k \in S PROVE k + 1 \in S
  <2>1. PICK g \in [SUBSET T -> Nat] : \A U \in SUBSET T : Cardinality(U) <= k => Adds(g, fun, U)
    OBVIOUS
  <2>2. k \in Nat
    OBVIOUS
  <2> DEFINE h == [U \in SUBSET T |-> IF Cardinality(U) = k + 1
                                      THEN fun[Picked(U)] + g[U \ {Picked(U)}] ELSE g[U]]
  <2>3. h \in [SUBSET T -> Nat]
    <3> SUFFICES ASSUME NEW U \in SUBSET T, Cardinality(U) = k + 1
                 PROVE  fun[Picked(U)] + g[U \ {Picked(U)}] \in Nat
      OBVIOUS
    <3>1. U # {} /\ Picked(U) \in T /\ U \ {Picked(U)} \in SUBSET T
      BY <2>2, FiniteParts
    <3>2. fun[Picked(U)] \in Nat /\ g[U \ {Picked(U)}] \in Nat
      BY <3>1
    <3> QED
      BY <3>2
  <2>4. ASSUME NEW U \in SUBSET T, Cardinality(U) <= k + 1 PROVE Adds(h, fun, U)
    <3>1. h[U] = IF Cardinality(U) = k + 1 THEN fun[Picked(U)] + g[U \ {Picked(U)}] ELSE g[U]
      OBVIOUS
    <3>2. CASE U = {}
      <4>1. Cardinality(U) = 0
        BY <3>2, FiniteParts
      <4>2. g[U] = 0
        BY <2>1, <2>2, <3>2, <4>1 DEF Adds
      <4> QED
        BY <2>2, <3>1, <3>2, <4>1, <4>2 DEF Adds
    <3>3. CASE U # {}
      <4> DEFINE V == U \ {Picked(U)}
      <4>1. V \in SUBSET T /\ Cardinality(V) = Cardinality(U) - 1 /\ Cardinality(U) \in Nat
        BY <3>3, FiniteParts
      <4>2. h[V] = g[V]
        BY <2>2, <2>4, <4>1
      <4>3. h[U] = fun[Picked(U)] + g[V]
        <5>1. CASE Cardinality(U) = k + 1
          BY <3>1, <5>1
        <5>2. CASE Cardinality(U) # k + 1
          <6>1. Cardinality(U) <= k /\ h[U] = g[U]
            BY <2>2, <2>4, <3>1, <4>1, <5>2
          <6> QED
            BY <2>1, <3>3, <6>1 DEF Adds
        <5> QED
          BY <5>1, <5>2
      <4> HIDE DEF h
      <4> QED
        BY <3>3, <4>2, <4>3 DEF Adds
    <3> QED
      BY <3>2, <3>3
  <2> HIDE DEF h
  <2> QED
    BY <2>2, <2>3, <2>4
<1>3. S = Nat
  <2>1. S \in SUBSET Nat
    OBVIOUS
  <2> HIDE DEF S
  <2> QED
    BY <1>1, <1>2, <2>1, SetInduction
<1>4. Cardinality(T) \in S
  BY <1>3, FS_CardinalityType
<1>5. PICK g \in [SUBSET T -> Nat] : \A U \in SUBSET T : Cardinality(U) <= Cardinality(T) => Adds(g, fun, U)
  BY <1>4
<1>6. \A U \in SUBSET T : Cardinality(U) <= Cardinality(T)
  BY FS_Subset
<1> QED
  BY <1>5, <1>6

LEMMA SumUnfolds ==
  ASSUME NEW T, IsFiniteSet(T), NEW fun, \A x \in T : fun[x] \in Nat
  PROVE  \E g : (\A U \in SUBSET T : Adds(g, fun, U)) /\ SumFunctionOnSet(fun, T) = g[T]
<1> DEFINE Adding(g) == g = [U \in SUBSET T |->
                              IF U = {} THEN 0
                              ELSE LET x == CHOOSE x \in U : TRUE IN fun[x] + g[U \ {x}]]
           g == CHOOSE g : Adding(g)
<1>1. SumFunctionOnSet(fun, T) = g[T]
  BY DEF SumFunctionOnSet, FoldFunctionOnSet, MapThenFoldSet
<1>2. PICK f \in [SUBSET T -> Nat] : \A U \in SUBSET T : Adds(f, fun, U)
  BY AddsExist
<1>3. f = [U \in SUBSET T |-> f[U]]
  OBVIOUS
<1>4. \A U \in SUBSET T : f[U] = IF U = {} THEN 0
                                 ELSE LET x == CHOOSE x \in U : TRUE IN fun[x] + f[U \ {x}]
  BY <1>2 DEF Adds, Picked
<1>5. Adding(f)
  BY <1>3, <1>4
<1>6. Adding(g)
  <2> HIDE DEF Adding
  <2> QED
    BY <1>5
<1>7. \A U \in SUBSET T : g[U] = IF U = {} THEN 0
                                 ELSE LET x == CHOOSE x \in U : TRUE IN fun[x] + g[U \ {x}]
  <2> HIDE DEF g
  <2> QED
    BY <1>6
<1> HIDE DEF g
<1>8. \A U \in SUBSET T : Adds(g, fun, U)
  BY <1>7 DEF Adds, Picked
<1> QED
  BY <1>1, <1>8

\* The order does not matter: any number may be the last one added.
LEMMA AnyOrder ==
  ASSUME NEW T, IsFiniteSet(T), NEW fun, \A x \in T : fun[x] \in Nat,
         NEW g, \A U \in SUBSET T : Adds(g, fun, U)
  PROVE  \A U \in SUBSET T : g[U] \in Nat /\ \A x \in U : g[U] = fun[x] + g[U \ {x}]
<1> DEFINE Free(U) == g[U] \in Nat /\ \A x \in U : g[U] = fun[x] + g[U \ {x}]
           S == {k \in Nat : \A U \in SUBSET T : Cardinality(U) <= k => Free(U)}
<1>1. 0 \in S
  <2> SUFFICES ASSUME NEW U \in SUBSET T, Cardinality(U) <= 0 PROVE Free(U)
    OBVIOUS
  <2>1. U = {}
    BY FiniteParts
  <2>2. Adds(g, fun, U)
    OBVIOUS
  <2>3. g[U] = 0
    BY <2>1, <2>2 DEF Adds
  <2>4. g[U] \in Nat
    BY <2>3
  <2>5. \A x \in U : g[U] = fun[x] + g[U \ {x}]
    BY <2>1
  <2> QED
    BY <2>4, <2>5
<1>2. ASSUME NEW k \in S PROVE k + 1 \in S
  <2>1. k \in Nat /\ \A V \in SUBSET T : Cardinality(V) <= k => Free(V)
    OBVIOUS
  <2> SUFFICES ASSUME NEW U \in SUBSET T, Cardinality(U) <= k + 1, U # {} PROVE Free(U)
    BY <2>1 DEF Adds
  <2> DEFINE c == Picked(U)
  <2>2. /\ c \in U /\ c \in T /\ U \ {c} \in SUBSET T
        /\ \A x \in U : U \ {x} \in SUBSET T /\ Cardinality(U \ {x}) <= k
    <3>1. Cardinality(U) \in Nat /\ c \in U
          /\ \A x \in U : U \ {x} \in SUBSET T /\ Cardinality(U \ {x}) = Cardinality(U) - 1
      BY FiniteParts
    <3> QED
      BY <2>1, <3>1
  <2>3. g[U] = fun[c] + g[U \ {c}]
    BY DEF Adds
  <2> HIDE DEF c
  <2>4. g[U \ {c}] \in Nat
    BY <2>1, <2>2
  <2>5. ASSUME NEW x \in U, x # c PROVE g[U] = fun[x] + g[U \ {x}]
    <3> DEFINE W == (U \ {c}) \ {x}
    <3>1. Free(U \ {c}) /\ Free(U \ {x}) /\ W \in SUBSET T
      BY <2>1, <2>2
    <3>2. g[U \ {c}] = fun[x] + g[W]
      BY <2>5, <3>1
    <3>3. (U \ {x}) \ {c} = W /\ c \in U \ {x}
      BY <2>2, <2>5
    <3>4. g[U \ {x}] = fun[c] + g[W]
      BY <3>1, <3>3
    <3>5. g[W] \in Nat
      <4> DEFINE V == U \ {c}
      <4>1. IsFiniteSet(V) /\ Cardinality(V) \in Nat /\ Cardinality(V) <= k
        BY <2>2, FiniteParts
      <4>2. W \in SUBSET V
        OBVIOUS
      <4>3. Cardinality(W) <= Cardinality(V) /\ Cardinality(W) \in Nat
        <5> HIDE DEF V, W
        <5> QED
          BY <3>1, <4>1, <4>2, FS_Subset, FiniteParts
      <4>4. Cardinality(W) <= k
        <5> HIDE DEF V, W
        <5> QED
          BY <2>1, <4>1, <4>3
      <4>5. Free(W)
        <5> HIDE DEF W, Free
        <5> QED
          BY <2>1, <3>1, <4>4
      <4> QED
        BY <4>5
    <3>6. fun[x] \in Nat /\ fun[c] \in Nat
      BY <2>2
    <3> HIDE DEF W
    <3> QED
      BY <2>3, <3>2, <3>4, <3>5, <3>6
  <2>6. g[U] \in Nat
    <3>1. fun[c] \in Nat
      BY <2>2
    <3> QED
      BY <2>3, <2>4, <3>1
  <2>7. \A x \in U : g[U] = fun[x] + g[U \ {x}]
    <3> SUFFICES ASSUME NEW x \in U PROVE g[U] = fun[x] + g[U \ {x}]
      OBVIOUS
    <3>1. CASE x = c
      BY <2>3, <3>1
    <3>2. CASE x # c
      BY <2>5, <3>2
    <3> QED
      BY <3>1, <3>2
  <2> QED
    BY <2>6, <2>7
<1>3. S = Nat
  <2>1. S \in SUBSET Nat
    OBVIOUS
  <2> HIDE DEF S
  <2> QED
    BY <1>1, <1>2, <2>1, SetInduction
<1> SUFFICES ASSUME NEW U \in SUBSET T PROVE Free(U)
  OBVIOUS
<1>4. Cardinality(U) \in Nat
  BY FiniteParts
<1>5. Cardinality(U) \in S
  BY <1>3, <1>4
<1> QED
  BY <1>4, <1>5

\* What was added before does not matter.
LEMMA AddsAgree ==
  ASSUME NEW T, IsFiniteSet(T), NEW fun, \A x \in T : fun[x] \in Nat,
         NEW g, \A U \in SUBSET T : Adds(g, fun, U),
         NEW V \in SUBSET T, NEW h, \A U \in SUBSET V : Adds(h, fun, U)
  PROVE  g[V] = h[V]
<1> DEFINE S == {k \in Nat : \A U \in SUBSET V : Cardinality(U) = k => g[U] = h[U]}
<1>1. 0 \in S
  <2> SUFFICES ASSUME NEW U \in SUBSET V, Cardinality(U) = 0 PROVE g[U] = h[U]
    OBVIOUS
  <2>1. U = {} /\ U \in SUBSET T
    BY FiniteParts
  <2> QED
    BY <2>1 DEF Adds
<1>2. ASSUME NEW k \in S PROVE k + 1 \in S
  <2>1. k \in Nat /\ \A U \in SUBSET V : Cardinality(U) = k => g[U] = h[U]
    OBVIOUS
  <2> SUFFICES ASSUME NEW U \in SUBSET V, Cardinality(U) = k + 1 PROVE g[U] = h[U]
    BY <2>1
  <2>2. U \in SUBSET T /\ U # {}
    BY <2>1, FiniteParts
  <2>3. /\ Picked(U) \in U /\ U \ {Picked(U)} \in SUBSET V
        /\ Cardinality(U \ {Picked(U)}) = k
    <3>1. /\ Picked(U) \in U
          /\ \A x \in U : Cardinality(U \ {x}) = Cardinality(U) - 1
      BY <2>2, FiniteParts
    <3> QED
      BY <2>1, <3>1
  <2>4. g[U \ {Picked(U)}] = h[U \ {Picked(U)}]
    BY <2>1, <2>3
  <2> QED
    BY <2>2, <2>4 DEF Adds
<1>3. S = Nat
  <2>1. S \in SUBSET Nat
    OBVIOUS
  <2> HIDE DEF S
  <2> QED
    BY <1>1, <1>2, <2>1, SetInduction
<1>4. Cardinality(V) \in Nat
  BY FiniteParts
<1>5. Cardinality(V) \in S
  BY <1>3, <1>4
<1> QED
  BY <1>5

\* A sum is a number plus the sum of the others, whichever number that is.
LEMMA SumSplit ==
  ASSUME NEW T, IsFiniteSet(T), NEW fun, \A x \in T : fun[x] \in Nat
  PROVE  /\ SumFunctionOnSet(fun, T) \in Nat
         /\ T = {} => SumFunctionOnSet(fun, T) = 0
         /\ \A x \in T : SumFunctionOnSet(fun, T) = fun[x] + SumFunctionOnSet(fun, T \ {x})
<1>1. PICK g : (\A U \in SUBSET T : Adds(g, fun, U)) /\ SumFunctionOnSet(fun, T) = g[T]
  BY SumUnfolds
<1>2. g[T] \in Nat /\ \A x \in T : g[T] = fun[x] + g[T \ {x}]
  BY <1>1, AnyOrder
<1>3. T = {} => g[T] = 0
  BY <1>1 DEF Adds
<1>4. ASSUME NEW x \in T PROVE SumFunctionOnSet(fun, T \ {x}) = g[T \ {x}]
  <2> DEFINE V == T \ {x}
  <2>1. V \in SUBSET T /\ IsFiniteSet(V) /\ \A y \in V : fun[y] \in Nat
    BY FiniteParts
  <2> HIDE DEF V
  <2>2. PICK h : (\A U \in SUBSET V : Adds(h, fun, U)) /\ SumFunctionOnSet(fun, V) = h[V]
    BY <2>1, SumUnfolds
  <2>3. g[V] = h[V]
    BY <1>1, <2>1, <2>2, AddsAgree
  <2> QED
    BY <2>2, <2>3 DEF V
<1> QED
  BY <1>1, <1>2, <1>3, <1>4

\* Greater numbers have a greater sum.
LEMMA SumMonotone ==
  ASSUME NEW T, IsFiniteSet(T), NEW lesser, NEW greater,
         \A x \in T : lesser[x] \in Nat /\ greater[x] \in Nat /\ lesser[x] <= greater[x]
  PROVE  SumFunctionOnSet(lesser, T) <= SumFunctionOnSet(greater, T)
<1> DEFINE Below(U) == SumFunctionOnSet(lesser, U) <= SumFunctionOnSet(greater, U)
           S == {k \in Nat : \A U \in SUBSET T : Cardinality(U) = k => Below(U)}
<1>0. \A U \in SUBSET T :
        /\ IsFiniteSet(U)
        /\ SumFunctionOnSet(lesser, U) \in Nat /\ SumFunctionOnSet(greater, U) \in Nat
  BY FiniteParts, SumSplit
<1>1. 0 \in S
  <2> SUFFICES ASSUME NEW U \in SUBSET T, Cardinality(U) = 0 PROVE Below(U)
    OBVIOUS
  <2>1. U = {} /\ IsFiniteSet(U)
    BY FiniteParts
  <2>2. SumFunctionOnSet(lesser, U) = 0 /\ SumFunctionOnSet(greater, U) = 0
    BY <2>1, SumSplit
  <2> QED
    BY <2>2
<1>2. ASSUME NEW k \in S PROVE k + 1 \in S
  <2>1. k \in Nat /\ \A U \in SUBSET T : Cardinality(U) = k => Below(U)
    OBVIOUS
  <2> SUFFICES ASSUME NEW U \in SUBSET T, Cardinality(U) = k + 1 PROVE Below(U)
    BY <2>1
  <2>2. Picked(U) \in U /\ U \ {Picked(U)} \in SUBSET T /\ Cardinality(U \ {Picked(U)}) = k
    <3>1. /\ U # {} => Picked(U) \in U
          /\ Cardinality(U) = 0 <=> U = {}
          /\ \A x \in U : U \ {x} \in SUBSET T /\ Cardinality(U \ {x}) = Cardinality(U) - 1
      BY FiniteParts
    <3> QED
      BY <2>1, <3>1
  <2> DEFINE c == Picked(U)
             V == U \ {c}
  <2>3. /\ SumFunctionOnSet(lesser, U) = lesser[c] + SumFunctionOnSet(lesser, V)
        /\ SumFunctionOnSet(greater, U) = greater[c] + SumFunctionOnSet(greater, V)
    BY <1>0, <2>2, SumSplit
  <2>4. Below(V)
    BY <2>1, <2>2
  <2>5. V \in SUBSET T /\ c \in T
    BY <2>2
  <2> HIDE DEF c, V
  <2> QED
    BY <1>0, <2>3, <2>4, <2>5
<1>3. S = Nat
  <2>1. S \in SUBSET Nat
    OBVIOUS
  <2> HIDE DEF S
  <2> QED
    BY <1>1, <1>2, <2>1, SetInduction
<1>4. Cardinality(T) \in Nat /\ T \in SUBSET T
  BY FiniteParts
<1>5. Cardinality(T) \in S
  BY <1>3, <1>4
<1> QED
  BY <1>4, <1>5

LEMMA SumEqual ==
  ASSUME NEW T, IsFiniteSet(T), NEW one, NEW other,
         \A x \in T : one[x] \in Nat /\ other[x] = one[x]
  PROVE  SumFunctionOnSet(one, T) = SumFunctionOnSet(other, T)
<1>1. SumFunctionOnSet(one, T) \in Nat /\ SumFunctionOnSet(other, T) \in Nat
  BY SumSplit
<1>2. \A x \in T : one[x] <= other[x] /\ other[x] <= one[x] /\ other[x] \in Nat
  OBVIOUS
<1>3. SumFunctionOnSet(one, T) <= SumFunctionOnSet(other, T)
  BY <1>2, SumMonotone
<1>4. SumFunctionOnSet(other, T) <= SumFunctionOnSet(one, T)
  BY <1>2, SumMonotone
<1> QED
  BY <1>1, <1>3, <1>4

\* The last number of a sequence.
LEMMA SumLast ==
  ASSUME NEW n \in Nat, NEW fun, \A i \in 1..n + 1 : fun[i] \in Nat
  PROVE  SumFunctionOnSet(fun, 1..n + 1) = SumFunctionOnSet(fun, 1..n) + fun[n + 1]
<1>1. IsFiniteSet(1..n + 1) /\ n + 1 \in 1..n + 1 /\ (1..n + 1) \ {n + 1} = 1..n
  <2>1. 1 \in Int /\ n + 1 \in Int
    OBVIOUS
  <2>2. IsFiniteSet(1..n + 1)
    BY <2>1, FS_Interval
  <2> QED
    BY <2>2
<1>2. SumFunctionOnSet(fun, 1..n + 1) = fun[n + 1] + SumFunctionOnSet(fun, 1..n)
  BY <1>1, SumSplit
<1>3. IsFiniteSet(1..n) /\ \A i \in 1..n : fun[i] \in Nat
  BY <1>1, FS_Subset
<1>4. SumFunctionOnSet(fun, 1..n) \in Nat
  BY <1>3, SumSplit
<1> QED
  BY <1>1, <1>2, <1>4
=============================================================================
