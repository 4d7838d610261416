------------------------------ MODULE Arithmetic ------------------------------
(***************************************************************************)
(* The facts about numbers the proofs cite: products and quotients of      *)
(* integers, sums of them over finite sets and term by term, the fractions *)
(* of Rational, whose operations are shown to be those of the numbers they *)
(* stand for, and quadratic forms.                                         *)
(*                                                                         *)
(* Induction is by the smallest counterexample: the set of all             *)
(* counterexamples, if it is not empty, has a least member.  The sum over  *)
(* a set is SumFunctionOnSet of the community modules, whose recursion is  *)
(* shown to have one solution first; so is that of Euclid's algorithm, of  *)
(* the comparison of fractions and of a sum term by term.                  *)
(***************************************************************************)
EXTENDS Rational, FiniteSetsExt, FiniteSetTheorems, SequenceTheorems,
        WellFoundedInduction, TLAPS
-----------------------------------------------------------------------------
(* Products and quotients.                                                 *)

LEMMA ProductIsNat ==
  ASSUME NEW a \in Nat, NEW b \in Nat
  PROVE  a * b \in Nat
OBVIOUS

LEMMA ProductIsPositive ==
  ASSUME NEW a \in Nat \ {0}, NEW b \in Nat \ {0}
  PROVE  a * b \in Nat \ {0}
OBVIOUS

LEMMA QuotientIsNat ==
  ASSUME NEW a \in Nat, NEW b \in Nat \ {0}
  PROVE  a \div b \in Nat
OBVIOUS

LEMMA Distributes ==
  ASSUME NEW k \in Int, NEW a \in Int, NEW b \in Int
  PROVE  k * (a + b) = k * a + k * b
OBVIOUS

LEMMA ProductIsMonotone ==
  ASSUME NEW a \in Int, NEW b \in Int, NEW n \in Nat, a <= b
  PROVE  a * n <= b * n
<1> DEFINE d == b - a
<1>1. d \in Nat /\ b = a + d
  OBVIOUS
<1> HIDE DEF d
<1>2. d * n \in Nat /\ a * n \in Int
  BY <1>1, ProductIsNat
<1>3. b * n = a * n + d * n
  BY <1>1
<1> QED
  BY <1>2, <1>3

LEMMA Cancels ==
  ASSUME NEW a \in Int, NEW b \in Int, NEW n \in Nat \ {0}, a * n <= b * n
  PROVE  a <= b
<1> SUFFICES ASSUME b < a PROVE FALSE
  OBVIOUS
<1>1. (b + 1) * n <= a * n
  BY ProductIsMonotone
<1>2. (b + 1) * n = b * n + n
  OBVIOUS
<1>3. a * n \in Int /\ b * n \in Int
  OBVIOUS
<1> QED
  BY <1>1, <1>2, <1>3

\* A quotient is rounded down, by less than one.
LEMMA RoundedDown ==
  ASSUME NEW a \in Int, NEW n \in Nat \ {0}
  PROVE  /\ a \div n \in Int
         /\ (a \div n) * n <= a
         /\ a < (a \div n) * n + n
OBVIOUS
-----------------------------------------------------------------------------
(* Smallest counterexamples.                                               *)

\* A set of subsets of a finite set has one that contains no other.
LEMMA SmallestSet ==
  ASSUME NEW S, IsFiniteSet(S), NEW B \in SUBSET (SUBSET S), B # {}
  PROVE  \E T \in B : \A U \in B : U \subseteq T => U = T
<1>1. IsWellFoundedOn(StrictSubsetOrdering(S), FiniteSubsetsOf(S))
  BY FS_StrictSubsetOrderingWellFounded
<1>2. FiniteSubsetsOf(S) = SUBSET S
  BY FS_FiniteSubsetsOfFinite
<1>3. \E T \in B : \A U \in B : ~ (<<U, T>> \in StrictSubsetOrdering(S))
  BY <1>1, <1>2, WFMin
<1> QED
  BY <1>3 DEF StrictSubsetOrdering

\* A family of finite sets that has a set whenever it has what is left of it
\* without any one element has them all.
LEMMA SetInduction ==
  ASSUME NEW S, IsFiniteSet(S), NEW G,
         \A T \in SUBSET S : (\A x \in T : T \ {x} \in G) => T \in G
  PROVE  S \in G
<1> DEFINE B == {T \in SUBSET S : T \notin G}
<1>1. ASSUME B # {} PROVE FALSE
  <2>1. PICK T \in B : \A U \in B : U \subseteq T => U = T
    <3>1. B \in SUBSET (SUBSET S)
      OBVIOUS
    <3> HIDE DEF B
    <3> QED
      BY <1>1, <3>1, SmallestSet
  <2>2. ASSUME NEW x \in T PROVE T \ {x} \in G
    BY <2>1
  <2> QED
    BY <2>1, <2>2
<1> QED
  BY <1>1

\* A set of natural numbers has a least one.
LEMMA SmallestNat ==
  ASSUME NEW B \in SUBSET Nat, B # {}
  PROVE  \E n \in B : \A m \in B : n <= m
<1> DEFINE R == {p \in Nat \X Nat : p[1] < p[2]}
<1>1. IsWellFoundedOn(R, Nat)
  BY NatLessThanWellFounded DEF OpToRel
<1>2. \A m, n \in Nat : m < n => <<m, n>> \in R
  OBVIOUS
<1> HIDE DEF R
<1>3. PICK n \in B : \A m \in B : ~ (<<m, n>> \in R)
  BY <1>1, WFMin
<1>4. \A m \in B : ~ (m < n)
  BY <1>2, <1>3
<1> QED
  BY <1>3, <1>4
-----------------------------------------------------------------------------
(* The recursion of a sum has one solution.                                *)

\* The sum of the values of f on S.
Total(f, S) == SumFunctionOnSet(f, S)

\* The element a sum counts first.
First(t) == CHOOSE x \in t : TRUE

\* g is a solution of the recursion for the sum of f over the subsets of S.
Adds(g, f, S) ==
  g = [t \in SUBSET S |-> IF t = {} THEN 0 ELSE f[First(t)] + g[t \ {First(t)}]]

\* The sum is what some solution of the recursion says of the whole set.
LEMMA SumIsASolution ==
  ASSUME NEW f, NEW S
  PROVE  Total(f, S) = (CHOOSE g : Adds(g, f, S))[S]
BY DEF Total, SumFunctionOnSet, FoldFunctionOnSet, MapThenFoldSet, Adds, First

LEMMA FirstIsIn == ASSUME NEW t, t # {} PROVE First(t) \in t
BY DEF First

LEMMA AddsStep ==
  ASSUME NEW f, NEW S, NEW g, Adds(g, f, S)
  PROVE  \A t \in SUBSET S :
           g[t] = IF t = {} THEN 0 ELSE f[First(t)] + g[t \ {First(t)}]
BY DEF Adds

\* Two solutions are the same one.
LEMMA AddsOnce ==
  ASSUME NEW f, NEW S, IsFiniteSet(S), NEW g, NEW h, Adds(g, f, S), Adds(h, f, S)
  PROVE  g = h
<1> DEFINE B == {t \in SUBSET S : g[t] # h[t]}
<1>0. g[{}] = 0 /\ h[{}] = 0
  <2>1. {} \in SUBSET S
    OBVIOUS
  <2> QED
    BY <2>1, AddsStep
<1>1. ASSUME B # {} PROVE FALSE
  <2>1. PICK T \in B : \A U \in B : U \subseteq T => U = T
    <3>1. B \in SUBSET (SUBSET S)
      OBVIOUS
    <3> HIDE DEF B
    <3> QED
      BY <1>1, <3>1, SmallestSet
  <2>2. T # {}
    BY <1>0, <2>1
  <2>3. First(T) \in T
    BY <2>2, FirstIsIn
  <2>4. g[T \ {First(T)}] = h[T \ {First(T)}]
    BY <2>1, <2>3
  <2> QED
    BY <2>1, <2>2, <2>4, AddsStep
<1>2. \A t \in SUBSET S : g[t] = h[t]
  BY <1>1
<1>3. g = [t \in SUBSET S |-> g[t]] /\ h = [t \in SUBSET S |-> h[t]]
  BY DEF Adds
<1> QED
  BY <1>2, <1>3

\* A solution for a set is one for each part of it.
LEMMA AddsWithin ==
  ASSUME NEW f, NEW S, NEW T \in SUBSET S, NEW g, Adds(g, f, S)
  PROVE  Adds([t \in SUBSET T |-> g[t]], f, T)
<1> DEFINE h == [t \in SUBSET T |-> g[t]]
<1>1. ASSUME NEW t \in SUBSET T
      PROVE  h[t] = IF t = {} THEN 0 ELSE f[First(t)] + h[t \ {First(t)}]
  BY DEF Adds
<1> HIDE DEF h
<1>2. h = [t \in SUBSET T |-> h[t]]
  BY DEF h
<1>3. h = [t \in SUBSET T |-> IF t = {} THEN 0 ELSE f[First(t)] + h[t \ {First(t)}]]
  BY <1>1, <1>2
<1> QED
  BY <1>3 DEF Adds, h

\* There is a solution for every finite set, put together from those of its
\* proper parts.
LEMMA SumsExist ==
  ASSUME NEW f, NEW S, IsFiniteSet(S)
  PROVE  \A T \in SUBSET S : \E g : Adds(g, f, T)
<1> DEFINE B == {T \in SUBSET S : ~ \E g : Adds(g, f, T)}
<1>1. ASSUME B # {} PROVE FALSE
  <2>1. PICK T \in B : \A U \in B : U \subseteq T => U = T
    <3>1. B \in SUBSET (SUBSET S)
      OBVIOUS
    <3> HIDE DEF B
    <3> QED
      BY <1>1, <3>1, SmallestSet
  <2> DEFINE Of(t) == CHOOSE g : Adds(g, f, t)
             x == First(T)
             G == [t \in SUBSET T |->
                     IF t # T THEN Of(t)[t]
                     ELSE IF T = {} THEN 0 ELSE f[x] + Of(T \ {x})[T \ {x}]]
  <2>2. ASSUME NEW t \in SUBSET T, t # T PROVE Adds(Of(t), f, t) /\ IsFiniteSet(t)
    <3>1. \E g : Adds(g, f, t)
      BY <2>1, <2>2
    <3> QED
      BY <2>1, <3>1, FS_Subset
  <2>3. ASSUME NEW t \in SUBSET T, t # T, NEW u \in SUBSET t PROVE Of(t)[u] = Of(u)[u]
    <3>1. Adds([v \in SUBSET u |-> Of(t)[v]], f, u)
      BY <2>2, <2>3, AddsWithin
    <3>2. u \in SUBSET T /\ u # T
      BY <2>3
    <3>3. Adds(Of(u), f, u) /\ IsFiniteSet(u)
      BY <2>2, <3>2
    <3>4. [v \in SUBSET u |-> Of(t)[v]] = Of(u)
      BY <3>1, <3>3, AddsOnce
    <3> HIDE DEF Of
    <3> QED
      BY <3>4
  <2>4. ASSUME NEW t \in SUBSET T, t # T, t # {}
        PROVE  Of(t)[t] = f[First(t)] + Of(t \ {First(t)})[t \ {First(t)}]
    <3>1. Of(t)[t] = f[First(t)] + Of(t)[t \ {First(t)}]
      <4> HIDE DEF Of
      <4> QED
        BY <2>2, <2>4, AddsStep
    <3> QED
      BY <2>3, <2>4, <3>1
  <2>5. ASSUME NEW t \in SUBSET T, t = {}, t # T PROVE Of(t)[t] = 0
    <3> HIDE DEF Of
    <3> QED
      BY <2>2, <2>5, AddsStep
  <2> HIDE DEF Of
  <2>6. ASSUME NEW t \in SUBSET T
        PROVE  G[t] = IF t = {} THEN 0 ELSE f[First(t)] + G[t \ {First(t)}]
    <3>1. CASE t = {}
      BY <2>5, <3>1
    <3>2. CASE t # {}
      <4>1. First(t) \in t
        BY <3>2, FirstIsIn
      <4>2. t \ {First(t)} \in SUBSET T /\ t \ {First(t)} # T
        BY <4>1
      <4>3. G[t \ {First(t)}] = Of(t \ {First(t)})[t \ {First(t)}]
        BY <4>2
      <4> QED
        BY <2>4, <3>2, <4>3
    <3> QED
      BY <3>1, <3>2
  <2>7. G = [t \in SUBSET T |-> G[t]]
    OBVIOUS
  <2> HIDE DEF G
  <2>8. G = [t \in SUBSET T |-> IF t = {} THEN 0 ELSE f[First(t)] + G[t \ {First(t)}]]
    BY <2>6, <2>7
  <2>9. Adds(G, f, T)
    BY <2>8 DEF Adds
  <2> QED
    BY <2>1, <2>9
<1> QED
  BY <1>1

\* The recursion of the sum itself.
LEMMA SumUnfolds ==
  ASSUME NEW f, NEW S, IsFiniteSet(S)
  PROVE  Total(f, S) = IF S = {} THEN 0 ELSE f[First(S)] + Total(f, S \ {First(S)})
<1> DEFINE Of(t) == CHOOSE g : Adds(g, f, t)
           T == S \ {First(S)}
<1>1. Adds(Of(S), f, S)
  BY SumsExist
<1>2. IsFiniteSet(T) /\ T \in SUBSET S
  BY FS_Subset
<1>3. Adds(Of(T), f, T)
  BY <1>2, SumsExist
<1>4. Total(f, S) = Of(S)[S] /\ Total(f, T) = Of(T)[T]
  BY SumIsASolution
<1>5. Of(T) = [t \in SUBSET T |-> Of(S)[t]]
  <2> HIDE DEF Of, T
  <2>1. Adds([t \in SUBSET T |-> Of(S)[t]], f, T)
    BY <1>1, <1>2, AddsWithin
  <2> QED
    BY <1>2, <1>3, <2>1, AddsOnce
<1> HIDE DEF Of, T
<1>6. Of(T)[T] = Of(S)[T]
  BY <1>5
<1>7. Of(S)[S] = IF S = {} THEN 0 ELSE f[First(S)] + Of(S)[T]
  BY <1>1, AddsStep DEF T
<1> QED
  BY <1>4, <1>6, <1>7 DEF T

LEMMA SumOfNone == ASSUME NEW f PROVE Total(f, {}) = 0
BY SumUnfolds, FS_EmptySet

\* The sum of integers is an integer, of natural numbers a natural number.
LEMMA SumIsInt ==
  ASSUME NEW f, NEW S, IsFiniteSet(S), \A x \in S : f[x] \in Int
  PROVE  Total(f, S) \in Int
<1> DEFINE G == {T \in SUBSET S : Total(f, T) \in Int}
<1>1. ASSUME NEW T \in SUBSET S, \A x \in T : T \ {x} \in G
      PROVE  T \in G
  <2>1. IsFiniteSet(T)
    BY FS_Subset
  <2>2. CASE T = {}
    BY <2>2, SumOfNone
  <2>3. CASE T # {}
    <3>1. First(T) \in T
      BY <2>3, FirstIsIn
    <3>2. Total(f, T) = f[First(T)] + Total(f, T \ {First(T)})
      BY <2>1, <2>3, SumUnfolds
    <3> QED
      BY <1>1, <3>1, <3>2
  <2> QED
    BY <2>2, <2>3
<1> HIDE DEF G
<1>2. \A T \in SUBSET S : (\A x \in T : T \ {x} \in G) => T \in G
  BY <1>1
<1>3. S \in G
  BY <1>2, SetInduction
<1> QED
  BY <1>3 DEF G

LEMMA SumIsNat ==
  ASSUME NEW f, NEW S, IsFiniteSet(S), \A x \in S : f[x] \in Nat
  PROVE  Total(f, S) \in Nat
<1> DEFINE G == {T \in SUBSET S : Total(f, T) \in Nat}
<1>1. ASSUME NEW T \in SUBSET S, \A x \in T : T \ {x} \in G
      PROVE  T \in G
  <2>1. IsFiniteSet(T)
    BY FS_Subset
  <2>2. CASE T = {}
    BY <2>2, SumOfNone
  <2>3. CASE T # {}
    <3>1. First(T) \in T
      BY <2>3, FirstIsIn
    <3>2. Total(f, T) = f[First(T)] + Total(f, T \ {First(T)})
      BY <2>1, <2>3, SumUnfolds
    <3> QED
      BY <1>1, <3>1, <3>2
  <2> QED
    BY <2>2, <2>3
<1> HIDE DEF G
<1>2. \A T \in SUBSET S : (\A x \in T : T \ {x} \in G) => T \in G
  BY <1>1
<1>3. S \in G
  BY <1>2, SetInduction
<1> QED
  BY <1>3 DEF G

\* Any element may be counted first.
LEMMA SumSplits ==
  ASSUME NEW f, NEW S, IsFiniteSet(S), \A x \in S : f[x] \in Int, NEW a \in S
  PROVE  Total(f, S) = f[a] + Total(f, S \ {a})
<1> DEFINE G == {T \in SUBSET S : \A x \in T : Total(f, T) = f[x] + Total(f, T \ {x})}
<1>1. ASSUME NEW T \in SUBSET S, \A x \in T : T \ {x} \in G, NEW x \in T
      PROVE  Total(f, T) = f[x] + Total(f, T \ {x})
  <2> DEFINE y == First(T)
             U == (T \ {x}) \ {y}
  <2>1. /\ IsFiniteSet(T) /\ IsFiniteSet(T \ {x}) /\ IsFiniteSet(U)
        /\ T \ {x} \in SUBSET S
    BY FS_Subset
  <2>2. y \in T /\ Total(f, T) = f[y] + Total(f, T \ {y})
    BY <2>1, SumUnfolds, FirstIsIn
  <2> HIDE DEF y
  <2>3. CASE x = y
    BY <2>2, <2>3
  <2>4. CASE x # y
    <3>1. T \ {y} \in G /\ T \ {x} \in G /\ x \in T \ {y} /\ y \in T \ {x}
      BY <1>1, <2>2, <2>4
    <3>2. (T \ {y}) \ {x} = U
      OBVIOUS
    <3>3. Total(f, T \ {y}) = f[x] + Total(f, U)
      BY <3>1, <3>2
    <3>4. Total(f, T \ {x}) = f[y] + Total(f, U)
      BY <3>1
    <3>5. Total(f, U) \in Int /\ f[x] \in Int /\ f[y] \in Int
      BY <2>1, <2>2, SumIsInt
    <3> HIDE DEF U, G
    <3> QED
      BY <2>2, <3>3, <3>4, <3>5
  <2> QED
    BY <2>3, <2>4
<1>2. ASSUME NEW T \in SUBSET S, \A x \in T : T \ {x} \in G
      PROVE  T \in G
  BY <1>1, <1>2
<1> HIDE DEF G
<1>3. \A T \in SUBSET S : (\A x \in T : T \ {x} \in G) => T \in G
  BY <1>2
<1>4. S \in G
  BY <1>3, SetInduction
<1> QED
  BY <1>4 DEF G

\* No part is more than the whole.
LEMMA SumHasPart ==
  ASSUME NEW f, NEW S, IsFiniteSet(S), \A x \in S : f[x] \in Nat, NEW a \in S
  PROVE  f[a] <= Total(f, S)
<1>1. IsFiniteSet(S \ {a})
  BY FS_Subset
<1>2. Total(f, S \ {a}) \in Nat
  BY <1>1, SumIsNat
<1>3. Total(f, S) = f[a] + Total(f, S \ {a})
  BY SumSplits
<1> QED
  BY <1>2, <1>3

\* Sums are monotone, additive and homogeneous.
LEMMA SumMonotone ==
  ASSUME NEW S, IsFiniteSet(S), NEW f, NEW g,
         \A x \in S : f[x] \in Int /\ g[x] \in Int /\ f[x] <= g[x]
  PROVE  Total(f, S) <= Total(g, S)
<1> DEFINE G == {T \in SUBSET S : Total(f, T) <= Total(g, T)}
<1>1. ASSUME NEW T \in SUBSET S, \A x \in T : T \ {x} \in G
      PROVE  Total(f, T) <= Total(g, T)
  <2>1. IsFiniteSet(T)
    BY FS_Subset
  <2>2. CASE T = {}
    BY <2>2, SumOfNone
  <2>3. CASE T # {}
    <3>1. PICK x \in T : TRUE
      BY <2>3
    <3>2. IsFiniteSet(T \ {x}) /\ \A y \in T : f[y] \in Int /\ g[y] \in Int
      BY <2>1, FS_Subset
    <3>3. Total(f, T) = f[x] + Total(f, T \ {x}) /\ Total(g, T) = g[x] + Total(g, T \ {x})
      BY <2>1, <3>2, SumSplits
    <3>4. Total(f, T \ {x}) \in Int /\ Total(g, T \ {x}) \in Int
      BY <3>2, SumIsInt
    <3>5. Total(f, T \ {x}) <= Total(g, T \ {x}) /\ f[x] <= g[x]
      BY <1>1
    <3> QED
      BY <3>2, <3>3, <3>4, <3>5
  <2> QED
    BY <2>2, <2>3
<1>2. ASSUME NEW T \in SUBSET S, \A x \in T : T \ {x} \in G
      PROVE  T \in G
  BY <1>1, <1>2
<1> HIDE DEF G
<1>3. \A T \in SUBSET S : (\A x \in T : T \ {x} \in G) => T \in G
  BY <1>2
<1>4. S \in G
  BY <1>3, SetInduction
<1> QED
  BY <1>4 DEF G

LEMMA SumPlus ==
  ASSUME NEW S, IsFiniteSet(S), NEW f, NEW g, NEW h,
         \A x \in S : f[x] \in Int /\ g[x] \in Int /\ h[x] = f[x] + g[x]
  PROVE  Total(h, S) = Total(f, S) + Total(g, S)
<1> DEFINE G == {T \in SUBSET S : Total(h, T) = Total(f, T) + Total(g, T)}
<1>1. ASSUME NEW T \in SUBSET S, \A x \in T : T \ {x} \in G
      PROVE  Total(h, T) = Total(f, T) + Total(g, T)
  <2>1. IsFiniteSet(T)
    BY FS_Subset
  <2>2. CASE T = {}
    BY <2>2, SumOfNone
  <2>3. CASE T # {}
    <3>1. PICK x \in T : TRUE
      BY <2>3
    <3>2. /\ IsFiniteSet(T \ {x})
          /\ \A y \in T : f[y] \in Int /\ g[y] \in Int /\ h[y] \in Int
      BY <2>1, FS_Subset
    <3>3. /\ Total(f, T) = f[x] + Total(f, T \ {x}) /\ Total(g, T) = g[x] + Total(g, T \ {x})
          /\ Total(h, T) = h[x] + Total(h, T \ {x})
      BY <2>1, <3>2, SumSplits
    <3>4. Total(f, T \ {x}) \in Int /\ Total(g, T \ {x}) \in Int
      BY <3>2, SumIsInt
    <3>5. Total(h, T \ {x}) = Total(f, T \ {x}) + Total(g, T \ {x}) /\ h[x] = f[x] + g[x]
      BY <1>1
    <3> QED
      BY <3>2, <3>3, <3>4, <3>5
  <2> QED
    BY <2>2, <2>3
<1>2. ASSUME NEW T \in SUBSET S, \A x \in T : T \ {x} \in G
      PROVE  T \in G
  BY <1>1, <1>2
<1> HIDE DEF G
<1>3. \A T \in SUBSET S : (\A x \in T : T \ {x} \in G) => T \in G
  BY <1>2
<1>4. S \in G
  BY <1>3, SetInduction
<1> QED
  BY <1>4 DEF G

LEMMA SumTimes ==
  ASSUME NEW S, IsFiniteSet(S), NEW k \in Int, NEW f, NEW g,
         \A x \in S : f[x] \in Int /\ g[x] = k * f[x]
  PROVE  Total(g, S) = k * Total(f, S)
<1> DEFINE G == {T \in SUBSET S : Total(g, T) = k * Total(f, T)}
<1>1. ASSUME NEW T \in SUBSET S, \A x \in T : T \ {x} \in G
      PROVE  Total(g, T) = k * Total(f, T)
  <2>1. IsFiniteSet(T)
    BY FS_Subset
  <2>2. CASE T = {}
    BY <2>2, SumOfNone
  <2>3. CASE T # {}
    <3>1. PICK x \in T : TRUE
      BY <2>3
    <3>2. /\ IsFiniteSet(T \ {x})
          /\ \A y \in T : f[y] \in Int /\ g[y] \in Int
      BY <2>1, FS_Subset
    <3>3. Total(f, T) = f[x] + Total(f, T \ {x}) /\ Total(g, T) = g[x] + Total(g, T \ {x})
      BY <2>1, <3>2, SumSplits
    <3>4. Total(f, T \ {x}) \in Int
      BY <3>2, SumIsInt
    <3>5. Total(g, T \ {x}) = k * Total(f, T \ {x}) /\ g[x] = k * f[x]
      BY <1>1
    <3>6. k * (f[x] + Total(f, T \ {x})) = k * f[x] + k * Total(f, T \ {x})
      BY <3>2, <3>4, Distributes
    <3> QED
      BY <3>3, <3>5, <3>6
  <2> QED
    BY <2>2, <2>3
<1>2. ASSUME NEW T \in SUBSET S, \A x \in T : T \ {x} \in G
      PROVE  T \in G
  BY <1>1, <1>2
<1> HIDE DEF G
<1>3. \A T \in SUBSET S : (\A x \in T : T \ {x} \in G) => T \in G
  BY <1>2
<1>4. S \in G
  BY <1>3, SetInduction
<1> QED
  BY <1>4 DEF G

\* A sum is that of the values on the set only.
LEMMA SumAgrees ==
  ASSUME NEW S, IsFiniteSet(S), NEW f, NEW g,
         \A x \in S : f[x] \in Int /\ f[x] = g[x]
  PROVE  Total(f, S) = Total(g, S)
<1>1. Total(f, S) <= Total(g, S) /\ Total(g, S) <= Total(f, S)
  BY SumMonotone
<1>2. Total(f, S) \in Int /\ Total(g, S) \in Int
  BY SumIsInt
<1> QED
  BY <1>1, <1>2

\* A sum after the value at one place has changed.
LEMMA SumMoves ==
  ASSUME NEW S, IsFiniteSet(S), NEW f, NEW g, NEW a \in S,
         \A x \in S : f[x] \in Int /\ g[x] \in Int /\ (x # a => f[x] = g[x])
  PROVE  Total(g, S) = Total(f, S) - f[a] + g[a]
<1>1. IsFiniteSet(S \ {a})
  BY FS_Subset
<1>2. Total(f, S \ {a}) = Total(g, S \ {a})
  BY <1>1, SumAgrees
<1>3. Total(f, S) = f[a] + Total(f, S \ {a}) /\ Total(g, S) = g[a] + Total(g, S \ {a})
  BY SumSplits
<1>4. Total(f, S \ {a}) \in Int
  BY <1>1, SumIsInt
<1> QED
  BY <1>2, <1>3, <1>4
-----------------------------------------------------------------------------
(* Sums of rounded values.                                                 *)

\* Scaled down by n / d, a sum is scaled down by as much at least.
LEMMA SumScaled ==
  ASSUME NEW S, IsFiniteSet(S), NEW g, NEW h, NEW n \in Nat, NEW d \in Nat \ {0},
         NEW m \in Int,
         \A x \in S : g[x] \in Int /\ h[x] \in Int /\ h[x] * d <= g[x] * n,
         n * Total(g, S) <= m * d
  PROVE  Total(h, S) <= m
<1> DEFINE k == [x \in S |-> d * h[x]]
           l == [x \in S |-> n * g[x]]
<1>1. Total(k, S) = d * Total(h, S)
  <2>1. \A x \in S : h[x] \in Int /\ k[x] = d * h[x]
    OBVIOUS
  <2> HIDE DEF k
  <2> QED
    BY <2>1, SumTimes
<1>2. Total(l, S) = n * Total(g, S)
  <2>1. \A x \in S : g[x] \in Int /\ l[x] = n * g[x]
    OBVIOUS
  <2> HIDE DEF l
  <2> QED
    BY <2>1, SumTimes
<1>3. Total(k, S) <= Total(l, S)
  <2>1. \A x \in S : k[x] \in Int /\ l[x] \in Int /\ k[x] <= l[x]
    OBVIOUS
  <2> HIDE DEF k, l
  <2> QED
    BY <2>1, SumMonotone
<1> HIDE DEF k, l
<1>4. Total(h, S) \in Int /\ Total(g, S) \in Int
  BY SumIsInt
<1>5. Total(h, S) * d <= m * d
  <2> DEFINE H == Total(h, S)
             G == Total(g, S)
  <2>1. d * H <= n * G /\ n * G <= m * d /\ H \in Int /\ G \in Int
    BY <1>1, <1>2, <1>3, <1>4
  <2> HIDE DEF H, G
  <2>2. d * H = H * d /\ H * d \in Int /\ n * G \in Int /\ m * d \in Int
    BY <2>1
  <2>3. H * d <= m * d
    BY <2>1, <2>2
  <2> QED
    BY <2>3 DEF H
<1> QED
  BY <1>4, <1>5, Cancels

\* What is between two books is under every limit on a sum they are under.
LEMMA SumBlended ==
  ASSUME NEW S, IsFiniteSet(S), NEW f, NEW g, NEW h,
         NEW n \in Nat, NEW d \in Nat \ {0}, n <= d, NEW m \in Int,
         \A x \in S : /\ f[x] \in Int /\ g[x] \in Int /\ h[x] \in Int
                      /\ h[x] * d <= f[x] * (d - n) + g[x] * n,
         Total(f, S) <= m, Total(g, S) <= m
  PROVE  Total(h, S) <= m
<1> DEFINE F == [x \in S |-> (d - n) * f[x]]
           G == [x \in S |-> n * g[x]]
           both == [x \in S |-> F[x] + G[x]]
           H == [x \in S |-> d * h[x]]
<1>1. d - n \in Nat
  OBVIOUS
<1>2. \A x \in S : /\ f[x] \in Int /\ g[x] \in Int /\ h[x] \in Int
                   /\ F[x] = (d - n) * f[x] /\ G[x] = n * g[x] /\ H[x] = d * h[x]
                   /\ both[x] = F[x] + G[x]
  OBVIOUS
<1>3. \A x \in S : F[x] \in Int /\ G[x] \in Int /\ H[x] \in Int /\ both[x] \in Int
  <2> HIDE DEF F, G, H, both
  <2> QED
    BY <1>1, <1>2
<1>4. \A x \in S : H[x] <= both[x]
  <2> SUFFICES ASSUME NEW x \in S PROVE H[x] <= both[x]
    OBVIOUS
  <2>1. h[x] * d = d * h[x] /\ f[x] * (d - n) = (d - n) * f[x] /\ g[x] * n = n * g[x]
    OBVIOUS
  <2> QED
    BY <2>1
<1> HIDE DEF F, G, H, both
<1>5. /\ Total(F, S) = (d - n) * Total(f, S)
      /\ Total(G, S) = n * Total(g, S)
      /\ Total(H, S) = d * Total(h, S)
  BY <1>1, <1>2, SumTimes
<1>6. Total(H, S) <= Total(F, S) + Total(G, S)
  <2>1. Total(both, S) = Total(F, S) + Total(G, S)
    BY <1>2, <1>3, SumPlus
  <2>2. Total(H, S) <= Total(both, S)
    BY <1>3, <1>4, SumMonotone
  <2> QED
    BY <2>1, <2>2
<1>7. Total(f, S) \in Int /\ Total(g, S) \in Int /\ Total(h, S) \in Int
  BY SumIsInt
<1> DEFINE a == Total(f, S)
           b == Total(g, S)
           c == Total(h, S)
<1>8. /\ a \in Int /\ b \in Int /\ c \in Int /\ a <= m /\ b <= m
      /\ d * c <= (d - n) * a + n * b
  BY <1>5, <1>6, <1>7
<1> HIDE DEF a, b, c
<1>9. a * (d - n) <= m * (d - n) /\ b * n <= m * n
  BY <1>1, <1>8, ProductIsMonotone
<1>10. /\ a * (d - n) = (d - n) * a /\ b * n = n * b /\ d * c = c * d
       /\ m * (d - n) + m * n = m * d
       /\ a * (d - n) \in Int /\ b * n \in Int /\ c * d \in Int
       /\ m * (d - n) \in Int /\ m * n \in Int /\ m * d \in Int
  BY <1>8
<1>11. c * d <= m * d
  BY <1>8, <1>9, <1>10
<1>12. c <= m
  BY <1>8, <1>11, Cancels
<1> QED
  BY <1>12 DEF c

\* As many ones as there are elements.
LEMMA SumOfOnes ==
  ASSUME NEW S, IsFiniteSet(S), NEW f, \A x \in S : f[x] = 1
  PROVE  Total(f, S) = Cardinality(S)
<1> DEFINE G == {T \in SUBSET S : Total(f, T) = Cardinality(T)}
<1>1. ASSUME NEW T \in SUBSET S, \A x \in T : T \ {x} \in G
      PROVE  Total(f, T) = Cardinality(T)
  <2>1. IsFiniteSet(T)
    BY FS_Subset
  <2>2. CASE T = {}
    BY <2>2, SumOfNone, FS_EmptySet
  <2>3. CASE T # {}
    <3>1. PICK x \in T : TRUE
      BY <2>3
    <3>2. Total(f, T) = 1 + Total(f, T \ {x})
      BY <2>1, SumSplits
    <3>3. Total(f, T \ {x}) = Cardinality(T \ {x})
      BY <1>1
    <3>4. Cardinality(T \ {x}) = Cardinality(T) - 1 /\ Cardinality(T) \in Nat
      BY <2>1, FS_RemoveElement, FS_CardinalityType
    <3> QED
      BY <3>2, <3>3, <3>4
  <2> QED
    BY <2>2, <2>3
<1>2. ASSUME NEW T \in SUBSET S, \A x \in T : T \ {x} \in G
      PROVE  T \in G
  BY <1>1, <1>2
<1> HIDE DEF G
<1>3. \A T \in SUBSET S : (\A x \in T : T \ {x} \in G) => T \in G
  BY <1>2
<1>4. S \in G
  BY <1>3, SetInduction
<1> QED
  BY <1>4 DEF G
-----------------------------------------------------------------------------
(* Divisors.                                                               *)

LEMMA CancelsEqual ==
  ASSUME NEW a \in Int, NEW b \in Int, NEW n \in Nat \ {0}, a * n = b * n
  PROVE  a = b
<1>1. a <= b
  BY Cancels
<1>2. b <= a
  BY Cancels
<1> QED
  BY <1>1, <1>2

LEMMA Divided ==
  ASSUME NEW m \in Nat, NEW n \in Nat \ {0}
  PROVE  /\ m \div n \in Nat /\ m % n \in Nat /\ m % n < n
         /\ m = n * (m \div n) + (m % n)
OBVIOUS

LEMMA DividedInt ==
  ASSUME NEW m \in Int, NEW n \in Nat \ {0}
  PROVE  /\ m \div n \in Int /\ m % n \in Nat /\ m % n < n
         /\ m = n * (m \div n) + (m % n)
OBVIOUS

\* What a product is divided by, it gives back.
LEMMA QuotientOfProduct ==
  ASSUME NEW g \in Nat \ {0}, NEW i \in Int
  PROVE  (g * i) \div g = i
<1> DEFINE m == g * i
           q == m \div g
           r == m % g
<1>1. m \in Int
  OBVIOUS
<1>2. q \in Int /\ r \in Nat /\ r < g /\ m = g * q + r
  <2> HIDE DEF m
  <2> QED
    BY <1>1, DividedInt
<1>3. r = g * (i - q)
  <2>1. g * i = g * q + r /\ r \in Int /\ q \in Int
    BY <1>2 DEF m
  <2> HIDE DEF m, q, r
  <2> QED
    BY <2>1
<1> HIDE DEF m, q, r
<1>4. i - q = 0
  <2>1. CASE i - q >= 1
    <3>1. 1 * g <= (i - q) * g
      BY <2>1, <1>2, ProductIsMonotone
    <3> QED
      BY <3>1, <1>2, <1>3
  <2>2. CASE i - q <= -1
    <3>1. (i - q) * g <= (-1) * g
      BY <2>2, <1>2, ProductIsMonotone
    <3> QED
      BY <3>1, <1>2, <1>3
  <2> QED
    BY <2>1, <2>2, <1>2
<1> QED
  BY <1>2, <1>4 DEF m, q
-----------------------------------------------------------------------------
(* Euclid's algorithm.                                                     *)

\* f is a solution of the recursion.
Euclids(f) == f = [p \in Nat \X Nat |-> IF p[2] = 0 THEN p[1] ELSE f[<<p[2], p[1] % p[2]>>]]

LEMMA EuclidsStep ==
  ASSUME NEW f, Euclids(f), NEW m \in Nat, NEW n \in Nat
  PROVE  f[<<m, n>>] = IF n = 0 THEN m ELSE f[<<n, m % n>>]
BY DEF Euclids

CommonDivisors(p) == {d \in Nat : \E i, j \in Nat : p[1] = d * i /\ p[2] = d * j}
Greatest(S) == CHOOSE g \in S : \A h \in S : h <= g

\* The greatest common divisor is a solution.
LEMMA EuclidsExist == \E f : Euclids(f)
<1> DEFINE f == [p \in Nat \X Nat |-> IF p[2] = 0 THEN p[1] ELSE Greatest(CommonDivisors(p))]
<1> SUFFICES ASSUME NEW m \in Nat, NEW n \in Nat
             PROVE  f[<<m, n>>] = IF n = 0 THEN m ELSE f[<<n, m % n>>]
  <2>1. ASSUME NEW p \in Nat \X Nat
        PROVE  f[p] = IF p[2] = 0 THEN p[1] ELSE f[<<p[2], p[1] % p[2]>>]
    <3>1. PICK m \in Nat, n \in Nat : p = <<m, n>>
      OBVIOUS
    <3>2. f[<<m, n>>] = IF n = 0 THEN m ELSE f[<<n, m % n>>]
      OBVIOUS
    <3> HIDE DEF f
    <3> QED
      BY <3>1, <3>2
  <2>2. f = [p \in Nat \X Nat |-> f[p]]
    OBVIOUS
  <2> HIDE DEF f
  <2>3. f = [p \in Nat \X Nat |-> IF p[2] = 0 THEN p[1] ELSE f[<<p[2], p[1] % p[2]>>]]
    BY <2>1, <2>2
  <2> QED
    BY <2>3 DEF Euclids
<1>1. CASE n = 0
  BY <1>1
<1>2. CASE n # 0
  <2> DEFINE q == m \div n
             r == m % n
  <2>1. q \in Nat /\ r \in Nat /\ m = n * q + r /\ n \in Nat \ {0}
    BY <1>2, Divided
  <2> HIDE DEF q, r
  <2>2. CASE r = 0
    <3>1. f[<<n, r>>] = n
      BY <2>1, <2>2
    <3>2. n \in CommonDivisors(<<m, n>>)
      <4>1. m = n * q /\ n = n * 1
        BY <2>1, <2>2
      <4> QED
        BY <4>1, <2>1 DEF CommonDivisors
    <3>3. ASSUME NEW h \in CommonDivisors(<<m, n>>) PROVE h <= n
      <4>1. PICK j \in Nat : n = h * j /\ h \in Nat
        BY DEF CommonDivisors
      <4>2. j >= 1
        BY <4>1, <2>1
      <4>3. 1 * h <= j * h
        BY <4>1, <4>2, ProductIsMonotone
      <4> QED
        BY <4>1, <4>3
    <3>4. ASSUME NEW g \in CommonDivisors(<<m, n>>),
                 \A h \in CommonDivisors(<<m, n>>) : h <= g
          PROVE  g = n
      <4>1. g \in Nat /\ n <= g /\ g <= n
        BY <3>2, <3>3, <3>4 DEF CommonDivisors
      <4> QED
        BY <4>1
    <3>5. Greatest(CommonDivisors(<<m, n>>)) = n
      BY <3>2, <3>3, <3>4 DEF Greatest
    <3> QED
      BY <1>2, <2>1, <3>1, <3>5 DEF r
  <2>3. CASE r # 0
    <3>1. ASSUME NEW d \in CommonDivisors(<<m, n>>) PROVE d \in CommonDivisors(<<n, r>>)
      <4>1. PICK i \in Nat, j \in Nat : m = d * i /\ n = d * j /\ d \in Nat
        BY DEF CommonDivisors
      <4>2. r = d * (i - j * q)
        BY <4>1, <2>1
      <4>3. i - j * q \in Nat
        <5>1. j * q \in Int /\ i - j * q \in Int
          BY <2>1
        <5> DEFINE k == i - j * q
        <5>2. CASE k <= -1
          <6>1. k * d <= (-1) * d
            <7> HIDE DEF k
            <7> QED
              BY <5>1, <5>2, <4>1, ProductIsMonotone DEF k
          <6>2. r <= -d
            BY <6>1, <4>2, <4>1, <5>1
          <6> QED
            BY <6>2, <4>1, <4>2, <2>1, <2>3
        <5> QED
          BY <5>1, <5>2
      <4> QED
        BY <4>1, <4>2, <4>3 DEF CommonDivisors
    <3>2. ASSUME NEW d \in CommonDivisors(<<n, r>>) PROVE d \in CommonDivisors(<<m, n>>)
      <4>1. PICK i \in Nat, j \in Nat : n = d * i /\ r = d * j /\ d \in Nat
        BY DEF CommonDivisors
      <4>2. m = d * (i * q + j) /\ i * q + j \in Nat
        BY <4>1, <2>1
      <4> QED
        BY <4>1, <4>2 DEF CommonDivisors
    <3>3. CommonDivisors(<<m, n>>) = CommonDivisors(<<n, r>>)
      BY <3>1, <3>2
    <3> QED
      BY <1>2, <2>1, <2>3, <3>3 DEF r
  <2> QED
    BY <2>2, <2>3
<1> QED
  BY <1>1, <1>2

\* What Euclid's algorithm finds divides both numbers, and is a combination of
\* them.
LEMMA GcdOf ==
  ASSUME NEW m \in Nat, NEW n \in Nat
  PROVE  /\ GCD(m, n) \in Nat
         /\ \E i, j \in Nat : m = GCD(m, n) * i /\ n = GCD(m, n) * j
         /\ \E x, y \in Int : GCD(m, n) = x * m + y * n
<1>1. gcd = CHOOSE f : Euclids(f)
  BY DEF gcd, Euclids
<1>2. Euclids(gcd)
  BY <1>1, EuclidsExist
<1> DEFINE Good(k, l) == /\ gcd[<<k, l>>] \in Nat
                         /\ \E i, j \in Nat : k = gcd[<<k, l>>] * i /\ l = gcd[<<k, l>>] * j
                         /\ \E x, y \in Int : gcd[<<k, l>>] = x * k + y * l
           B == {l \in Nat : \E k \in Nat : ~ Good(k, l)}
<1>3. ASSUME B # {} PROVE FALSE
  <2>1. PICK l \in B : \A h \in B : l <= h
    <3>1. B \in SUBSET Nat
      OBVIOUS
    <3> HIDE DEF B
    <3> QED
      BY <1>3, <3>1, SmallestNat
  <2>2. PICK k \in Nat : ~ Good(k, l)
    BY <2>1
  <2>3. CASE l = 0
    <3>1. gcd[<<k, l>>] = k
      BY <1>2, <2>3, EuclidsStep
    <3>2. k = k * 1 /\ l = k * 0 /\ k = 1 * k + 0 * l
      BY <2>3
    <3> QED
      BY <2>2, <3>1, <3>2
  <2>4. CASE l # 0
    <3> DEFINE q == k \div l
               r == k % l
               g == gcd[<<l, r>>]
    <3>1. q \in Nat /\ r \in Nat /\ k = l * q + r /\ r < l /\ l \in Nat
      BY <2>4, Divided
    <3>2. gcd[<<k, l>>] = g
      BY <1>2, <2>4, EuclidsStep
    <3> HIDE DEF q, r
    <3>3. Good(l, r)
      <4>1. ASSUME ~ Good(l, r) PROVE FALSE
        <5>1. r \in B
          BY <3>1, <4>1
        <5> HIDE DEF B
        <5> QED
          BY <2>1, <3>1, <5>1
      <4> QED
        BY <4>1
    <3>4. PICK i \in Nat, j \in Nat, x \in Int, y \in Int :
            g \in Nat /\ l = g * i /\ r = g * j /\ g = x * l + y * r
      BY <3>3
    <3> HIDE DEF g
    <3>5. k = g * (i * q + j) /\ i * q + j \in Nat
      BY <3>1, <3>4
    <3>6. g = y * k + (x - y * q) * l /\ x - y * q \in Int
      <4>1. y * k = y * (l * q) + y * r
        BY <3>1, <3>4
      <4>2. (x - y * q) * l = x * l - y * (l * q)
        BY <3>1, <3>4
      <4> QED
        BY <4>1, <4>2, <3>4, <3>1
    <3> QED
      BY <2>2, <3>2, <3>4, <3>5, <3>6
  <2> QED
    BY <2>3, <2>4
<1>4. Good(m, n)
  BY <1>3
<1> QED
  BY <1>4 DEF GCD

LEMMA GcdDivides ==
  ASSUME NEW m \in Nat, NEW n \in Nat, m # 0 \/ n # 0
  PROVE  /\ GCD(m, n) \in Nat \ {0}
         /\ \E i, j \in Nat, x, y \in Int :
              m = GCD(m, n) * i /\ n = GCD(m, n) * j /\ x * i + y * j = 1
<1> DEFINE g == GCD(m, n)
<1>0. PICK i \in Nat, j \in Nat : m = g * i /\ n = g * j
  BY GcdOf
<1>01. PICK x \in Int, y \in Int : g = x * m + y * n
  BY GcdOf
<1>1. g \in Nat /\ m = g * i /\ n = g * j /\ g = x * m + y * n
  BY <1>0, <1>01, GcdOf
<1> HIDE DEF g
<1>2. g # 0
  BY <1>1
<1>3. (x * i + y * j) * g = 1 * g
  <2>1. x * m = (x * i) * g /\ y * n = (y * j) * g
    BY <1>1
  <2> QED
    BY <2>1, <1>1
<1>4. x * i + y * j = 1
  BY <1>1, <1>2, <1>3, CancelsEqual
<1> QED
  BY <1>1, <1>2, <1>4 DEF g

\* Two numbers have a combination that is one just if Euclid finds one.
LEMMA GcdIsOne ==
  ASSUME NEW m \in Nat, NEW n \in Nat \ {0}
  PROVE  GCD(m, n) = 1 <=> \E x, y \in Int : x * m + y * n = 1
<1> DEFINE g == GCD(m, n)
<1>0. g \in Nat \ {0} /\ \E i, j \in Nat, x, y \in Int : m = g * i /\ n = g * j /\ x * i + y * j = 1
  BY GcdDivides
<1> HIDE DEF g
<1>1. PICK i \in Nat, j \in Nat, x \in Int, y \in Int :
        g \in Nat \ {0} /\ m = g * i /\ n = g * j /\ x * i + y * j = 1
  BY <1>0
<1>2. ASSUME g = 1 PROVE \E z, w \in Int : z * m + w * n = 1
  <2>1. m = i /\ n = j
    BY <1>1, <1>2
  <2> QED
    BY <1>1, <2>1
<1>3. ASSUME NEW z \in Int, NEW w \in Int, z * m + w * n = 1 PROVE g = 1
  <2>1. z * m = (z * i) * g /\ w * n = (w * j) * g
    BY <1>1
  <2> DEFINE k == z * i + w * j
  <2>2. k * g = 1 /\ k \in Int
    BY <1>1, <1>3, <2>1
  <2> HIDE DEF k
  <2>3. CASE k <= 0
    <3>1. k * g <= 0 * g
      BY <2>2, <2>3, <1>1, ProductIsMonotone
    <3> QED
      BY <3>1, <2>2, <1>1
  <2>4. CASE k >= 1
    <3>1. 1 * g <= k * g
      BY <2>2, <2>4, <1>1, ProductIsMonotone
    <3> QED
      BY <3>1, <2>2, <1>1
  <2> QED
    BY <2>2, <2>3, <2>4
<1> QED
  BY <1>2, <1>3 DEF g
-----------------------------------------------------------------------------
(* Comparison.                                                             *)

\* f is a solution of the recursion.
Comparing(f) ==
  f = [p \in Fractions \X Fractions |->
         LET whole(x) == x[1] \div x[2]
             rest(x) == x[1] % x[2]
             a == p[1]
             b == p[2]
         IN IF whole(a) # whole(b) THEN Sign(whole(a) - whole(b))
            ELSE IF rest(a) = 0 \/ rest(b) = 0 THEN Sign(rest(a) - rest(b))
            ELSE f[<<<<b[2], rest(b)>>, <<a[2], rest(a)>>>>]]

Compared(f, a, b) ==
  IF a[1] \div a[2] # b[1] \div b[2] THEN Sign(a[1] \div a[2] - b[1] \div b[2])
  ELSE IF a[1] % a[2] = 0 \/ b[1] % b[2] = 0 THEN Sign((a[1] % a[2]) - (b[1] % b[2]))
  ELSE f[<<<<b[2], b[1] % b[2]>>, <<a[2], a[1] % a[2]>>>>]

LEMMA ComparesStep ==
  ASSUME NEW f, Comparing(f), NEW a \in Fractions, NEW b \in Fractions
  PROVE  f[<<a, b>>] = Compared(f, a, b)
BY DEF Comparing, Compared

LEMMA SignTimes ==
  ASSUME NEW i \in Int, NEW n \in Nat \ {0}
  PROVE  Sign(i * n) = Sign(i)
<1>1. CASE i < 0
  <2>1. i * n < 0
    BY <1>1
  <2> QED
    BY <1>1, <2>1 DEF Sign
<1>2. CASE i > 0
  <2>1. i * n > 0
    BY <1>2
  <2> QED
    BY <1>2, <2>1 DEF Sign
<1>3. CASE i = 0
  BY <1>3 DEF Sign
<1> QED
  BY <1>1, <1>2, <1>3

Cross(a, b) == a[1] * b[2] - b[1] * a[2]

\* The sign of what is above the common denominator is a solution.
LEMMA CrossStep ==
  ASSUME NEW f, NEW a \in Fractions, NEW b \in Fractions,
         \A x, y \in Fractions :
           x[2] + y[2] < a[2] + b[2] => f[<<x, y>>] = Sign(Cross(x, y))
  PROVE  Compared(f, a, b) = Sign(Cross(a, b))
<1> DEFINE v == a[1] \div a[2]
           w == b[1] \div b[2]
           r == a[1] % a[2]
           s == b[1] % b[2]
           d == a[2]
           e == b[2]
<1>1. /\ v \in Int /\ r \in Nat /\ r < d /\ a[1] = d * v + r /\ d \in Nat \ {0}
      /\ w \in Int /\ s \in Nat /\ s < e /\ b[1] = e * w + s /\ e \in Nat \ {0}
  BY DividedInt DEF Fractions
<1>2. Compared(f, a, b) = IF v # w THEN Sign(v - w) ELSE IF r = 0 \/ s = 0 THEN Sign(r - s)
                          ELSE f[<<<<e, s>>, <<d, r>>>>]
  BY DEF Compared
<1>3. Cross(a, b) = (d * v + r) * e - (e * w + s) * d
  BY <1>1 DEF Cross
<1>30. r # 0 /\ s # 0 => f[<<<<e, s>>, <<d, r>>>>] = Sign(e * r - d * s)
  <2> HIDE DEF v, w, r, s
  <2> SUFFICES ASSUME r # 0, s # 0 PROVE f[<<<<e, s>>, <<d, r>>>>] = Sign(e * r - d * s)
    OBVIOUS
  <2> DEFINE x == <<e, s>>
             y == <<d, r>>
  <2>1. x \in Fractions /\ y \in Fractions /\ x[2] + y[2] < a[2] + b[2]
    BY <1>1 DEF Fractions
  <2>2. Cross(x, y) = e * r - d * s
    BY DEF Cross
  <2> HIDE DEF x, y
  <2>3. f[<<x, y>>] = Sign(Cross(x, y))
    BY <2>1
  <2> QED
    BY <2>2, <2>3 DEF x, y
<1> HIDE DEF v, w, r, s, d, e
<1>4. (d * v + r) * e - (e * w + s) * d = (v - w) * (d * e) + (r * e - s * d)
  BY <1>1
<1>5. d * e \in Nat \ {0} /\ r * e \in Nat /\ s * d \in Nat /\ r * e < d * e /\ s * d < d * e
  <2>1. d * e \in Nat \ {0} /\ r * e \in Nat /\ s * d \in Nat
    BY <1>1, ProductIsNat, ProductIsPositive
  <2>2. (r + 1) * e <= d * e /\ (s + 1) * d <= e * d
    BY <1>1, ProductIsMonotone
  <2> QED
    BY <1>1, <2>1, <2>2
<1>6. CASE v < w
  <2>1. (v - w) * (d * e) <= (-1) * (d * e)
    BY <1>1, <1>5, <1>6, ProductIsMonotone
  <2>2. Cross(a, b) < 0 /\ v - w < 0 /\ v # w
    <3> DEFINE k == (v - w) * (d * e)
    <3>1. k \in Int /\ k <= - (d * e)
      BY <1>1, <1>5, <2>1
    <3> HIDE DEF k
    <3>2. k + (r * e - s * d) < 0
      BY <3>1, <1>5
    <3> QED
      BY <3>2, <1>3, <1>4, <1>6, <1>1 DEF k
  <2> QED
    BY <2>2, <1>2 DEF Sign
<1>7. CASE w < v
  <2>1. 1 * (d * e) <= (v - w) * (d * e)
    BY <1>1, <1>5, <1>7, ProductIsMonotone
  <2>2. Cross(a, b) > 0 /\ v - w > 0 /\ v # w
    <3> DEFINE k == (v - w) * (d * e)
    <3>1. k \in Int /\ d * e <= k
      BY <1>1, <1>5, <2>1
    <3> HIDE DEF k
    <3>2. k + (r * e - s * d) > 0
      BY <3>1, <1>5
    <3> QED
      BY <3>2, <1>3, <1>4, <1>7, <1>1 DEF k
  <2>3. ~ (v - w < 0) /\ ~ (Cross(a, b) < 0)
    BY <2>2, <1>1, <1>3
  <2> QED
    BY <2>2, <2>3, <1>2 DEF Sign
<1>8. CASE v = w
  <2>1. Cross(a, b) = r * e - s * d
    BY <1>3, <1>4, <1>8, <1>1
  <2>2. CASE r = 0 \/ s = 0
    <3>1. Compared(f, a, b) = Sign(r - s)
      BY <1>2, <1>8, <2>2
    <3>2. CASE r = 0
      <4> DEFINE i == -s
      <4>1. i \in Int /\ i * d = - (s * d) /\ r * e = 0 /\ r - s = i
        BY <1>1, <3>2
      <4> HIDE DEF i
      <4>2. Sign(i * d) = Sign(i)
        BY <1>1, <4>1, SignTimes
      <4>3. r * e - s * d = i * d
        BY <1>5, <4>1
      <4> QED
        BY <4>1, <4>2, <4>3, <3>1, <2>1
    <3>3. CASE s = 0
      <4> DEFINE i == r
      <4>1. i \in Int /\ i = r /\ e \in Nat \ {0}
        BY <1>1
      <4> HIDE DEF i
      <4>2. Sign(i * e) = Sign(i)
        BY ONLY <4>1, SignTimes
      <4> QED
        BY <4>1, <4>2, <3>1, <3>3, <2>1, <1>1
    <3> QED
      BY <2>2, <3>2, <3>3
  <2>3. CASE ~ (r = 0 \/ s = 0)
    BY <1>1, <1>2, <1>8, <2>1, <2>3, <1>30
  <2> QED
    BY <2>2, <2>3
<1> QED
  BY <1>1, <1>6, <1>7, <1>8

LEMMA ComparesExist == \E f : Comparing(f)
<1> DEFINE f == [p \in Fractions \X Fractions |-> Sign(Cross(p[1], p[2]))]
<1>1. ASSUME NEW p \in Fractions \X Fractions PROVE f[p] = Compared(f, p[1], p[2])
  <2>1. p[1] \in Fractions /\ p[2] \in Fractions /\ f[p] = Sign(Cross(p[1], p[2]))
    OBVIOUS
  <2>2. \A x, y \in Fractions : f[<<x, y>>] = Sign(Cross(x, y))
    OBVIOUS
  <2> HIDE DEF f
  <2> QED
    BY <2>1, <2>2, CrossStep
<1>2. f = [p \in Fractions \X Fractions |-> f[p]]
  OBVIOUS
<1> HIDE DEF f
<1>3. f = [p \in Fractions \X Fractions |-> Compared(f, p[1], p[2])]
  BY <1>1, <1>2
<1> QED
  BY <1>3 DEF Comparing, Compared

\* What comparison computes is the order of fractions.
LEMMA CompareIsCross ==
  ASSUME NEW a \in Fractions, NEW b \in Fractions
  PROVE  compare[<<a, b>>] = Sign(Cross(a, b))
<1>1. compare = CHOOSE f : Comparing(f)
  BY DEF compare, Comparing
<1>2. Comparing(compare)
  BY <1>1, ComparesExist
<1> DEFINE Good(x, y) == compare[<<x, y>>] = Sign(Cross(x, y))
           B == {n \in Nat : \E x, y \in Fractions : x[2] + y[2] = n /\ ~ Good(x, y)}
<1>3. ASSUME B # {} PROVE FALSE
  <2>1. PICK n \in B : \A m \in B : n <= m
    <3>1. B \in SUBSET Nat
      OBVIOUS
    <3> HIDE DEF B
    <3> QED
      BY <1>3, <3>1, SmallestNat
  <2>2. PICK x \in Fractions, y \in Fractions : x[2] + y[2] = n /\ ~ Good(x, y)
    BY <2>1
  <2>3. ASSUME NEW v \in Fractions, NEW w \in Fractions, v[2] + w[2] < x[2] + y[2]
        PROVE  compare[<<v, w>>] = Sign(Cross(v, w))
    <3>1. ASSUME ~ Good(v, w) PROVE FALSE
      <4>1. v[2] + w[2] \in Nat /\ x[2] + y[2] \in Nat
        BY DEF Fractions
      <4>2. v[2] + w[2] \in B
        BY <3>1, <4>1
      <4> HIDE DEF B
      <4>3. n <= v[2] + w[2]
        BY <2>1, <4>2
      <4> QED
        BY <4>1, <4>3, <2>2, <2>3
    <3> QED
      BY <3>1
  <2>4. Compared(compare, x, y) = Sign(Cross(x, y))
    BY <2>3, CrossStep
  <2>5. compare[<<x, y>>] = Compared(compare, x, y)
    BY <1>2, ComparesStep
  <2> QED
    BY <2>2, <2>4, <2>5
<1>4. ASSUME ~ Good(a, b) PROVE FALSE
  <2>1. a[2] + b[2] \in Nat
    BY DEF Fractions
  <2>2. a[2] + b[2] \in B
    BY <1>4, <2>1
  <2> QED
    BY <1>3, <2>2
<1> QED
  BY <1>4

LEMMA OrderIsCross ==
  ASSUME NEW a \in Fractions, NEW b \in Fractions
  PROVE  /\ a \prec b <=> a[1] * b[2] < b[1] * a[2]
         /\ a \preceq b <=> a[1] * b[2] <= b[1] * a[2]
<1> DEFINE p == a[1] * b[2]
           q == b[1] * a[2]
<1>1. p \in Int /\ q \in Int /\ Cross(a, b) = p - q
  BY DEF Cross, Fractions
<1> HIDE DEF p, q
<1>2. compare[<<a, b>>] = Sign(p - q)
  BY <1>1, CompareIsCross
<1>3. /\ a \prec b <=> p < q
      /\ a \preceq b <=> p <= q
  BY <1>1, <1>2 DEF \prec, \preceq, Sign
<1> QED
  BY <1>3 DEF p, q
-----------------------------------------------------------------------------
(* Numbers in lowest terms.                                                *)

Lowest(a) == GCD(Abs(a[1]), a[2]) = 1

\* i and j have no common divisor.
Prime(i, j) == \E x, y \in Int : x * i + y * j = 1

LEMMA PrimeToProduct ==
  ASSUME NEW i \in Int, NEW j \in Int, NEW k \in Int, Prime(i, j), Prime(i, k)
  PROVE  Prime(i, j * k)
<1>1. PICK x \in Int, y \in Int : x * i + y * j = 1
  BY DEF Prime
<1>2. PICK v \in Int, w \in Int : v * i + w * k = 1
  BY DEF Prime
<1> DEFINE z == x * v * i + x * w * k + y * j * v
<1>3. (x * i + y * j) * (v * i + w * k) = z * i + (y * w) * (j * k)
  OBVIOUS
<1>4. z \in Int /\ y * w \in Int
  OBVIOUS
<1> HIDE DEF z
<1>5. z * i + (y * w) * (j * k) = 1
  BY <1>1, <1>2, <1>3
<1> QED
  BY <1>4, <1>5 DEF Prime

LEMMA PrimeIsSymmetric ==
  ASSUME NEW i \in Int, NEW j \in Int, Prime(i, j)
  PROVE  Prime(j, i)
<1>1. PICK x \in Int, y \in Int : x * i + y * j = 1
  BY DEF Prime
<1>2. y * j + x * i = 1
  BY <1>1
<1> QED
  BY <1>2 DEF Prime

Part(i, m) == \E g \in Int : m = g * i

LEMMA PrimeToPart ==
  ASSUME NEW i \in Int, NEW j \in Int, NEW m \in Int, NEW n \in Int,
         Part(i, m), Part(j, n), Prime(m, n)
  PROVE  Prime(i, j)
<1>1. PICK x \in Int, y \in Int : x * m + y * n = 1
  BY DEF Prime
<1>2. PICK k \in Int : m = k * i
  BY DEF Part
<1>3. PICK l \in Int : n = l * j
  BY DEF Part
<1>4. (x * k) * i + (y * l) * j = 1 /\ x * k \in Int /\ y * l \in Int
  BY <1>1, <1>2, <1>3
<1> QED
  BY <1>4 DEF Prime

LEMMA AbsIsNat ==
  ASSUME NEW i \in Int
  PROVE  /\ Abs(i) \in Nat /\ (i # 0 => Abs(i) # 0)
         /\ \E s \in {-1, 1} : Abs(i) = s * i /\ i = s * Abs(i)
BY DEF Abs

LEMMA LowestIsPrime ==
  ASSUME NEW a \in Fractions
  PROVE  Lowest(a) <=> Prime(a[1], a[2])
<1> DEFINE i == a[1]
           j == a[2]
<1>1. i \in Int /\ j \in Nat \ {0}
  BY DEF Fractions
<1> HIDE DEF i, j
<1>2. PICK s \in {-1, 1} : Abs(i) = s * i /\ i = s * Abs(i)
  BY <1>1, AbsIsNat
<1>3. GCD(Abs(i), j) = 1 <=> \E x, y \in Int : x * Abs(i) + y * j = 1
  BY <1>1, AbsIsNat, GcdIsOne
<1>4. ASSUME NEW x \in Int, NEW y \in Int, x * Abs(i) + y * j = 1 PROVE Prime(i, j)
  <2>1. (x * s) * i + y * j = 1 /\ x * s \in Int
    BY <1>1, <1>2, <1>4
  <2> QED
    BY <2>1 DEF Prime
<1>5. ASSUME NEW x \in Int, NEW y \in Int, x * i + y * j = 1
      PROVE  \E v, w \in Int : v * Abs(i) + w * j = 1
  <2> DEFINE k == Abs(i)
  <2>1. k \in Int /\ i = s * k
    BY <1>1, <1>2, AbsIsNat
  <2> HIDE DEF k
  <2>2. (x * s) * k + y * j = 1 /\ x * s \in Int
    BY <1>1, <2>1, <1>5
  <2> QED
    BY <2>2 DEF k
<1> QED
  BY <1>3, <1>4, <1>5 DEF Lowest, Prime, i, j

LEMMA RationalParts ==
  ASSUME NEW a \in Rationals
  PROVE  a \in Fractions /\ a = <<a[1], a[2]>> /\ a[1] \in Int /\ a[2] \in Nat \ {0} /\ Prime(a[1], a[2])
<1>1. a \in Fractions /\ Lowest(a)
  BY DEF Rationals, Lowest
<1>2. Prime(a[1], a[2])
  BY <1>1, LowestIsPrime
<1> QED
  BY <1>1, <1>2 DEF Fractions

LEMMA PairIsRational ==
  ASSUME NEW n \in Int, NEW d \in Nat \ {0}, Prime(n, d)
  PROVE  <<n, d>> \in Rationals
<1> DEFINE a == <<n, d>>
<1>1. a \in Fractions /\ a[1] = n /\ a[2] = d
  BY DEF Fractions
<1> HIDE DEF a
<1>2. Lowest(a)
  BY <1>1, LowestIsPrime
<1> QED
  BY <1>1, <1>2 DEF Rationals, Lowest, a
-----------------------------------------------------------------------------
(* What a number is worth.                                                 *)

\* a is the number n / d.
Is(a, n, d) ==
  /\ a \in Rationals /\ n \in Int /\ d \in Nat \ {0}
  /\ a[1] * d = n * a[2]

LEMMA IsItself ==
  ASSUME NEW a \in Rationals
  PROVE  Is(a, a[1], a[2])
BY RationalParts DEF Is

LEMMA IsWhole ==
  ASSUME NEW n \in Int
  PROVE  Is(Whole(n), n, 1) /\ Whole(n) \in Rationals
<1>1. Prime(n, 1)
  <2>1. 0 * n + 1 * 1 = 1
    OBVIOUS
  <2> QED
    BY <2>1 DEF Prime
<1>2. Whole(n) \in Rationals
  BY <1>1, PairIsRational DEF Whole
<1> QED
  BY <1>2 DEF Is, Whole

\* Another fraction of the same worth.
LEMMA IsAlso ==
  ASSUME NEW a, NEW n, NEW d, Is(a, n, d),
         NEW m \in Int, NEW e \in Nat \ {0}, n * e = m * d
  PROVE  Is(a, m, e)
<1> DEFINE i == a[1]
           j == a[2]
<1>1. i \in Int /\ j \in Nat \ {0} /\ n \in Int /\ d \in Nat \ {0} /\ i * d = n * j /\ a \in Rationals
  BY RationalParts DEF Is
<1> HIDE DEF i, j
<1>2. (i * e) * d = (m * j) * d
  <2>1. (i * e) * d = (i * d) * e /\ (n * j) * e = (n * e) * j /\ (m * d) * j = (m * j) * d
    BY <1>1
  <2> QED
    BY <2>1, <1>1
<1>3. i * e \in Int /\ m * j \in Int
  BY <1>1
<1>4. i * e = m * j
  BY <1>1, <1>2, <1>3, CancelsEqual
<1> QED
  BY <1>1, <1>4 DEF Is, i, j

LEMMA IsScaled ==
  ASSUME NEW a, NEW n, NEW d, Is(a, n, d), NEW k \in Nat \ {0}
  PROVE  Is(a, n * k, d * k)
<1>1. n \in Int /\ d \in Nat \ {0}
  BY DEF Is
<1>2. n * k \in Int /\ d * k \in Nat \ {0} /\ n * (d * k) = (n * k) * d
  BY <1>1, ProductIsPositive
<1> QED
  BY <1>2, IsAlso

\* Two numbers have a common denominator.
LEMMA IsCommon ==
  ASSUME NEW a \in Rationals, NEW b \in Rationals
  PROVE  \E n, m \in Int, d \in Nat \ {0} : Is(a, n, d) /\ Is(b, m, d)
<1>1. Is(a, a[1] * b[2], a[2] * b[2]) /\ Is(b, b[1] * a[2], b[2] * a[2])
  BY RationalParts, IsItself, IsScaled
<1>2. b[2] * a[2] = a[2] * b[2] /\ a[2] * b[2] \in Nat \ {0} /\ a[1] * b[2] \in Int /\ b[1] * a[2] \in Int
  BY RationalParts, ProductIsPositive
<1> QED
  BY <1>1, <1>2

\* What is worth two fractions makes them equal.
LEMMA IsUnique ==
  ASSUME NEW a, NEW n, NEW d, NEW m, NEW e, Is(a, n, d), Is(a, m, e)
  PROVE  n * e = m * d
<1> DEFINE i == a[1]
           j == a[2]
<1>1. /\ i \in Int /\ j \in Nat \ {0} /\ n \in Int /\ d \in Nat \ {0} /\ i * d = n * j
      /\ m \in Int /\ e \in Nat \ {0} /\ i * e = m * j
  BY RationalParts DEF Is
<1> HIDE DEF i, j
<1>2. (n * e) * j = (m * d) * j
  <2>1. (n * e) * j = (n * j) * e /\ (i * d) * e = (i * e) * d /\ (m * j) * d = (m * d) * j
    BY <1>1
  <2> QED
    BY <2>1, <1>1
<1>3. n * e \in Int /\ m * d \in Int
  BY <1>1
<1> QED
  BY <1>1, <1>2, <1>3, CancelsEqual

\* There is one number for a fraction.
Alike(n, d, m, e) == n * e = m * d
Multiple(e, d) == \E k \in Nat \ {0} : e = k * d

LEMMA DividesEachOther ==
  ASSUME NEW n \in Int, NEW d \in Nat \ {0}, NEW m \in Int, NEW e \in Nat \ {0},
         Prime(n, d), Alike(n, d, m, e)
  PROVE  Multiple(e, d)
<1>0. n * e = m * d
  BY DEF Alike
<1>1. PICK x \in Int, y \in Int : x * n + y * d = 1
  BY DEF Prime
<1> DEFINE k == x * m + y * e
<1>2. k \in Int /\ e = k * d
  <2>1. e = (x * n + y * d) * e
    BY <1>1
  <2>2. (x * n + y * d) * e = x * (n * e) + y * d * e
    OBVIOUS
  <2>3. x * (m * d) + y * d * e = k * d
    OBVIOUS
  <2> QED
    BY <1>0, <2>1, <2>2, <2>3
<1> HIDE DEF k
<1>3. CASE k <= 0
  <2>1. k * d <= 0 * d
    BY <1>2, <1>3, ProductIsMonotone
  <2> QED
    BY <2>1, <1>2
<1> QED
  BY <1>2, <1>3 DEF Multiple

LEMMA IsSame ==
  ASSUME NEW a, NEW b, NEW n, NEW d, NEW m, NEW e, Is(a, n, d), Is(b, m, e), n * e = m * d
  PROVE  a = b
<1>1. Is(b, n, d)
  <2>1. n \in Int /\ d \in Nat \ {0} /\ m \in Int /\ e \in Nat \ {0}
    BY DEF Is
  <2>2. m * d = n * e
    OBVIOUS
  <2> QED
    BY <2>1, <2>2, IsAlso
<1> DEFINE i == a[1]
           j == a[2]
           k == b[1]
           l == b[2]
<1>2. /\ i \in Int /\ j \in Nat \ {0} /\ Prime(i, j) /\ a = <<i, j>>
      /\ k \in Int /\ l \in Nat \ {0} /\ Prime(k, l) /\ b = <<k, l>>
  BY RationalParts DEF Is
<1>3. i * l = k * j
  <2>1. Is(a, i, j)
    BY IsItself DEF Is
  <2>2. Is(b, i, j)
    <3>1. i * d = n * j /\ n * j = i * d
      BY DEF Is
    <3> HIDE DEF i, j
    <3> QED
      BY <1>1, <1>2, <3>1, IsAlso
  <2> QED
    BY <2>2 DEF Is
<1> HIDE DEF i, j, k, l
<1>4. Multiple(l, j)
  <2>1. Alike(i, j, k, l)
    BY <1>3 DEF Alike
  <2> QED
    BY <1>2, <2>1, DividesEachOther
<1>5. Multiple(j, l)
  <2>1. Alike(k, l, i, j)
    BY <1>3 DEF Alike
  <2> QED
    BY <1>2, <2>1, DividesEachOther
<1>6. j <= l /\ l <= j
  <2>1. PICK p \in Nat \ {0} : l = p * j
    BY <1>4 DEF Multiple
  <2>2. PICK q \in Nat \ {0} : j = q * l
    BY <1>5 DEF Multiple
  <2>3. 1 * j <= p * j /\ 1 * l <= q * l
    BY <1>2, <2>1, <2>2, ProductIsMonotone
  <2> QED
    BY <1>2, <2>1, <2>2, <2>3
<1>7. j = l
  BY <1>2, <1>6
<1>8. i = k
  BY <1>2, <1>3, <1>7, CancelsEqual
<1> QED
  BY <1>2, <1>7, <1>8

\* The order of numbers.
LEMMA IsOrder ==
  ASSUME NEW a, NEW b, NEW n, NEW d, NEW m, Is(a, n, d), Is(b, m, d)
  PROVE  (a \prec b <=> n < m) /\ (a \preceq b <=> n <= m) /\ (a = b <=> n = m)
<1> DEFINE i == a[1]
           j == a[2]
           k == b[1]
           l == b[2]
<1>1. /\ i \in Int /\ j \in Nat \ {0} /\ n \in Int /\ d \in Nat \ {0} /\ i * d = n * j
      /\ k \in Int /\ l \in Nat \ {0} /\ m \in Int /\ k * d = m * l
  BY RationalParts DEF Is
<1>2. (a \prec b <=> i * l < k * j) /\ (a \preceq b <=> i * l <= k * j)
  BY OrderIsCross, RationalParts DEF Is
<1> HIDE DEF i, j, k, l
<1>3. /\ (i * l) * d = n * (j * l) /\ (k * j) * d = m * (j * l)
      /\ j * l \in Nat \ {0} /\ i * l \in Int /\ k * j \in Int
  <2>1. (i * l) * d = (i * d) * l /\ (n * j) * l = n * (j * l)
        /\ (k * j) * d = (k * d) * j /\ (m * l) * j = m * (j * l)
    BY <1>1
  <2> QED
    BY <2>1, <1>1, ProductIsPositive
<1>4. ASSUME n <= m PROVE i * l <= k * j
  <2>1. n * (j * l) <= m * (j * l)
    BY <1>1, <1>3, <1>4, ProductIsMonotone
  <2>2. (i * l) * d <= (k * j) * d
    BY <2>1, <1>3
  <2> QED
    BY <2>2, <1>1, <1>3, Cancels
<1>5. ASSUME i * l <= k * j PROVE n <= m
  <2>1. (i * l) * d <= (k * j) * d
    BY <1>1, <1>3, <1>5, ProductIsMonotone
  <2>2. n * (j * l) <= m * (j * l)
    BY <2>1, <1>3
  <2> QED
    BY <2>2, <1>1, <1>3, Cancels
<1>6. ASSUME m <= n PROVE k * j <= i * l
  <2>1. m * (j * l) <= n * (j * l)
    BY <1>1, <1>3, <1>6, ProductIsMonotone
  <2>2. (k * j) * d <= (i * l) * d
    BY <2>1, <1>3
  <2> QED
    BY <2>2, <1>1, <1>3, Cancels
<1>7. ASSUME k * j <= i * l PROVE m <= n
  <2>1. (k * j) * d <= (i * l) * d
    BY <1>1, <1>3, <1>7, ProductIsMonotone
  <2>2. m * (j * l) <= n * (j * l)
    BY <2>1, <1>3
  <2> QED
    BY <2>2, <1>1, <1>3, Cancels
<1>8. a = b => n = m
  <2> SUFFICES ASSUME a = b PROVE n = m
    OBVIOUS
  <2>1. n * d = m * d
    BY IsUnique
  <2> QED
    BY <2>1, <1>1, CancelsEqual
<1>9. n = m => a = b
  <2> SUFFICES ASSUME n = m PROVE a = b
    OBVIOUS
  <2>1. n * d = m * d
    OBVIOUS
  <2> QED
    BY <2>1, IsSame
<1>10. i * l < k * j <=> n < m
  BY <1>1, <1>3, <1>4, <1>5, <1>6, <1>7
<1> QED
  BY <1>2, <1>4, <1>5, <1>8, <1>9, <1>10
-----------------------------------------------------------------------------
(* Operations.                                                             *)

\* What is left of a fraction without its greatest common divisor.
LEMMA Reduces ==
  ASSUME NEW n \in Int, NEW d \in Nat \ {0}
  PROVE  /\ GCD(Abs(n), d) \in Nat \ {0}
         /\ n \div GCD(Abs(n), d) \in Int /\ d \div GCD(Abs(n), d) \in Nat \ {0}
         /\ n = GCD(Abs(n), d) * (n \div GCD(Abs(n), d))
         /\ d = GCD(Abs(n), d) * (d \div GCD(Abs(n), d))
         /\ Prime(n \div GCD(Abs(n), d), d \div GCD(Abs(n), d))
<1> DEFINE g == GCD(Abs(n), d)
<1>1. PICK s \in {-1, 1} : Abs(n) = s * n /\ n = s * Abs(n)
  BY AbsIsNat
<1>2. /\ g \in Nat \ {0}
      /\ \E i, j \in Nat, x, y \in Int : Abs(n) = g * i /\ d = g * j /\ x * i + y * j = 1
  <2> DEFINE m == Abs(n)
  <2>1. m \in Nat /\ (m # 0 \/ d # 0) /\ d \in Nat
    BY AbsIsNat
  <2> HIDE DEF m, g
  <2>2. /\ GCD(m, d) \in Nat \ {0}
        /\ \E i, j \in Nat, x, y \in Int :
             m = GCD(m, d) * i /\ d = GCD(m, d) * j /\ x * i + y * j = 1
    BY <2>1, GcdDivides
  <2> QED
    BY <2>2 DEF m, g
<1> HIDE DEF g
<1>3. PICK i \in Nat, j \in Nat, x \in Int, y \in Int :
        Abs(n) = g * i /\ d = g * j /\ x * i + y * j = 1
  BY <1>2
<1>4. n = g * (s * i) /\ s * i \in Int /\ j # 0
  BY <1>1, <1>2, <1>3
<1>5. n \div g = s * i /\ d \div g = j
  <2> DEFINE k == s * i
  <2>1. n = g * k /\ k \in Int
    BY <1>4
  <2> HIDE DEF k
  <2>2. n \div g = k /\ d \div g = j
    BY <2>1, <1>2, <1>3, QuotientOfProduct
  <2> QED
    BY <2>2 DEF k
<1>6. Prime(s * i, j)
  <2>1. (x * s) * (s * i) + y * j = 1 /\ x * s \in Int
    BY <1>3
  <2> QED
    BY <2>1 DEF Prime
<1> QED
  BY <1>2, <1>3, <1>4, <1>5, <1>6 DEF g

LEMMA QIs ==
  ASSUME NEW n \in Int, NEW d \in Nat \ {0}
  PROVE  Is(Q(n, d), n, d) /\ Q(n, d) \in Rationals
<1> DEFINE g == GCD(Abs(n), d)
           i == n \div g
           j == d \div g
<1>1. g \in Nat \ {0} /\ i \in Int /\ j \in Nat \ {0} /\ n = g * i /\ d = g * j /\ Prime(i, j)
  BY Reduces
<1>2. Q(n, d) = <<i, j>>
  BY DEF Q
<1> HIDE DEF g, i, j
<1>3. <<i, j>> \in Rationals
  BY <1>1, PairIsRational
<1>4. i * d = n * j
  BY <1>1
<1> QED
  BY <1>2, <1>3, <1>4 DEF Is

LEMMA MinusIs ==
  ASSUME NEW a, NEW n, NEW d, Is(a, n, d)
  PROVE  Is(Minus(a), -n, d) /\ Minus(a) \in Rationals
<1> DEFINE i == a[1]
           j == a[2]
<1>1. i \in Int /\ j \in Nat \ {0} /\ n \in Int /\ d \in Nat \ {0} /\ i * d = n * j /\ Prime(i, j)
  BY RationalParts DEF Is
<1>2. Minus(a) = <<-i, j>>
  BY DEF Minus
<1> HIDE DEF i, j
<1>3. PICK x \in Int, y \in Int : x * i + y * j = 1
  BY <1>1 DEF Prime
<1>4. (-x) * (-i) + y * j = 1 /\ -x \in Int /\ -i \in Int
  BY <1>1, <1>3
<1>5. Prime(-i, j)
  BY <1>4 DEF Prime
<1>6. <<-i, j>> \in Rationals
  BY <1>1, <1>4, <1>5, PairIsRational
<1>7. (-i) * d = (-n) * j
  BY <1>1
<1> QED
  BY <1>1, <1>2, <1>6, <1>7 DEF Is

LEMMA PlusIs ==
  ASSUME NEW a, NEW b, NEW n, NEW m, NEW d, Is(a, n, d), Is(b, m, d)
  PROVE  Is(a ++ b, n + m, d) /\ a ++ b \in Rationals
<1> DEFINE i == a[1]
           j == a[2]
           k == b[1]
           l == b[2]
           g == GCD(j, l)
           p == j \div g
           q == l \div g
<1>1. /\ i \in Int /\ j \in Nat \ {0} /\ n \in Int /\ d \in Nat \ {0} /\ i * d = n * j
      /\ k \in Int /\ l \in Nat \ {0} /\ m \in Int /\ k * d = m * l
  BY RationalParts DEF Is
<1>2. a ++ b = Q(i * q + k * p, j * q)
  BY DEF ++
<1> HIDE DEF i, j, k, l
<1>3. g \in Nat \ {0} /\ p \in Nat \ {0} /\ q \in Nat \ {0} /\ j = g * p /\ l = g * q
  <2>1. Abs(j) = j
    BY <1>1 DEF Abs
  <2>2. /\ GCD(Abs(j), l) \in Nat \ {0}
        /\ j \div GCD(Abs(j), l) \in Int /\ l \div GCD(Abs(j), l) \in Nat \ {0}
        /\ j = GCD(Abs(j), l) * (j \div GCD(Abs(j), l))
        /\ l = GCD(Abs(j), l) * (l \div GCD(Abs(j), l))
    <3>1. j \in Int /\ l \in Nat \ {0}
      BY <1>1
    <3> HIDE DEF g, p, q
    <3> QED
      BY ONLY <3>1, Reduces
  <2>22. g \in Nat \ {0} /\ q \in Nat \ {0} /\ l = g * q /\ p \in Int /\ j = g * p
    BY <2>1, <2>2
  <2> HIDE DEF g, p, q
  <2>3. CASE p <= 0
    <3>1. p * g <= 0 * g
      BY <2>22, <2>3, ProductIsMonotone
    <3> QED
      BY <1>1, <2>22, <3>1
  <2> QED
    BY <2>22, <2>3
<1> HIDE DEF g, p, q
<1>4. i * q + k * p \in Int /\ j * q \in Nat \ {0} /\ n + m \in Int
  BY <1>1, <1>3, ProductIsPositive
<1>5. (i * q + k * p) * d = (n + m) * (j * q)
  <2>1. (i * q + k * p) * d = (i * d) * q + (k * d) * p
    BY <1>1, <1>3
  <2>2. (n * j) * q + (m * (g * q)) * p = n * (j * q) + m * ((g * p) * q)
    BY <1>1, <1>3
  <2>3. n * (j * q) + m * (j * q) = (n + m) * (j * q)
    BY <1>1, <1>3
  <2> QED
    BY <2>1, <2>2, <2>3, <1>1, <1>3
<1> DEFINE u == i * q + k * p
           v == j * q
<1>6. Is(Q(u, v), u, v)
  <2> HIDE DEF u, v
  <2> QED
    BY <1>4, QIs DEF u, v
<1>7. Is(Q(u, v), n + m, d)
  <2>1. u \in Int /\ v \in Nat \ {0} /\ u * d = (n + m) * v /\ n + m \in Int
    BY <1>4, <1>5
  <2> HIDE DEF u, v
  <2> QED
    BY <1>1, <1>6, <2>1, IsAlso
<1> QED
  BY <1>2, <1>7 DEF Is

LEMMA TimesIs ==
  ASSUME NEW a, NEW b, NEW n, NEW d, NEW m, NEW e, Is(a, n, d), Is(b, m, e)
  PROVE  Is(a ** b, n * m, d * e) /\ a ** b \in Rationals
<1> DEFINE g == GCD(Abs(a[1]), b[2])
           h == GCD(Abs(b[1]), a[2])
           i == a[1] \div g
           j == b[2] \div g
           k == b[1] \div h
           l == a[2] \div h
<1>1. /\ a[1] \in Int /\ a[2] \in Nat \ {0} /\ n \in Int /\ d \in Nat \ {0} /\ Prime(a[1], a[2])
      /\ b[1] \in Int /\ b[2] \in Nat \ {0} /\ m \in Int /\ e \in Nat \ {0} /\ Prime(b[1], b[2])
      /\ a[1] * d = n * a[2] /\ b[1] * e = m * b[2]
  BY RationalParts DEF Is
<1>2. a ** b = <<i * k, l * j>>
  BY DEF **
<1>3. g \in Nat \ {0} /\ i \in Int /\ j \in Nat \ {0} /\ a[1] = g * i /\ b[2] = g * j /\ Prime(i, j)
  BY <1>1, Reduces
<1>4. h \in Nat \ {0} /\ k \in Int /\ l \in Nat \ {0} /\ b[1] = h * k /\ a[2] = h * l /\ Prime(k, l)
  BY <1>1, Reduces
<1> HIDE DEF g, h, i, j, k, l
<1>5. Prime(i * k, l * j)
  <2>1. Prime(i, l) /\ Prime(k, j)
    <3>1. Part(i, a[1]) /\ Part(j, b[2]) /\ Part(k, b[1]) /\ Part(l, a[2])
      BY <1>3, <1>4 DEF Part
    <3> QED
      BY <1>1, <1>3, <1>4, <3>1, PrimeToPart
  <2>2. Prime(i, l * j) /\ Prime(k, l * j)
    BY <1>3, <1>4, <2>1, PrimeToProduct
  <2>3. l * j \in Int
    BY <1>3, <1>4
  <2>4. Prime(l * j, i) /\ Prime(l * j, k)
    BY <1>3, <1>4, <2>2, <2>3, PrimeIsSymmetric
  <2>5. Prime(l * j, i * k)
    BY <1>3, <1>4, <2>3, <2>4, PrimeToProduct
  <2>6. i * k \in Int
    BY <1>3, <1>4
  <2> QED
    BY <2>3, <2>5, <2>6, PrimeIsSymmetric
<1>6. i * k \in Int /\ l * j \in Nat \ {0} /\ n * m \in Int /\ d * e \in Nat \ {0}
  BY <1>1, <1>3, <1>4, ProductIsPositive
<1>7. (i * k) * (d * e) = (n * m) * (l * j)
  <2>1. ((i * k) * (d * e)) * (g * h) = ((n * m) * (l * j)) * (g * h)
    <3>1. (g * i) * d = n * (h * l) /\ (h * k) * e = m * (g * j)
      BY <1>1, <1>3, <1>4
    <3>2. ((g * i) * d) * ((h * k) * e) = (n * (h * l)) * (m * (g * j))
      BY <3>1
    <3>3. ((g * i) * d) * ((h * k) * e) = ((i * k) * (d * e)) * (g * h)
      BY <1>1, <1>3, <1>4
    <3>4. (n * (h * l)) * (m * (g * j)) = ((n * m) * (l * j)) * (g * h)
      BY <1>1, <1>3, <1>4
    <3> QED
      BY <3>2, <3>3, <3>4
  <2>2. (i * k) * (d * e) \in Int /\ (n * m) * (l * j) \in Int /\ g * h \in Nat \ {0}
    BY <1>3, <1>4, <1>6, ProductIsPositive
  <2> QED
    BY <2>1, <2>2, CancelsEqual
<1>8. <<i * k, l * j>> \in Rationals
  BY <1>5, <1>6, PairIsRational
<1> QED
  BY <1>2, <1>6, <1>7, <1>8 DEF Is

LEMMA ReciprocalIs ==
  ASSUME NEW a, NEW n, NEW d, Is(a, n, d), n # 0
  PROVE  /\ Reciprocal(a) \in Rationals
         /\ n > 0 => Is(Reciprocal(a), d, n)
         /\ n < 0 => Is(Reciprocal(a), -d, -n)
<1> DEFINE i == a[1]
           j == a[2]
<1>1. i \in Int /\ j \in Nat \ {0} /\ n \in Int /\ d \in Nat \ {0} /\ i * d = n * j /\ Prime(i, j)
  BY RationalParts DEF Is
<1>2. Reciprocal(a) = IF i > 0 THEN <<j, i>> ELSE <<-j, -i>>
  BY DEF Reciprocal
<1> HIDE DEF i, j
<1>3. (n > 0 => i > 0) /\ (n < 0 => i < 0)
  <2>1. Sign(i * d) = Sign(i) /\ Sign(n * j) = Sign(n)
    BY <1>1, SignTimes
  <2>2. Sign(i) = Sign(n)
    BY <2>1, <1>1
  <2> QED
    BY <1>1, <2>2 DEF Sign
<1>4. PICK x \in Int, y \in Int : x * i + y * j = 1
  BY <1>1 DEF Prime
<1>5. CASE n > 0
  <2>1. Prime(j, i) /\ i \in Nat \ {0} /\ j \in Int /\ n \in Nat \ {0}
    BY <1>1, <1>3, <1>5, PrimeIsSymmetric
  <2>2. <<j, i>> \in Rationals
    BY <2>1, PairIsRational
  <2>3. j * n = d * i
    BY <1>1
  <2> QED
    BY <1>1, <1>2, <1>3, <1>5, <2>1, <2>2, <2>3 DEF Is
<1>6. CASE n < 0
  <2>1. -i \in Nat \ {0} /\ -j \in Int /\ -n \in Nat \ {0} /\ ~ n > 0 /\ ~ i > 0
    BY <1>1, <1>3, <1>6
  <2>2. (-y) * (-j) + (-x) * (-i) = 1 /\ -y \in Int /\ -x \in Int
    BY <1>1, <1>4
  <2>3. Prime(-j, -i)
    BY <2>2 DEF Prime
  <2>4. <<-j, -i>> \in Rationals
    BY <2>1, <2>3, PairIsRational
  <2>5. (-j) * (-n) = (-d) * (-i) /\ -d \in Int
    BY <1>1
  <2> QED
    BY <1>1, <1>2, <2>1, <2>4, <2>5 DEF Is
<1> QED
  BY <1>1, <1>5, <1>6

LEMMA DifferenceIs ==
  ASSUME NEW a, NEW b, NEW n, NEW m, NEW d, Is(a, n, d), Is(b, m, d)
  PROVE  Is(a -- b, n - m, d) /\ a -- b \in Rationals
<1>1. Is(Minus(b), -m, d)
  BY MinusIs
<1>2. n \in Int /\ m \in Int
  BY DEF Is
<1>3. Is(a ++ Minus(b), n + (-m), d)
  BY <1>1, PlusIs
<1>4. n + (-m) = n - m
  BY <1>2
<1> QED
  BY <1>3, <1>4 DEF --, Is

LEMMA QuotientIs ==
  ASSUME NEW a, NEW b, NEW n, NEW d, NEW m, NEW e, Is(a, n, d), Is(b, m, e), m > 0
  PROVE  Is(a // b, n * e, d * m) /\ a // b \in Rationals
<1>1. Is(Reciprocal(b), e, m)
  <2>1. m # 0
    BY DEF Is
  <2> QED
    BY <2>1, ReciprocalIs
<1> QED
  BY <1>1, TimesIs DEF //

\* Zero, one, and what is positive.
LEMMA ZeroIs ==
  ASSUME NEW d \in Nat \ {0}
  PROVE  Is(Zero, 0, d) /\ Is(One, d, d) /\ Zero \in Rationals /\ One \in Rationals
<1>1. Is(Zero, 0, 1) /\ Is(One, 1, 1) /\ Zero \in Rationals /\ One \in Rationals
  BY IsWhole DEF Zero, One
<1>2. 0 * d = 0 * 1 /\ 1 * d = d * 1 /\ d \in Int
  OBVIOUS
<1> QED
  BY <1>1, <1>2, IsAlso

LEMMA PositiveIs ==
  ASSUME NEW a, NEW n, NEW d, Is(a, n, d)
  PROVE  /\ Zero \prec a <=> n > 0
         /\ Zero \preceq a <=> n >= 0
         /\ a \prec Zero <=> n < 0
         /\ a \preceq Zero <=> n <= 0
         /\ a = Zero <=> n = 0
<1>1. Is(Zero, 0, d) /\ n \in Int
  BY ZeroIs DEF Is
<1>2. /\ Zero \prec a <=> 0 < n
      /\ Zero \preceq a <=> 0 <= n
      /\ a \prec Zero <=> n < 0
      /\ a \preceq Zero <=> n <= 0
      /\ a = Zero <=> n = 0
  BY <1>1, IsOrder
<1> QED
  BY <1>1, <1>2

\* Sums, products and the larger of two are numbers.
LEMMA Closed ==
  ASSUME NEW a \in Rationals, NEW b \in Rationals
  PROVE  /\ a ++ b \in Rationals /\ a -- b \in Rationals /\ a ** b \in Rationals
         /\ Minus(a) \in Rationals
         /\ b # Zero => a // b \in Rationals
         /\ Larger(a, b) \in Rationals /\ Smaller(a, b) \in Rationals
         /\ Square(a) \in Rationals
<1>1. PICK n \in Int, m \in Int, d \in Nat \ {0} : Is(a, n, d) /\ Is(b, m, d)
  BY IsCommon
<1>2. a ++ b \in Rationals /\ a -- b \in Rationals /\ a ** b \in Rationals /\ Minus(a) \in Rationals
      /\ a ** a \in Rationals
  BY <1>1, PlusIs, DifferenceIs, TimesIs, MinusIs
<1>3. ASSUME b # Zero PROVE a // b \in Rationals
  <2>1. m # 0
    BY <1>1, <1>3, PositiveIs
  <2>2. Reciprocal(b) \in Rationals
    BY <1>1, <2>1, ReciprocalIs
  <2>3. Is(a, a[1], a[2]) /\ Is(Reciprocal(b), Reciprocal(b)[1], Reciprocal(b)[2])
    BY <2>2, IsItself
  <2> QED
    BY <2>3, TimesIs DEF //
<1> QED
  BY <1>2, <1>3 DEF Larger, Smaller, Square

LEMMA LargerIs ==
  ASSUME NEW a, NEW b, NEW n, NEW m, NEW d, Is(a, n, d), Is(b, m, d)
  PROVE  /\ Is(Larger(a, b), IF n < m THEN m ELSE n, d)
         /\ Is(Smaller(a, b), IF n < m THEN n ELSE m, d)
BY IsOrder DEF Larger, Smaller

\* d is a denominator of a.
Over(a, d) == d \in Nat \ {0} /\ \E n \in Int : Is(a, n, d)

LEMMA OverOwn ==
  ASSUME NEW a \in Rationals
  PROVE  Over(a, a[2])
BY RationalParts, IsItself DEF Over

LEMMA OverMore ==
  ASSUME NEW d \in Nat \ {0}, NEW c \in Rationals
  PROVE  \E e \in Nat \ {0} : Over(c, e) /\ \A a : Over(a, d) => Over(a, e)
<1> DEFINE l == c[2]
           e == d * l
<1>1. l \in Nat \ {0} /\ Is(c, c[1], l) /\ c[1] \in Int
  BY RationalParts, IsItself
<1> HIDE DEF l
<1>2. e \in Nat \ {0} /\ l * d = e
  BY <1>1, ProductIsPositive
<1>3. Is(c, c[1] * d, l * d) /\ c[1] * d \in Int
  BY <1>1, IsScaled, SMTT(40)
<1>4. Over(c, e)
  BY <1>2, <1>3 DEF Over
<1>5. ASSUME NEW a, Over(a, d) PROVE Over(a, e)
  <2>1. PICK n \in Int : Is(a, n, d)
    BY <1>5 DEF Over
  <2>2. Is(a, n * l, d * l) /\ n * l \in Int
    BY <1>1, <2>1, IsScaled
  <2> QED
    BY <1>2, <2>2 DEF Over
<1> QED
  BY <1>2, <1>4, <1>5

\* Any three numbers, and any six, have a common denominator.
LEMMA OverThree ==
  ASSUME NEW a \in Rationals, NEW b \in Rationals, NEW c \in Rationals
  PROVE  \E d \in Nat \ {0} : Over(a, d) /\ Over(b, d) /\ Over(c, d)
<1>1. a[2] \in Nat \ {0} /\ Over(a, a[2])
  BY OverOwn DEF Over
<1>2. PICK d \in Nat \ {0} : Over(a, d) /\ Over(b, d)
  BY <1>1, OverMore
<1> QED
  BY <1>2, OverMore

LEMMA OverSix ==
  ASSUME NEW a \in Rationals, NEW b \in Rationals, NEW c \in Rationals,
         NEW x \in Rationals, NEW y \in Rationals, NEW z \in Rationals
  PROVE  \E d \in Nat \ {0} : /\ Over(a, d) /\ Over(b, d) /\ Over(c, d)
                              /\ Over(x, d) /\ Over(y, d) /\ Over(z, d)
<1>1. PICK d \in Nat \ {0} : Over(a, d) /\ Over(b, d) /\ Over(c, d)
  BY OverThree
<1>2. PICK e \in Nat \ {0} : Over(a, e) /\ Over(b, e) /\ Over(c, e) /\ Over(x, e)
  BY <1>1, OverMore
<1>3. PICK f \in Nat \ {0} : Over(a, f) /\ Over(b, f) /\ Over(c, f) /\ Over(x, f) /\ Over(y, f)
  BY <1>2, OverMore
<1> QED
  BY <1>3, OverMore

LEMMA Transitive ==
  ASSUME NEW a \in Rationals, NEW b \in Rationals, NEW c \in Rationals
  PROVE  /\ a \preceq b /\ b \preceq c => a \preceq c
         /\ a \prec b /\ b \preceq c => a \prec c
         /\ a \preceq b /\ b \prec c => a \prec c
         /\ a \prec b => a \preceq b /\ ~ (b \preceq a)
         /\ ~ (a \prec b) <=> b \preceq a
         /\ a \preceq b <=> a \prec b \/ a = b
         /\ a \preceq b /\ b \preceq a => a = b
<1>1. PICK d \in Nat \ {0} : Over(a, d) /\ Over(b, d) /\ Over(c, d)
  BY OverThree
<1>2. PICK n \in Int : Is(a, n, d)
  BY <1>1 DEF Over
<1>3. PICK m \in Int : Is(b, m, d)
  BY <1>1 DEF Over
<1>4. PICK k \in Int : Is(c, k, d)
  BY <1>1 DEF Over
<1>5. /\ a \prec b <=> n < m
      /\ a \preceq b <=> n <= m
      /\ a = b <=> n = m
  BY <1>2, <1>3, IsOrder
<1>6. /\ b \prec c <=> m < k
      /\ b \preceq c <=> m <= k
  BY <1>3, <1>4, IsOrder
<1>7. /\ a \prec c <=> n < k
      /\ a \preceq c <=> n <= k
  BY <1>2, <1>4, IsOrder
<1>8. b \preceq a <=> m <= n
  BY <1>2, <1>3, IsOrder
<1> QED
  BY <1>5, <1>6, <1>7, <1>8

LEMMA LargerIsLarger ==
  ASSUME NEW a \in Rationals, NEW b \in Rationals
  PROVE  /\ a \preceq Larger(a, b) /\ b \preceq Larger(a, b)
         /\ Smaller(a, b) \preceq a /\ Smaller(a, b) \preceq b
<1>1. a \preceq a /\ b \preceq b
  BY Transitive
<1> QED
  BY <1>1, Transitive DEF Larger, Smaller
-----------------------------------------------------------------------------
(* Sequences of numbers.                                                   *)

LEMMA ListedIsItself ==
  ASSUME NEW S, NEW s \in Seq(S)
  PROVE  Listed(s) = s
<1>1. Len(s) \in Nat /\ SubSeq(s, 1, Len(s)) = [i \in 1..Len(s) |-> s[i]]
  OBVIOUS
<1>2. s = [i \in 1..Len(s) |-> s[i]]
  OBVIOUS
<1> QED
  BY <1>1, <1>2 DEF Listed

LEMMA FunctionIsSequence ==
  ASSUME NEW S, NEW n \in Nat, NEW f \in [1..n -> S]
  PROVE  f \in Seq(S) /\ Len(f) = n /\ Listed(f) = f
<1>1. f \in Seq(S) /\ Len(f) = n
  OBVIOUS
<1> QED
  BY <1>1, ListedIsItself

LEMMA SameSequence ==
  ASSUME NEW S, NEW s \in Seq(S), NEW n \in Nat, Len(s) = n, NEW f \in [1..n -> S],
         \A i \in 1..n : f[i] = s[i]
  PROVE  f = s
<1>1. s = [i \in 1..n |-> s[i]]
  OBVIOUS
<1>2. f = [i \in 1..n |-> f[i]]
  OBVIOUS
<1> QED
  BY <1>1, <1>2

\* A function that goes on from one value to the next.
Continues(t, S, z, n, G) ==
  /\ t \in [0..n -> S] /\ t[0] = z
  /\ \A k \in 1..n : t[k] = G[<<t[k - 1], k>>]

LEMMA ContinuationsExist ==
  ASSUME NEW S, NEW z \in S, NEW n \in Nat, NEW G \in [S \X (1..n) -> S]
  PROVE  \E t : Continues(t, S, z, n, G)
<1> DEFINE B == {k \in 0..n : ~ \E t : Continues(t, S, z, k, G)}
<1>1. ASSUME B # {} PROVE FALSE
  <2>1. B \in SUBSET Nat
    OBVIOUS
  <2>2. PICK k \in B : \A m \in B : k <= m
    <3> HIDE DEF B
    <3> QED
      BY <1>1, <2>1, SmallestNat
  <2>3. k \in 0..n /\ ~ \E t : Continues(t, S, z, k, G)
    OBVIOUS
  <2>4. CASE k = 0
    <3> DEFINE t == [j \in 0..0 |-> z]
    <3>1. Continues(t, S, z, 0, G)
      BY DEF Continues
    <3> QED
      BY <2>3, <2>4, <3>1
  <2>5. CASE k # 0
    <3>1. k - 1 \in 0..n /\ k - 1 \notin B
      <4>1. k - 1 \in 0..n /\ ~ (k <= k - 1)
        BY <2>3, <2>5
      <4> HIDE DEF B
      <4> QED
        BY <2>2, <4>1
    <3>2. PICK u : Continues(u, S, z, k - 1, G)
      BY <3>1
    <3>3. u \in [0..(k - 1) -> S] /\ u[0] = z /\ \A j \in 1..(k - 1) : u[j] = G[<<u[j - 1], j>>]
      BY <3>2 DEF Continues
    <3> DEFINE t == [j \in 0..k |-> IF j = k THEN G[<<u[k - 1], k>>] ELSE u[j]]
    <3>4. k - 1 \in 0..(k - 1) /\ k \in 1..n
      BY <2>3, <2>5
    <3>5. u[k - 1] \in S
      BY <3>3, <3>4
    <3>6. G[<<u[k - 1], k>>] \in S
      BY <3>4, <3>5
    <3>7. t \in [0..k -> S]
      <4>1. ASSUME NEW j \in 0..k, j # k PROVE u[j] \in S
        BY <3>3, <4>1, <2>3
      <4> HIDE DEF B
      <4> QED
        BY <3>6, <4>1
    <3>8. t[0] = z
      BY <2>3, <2>5, <3>3
    <3>9. ASSUME NEW j \in 1..k PROVE t[j] = G[<<t[j - 1], j>>]
      <4>1. CASE j = k
        <5>1. t[j] = G[<<u[k - 1], k>>] /\ t[j - 1] = u[k - 1]
          BY <2>3, <4>1
        <5> QED
          BY <4>1, <5>1
      <4>2. CASE j # k
        <5>1. t[j] = u[j] /\ t[j - 1] = u[j - 1] /\ j \in 1..(k - 1)
          BY <2>3, <4>2
        <5> QED
          BY <3>3, <5>1
      <4> QED
        BY <4>1, <4>2
    <3> HIDE DEF t
    <3>10. Continues(t, S, z, k, G)
      BY <3>7, <3>8, <3>9 DEF Continues
    <3> QED
      BY <2>3, <3>10
  <2> QED
    BY <2>4, <2>5
<1>2. n \notin B
  BY <1>1
<1> QED
  BY <1>2

\* Two that start alike stay alike.
LEMMA ContinuationsAgree ==
  ASSUME NEW n \in Nat, NEW t, NEW u, t[0] = u[0],
         \A k \in 1..n : t[k - 1] = u[k - 1] => t[k] = u[k]
  PROVE  \A k \in 0..n : t[k] = u[k]
<1> DEFINE B == {k \in 0..n : t[k] # u[k]}
<1>1. ASSUME B # {} PROVE FALSE
  <2>1. B \in SUBSET Nat
    OBVIOUS
  <2>2. PICK k \in B : \A m \in B : k <= m
    <3> HIDE DEF B
    <3> QED
      BY <1>1, <2>1, SmallestNat
  <2>3. k \in 0..n /\ t[k] # u[k]
    OBVIOUS
  <2>4. k # 0
    BY <2>3
  <2>5. k - 1 \in 0..n /\ k \in 1..n /\ ~ (k <= k - 1)
    BY <2>3, <2>4
  <2>6. k - 1 \notin B
    <3> HIDE DEF B
    <3> QED
      BY <2>2, <2>5
  <2>7. t[k - 1] = u[k - 1]
    BY <2>5, <2>6
  <2> QED
    BY <2>3, <2>5, <2>7
<1> QED
  BY <1>1

\* The sums, and the products, of the first terms.
PartialSums(t, s) ==
  /\ t \in [0..Len(s) -> Rationals] /\ t[0] = Zero
  /\ \A k \in 1..Len(s) : t[k] = t[k - 1] ++ s[k]
PartialProducts(t, s) ==
  /\ t \in [0..Len(s) -> Rationals] /\ t[0] = One
  /\ \A k \in 1..Len(s) : t[k] = t[k - 1] ** s[k]

LEMMA PartialSumsExist ==
  ASSUME NEW s \in Seq(Rationals)
  PROVE  \E t : PartialSums(t, s)
<1> DEFINE n == Len(s)
           G == [p \in Rationals \X (1..n) |-> p[1] ++ s[p[2]]]
<1>1. n \in Nat /\ Zero \in Rationals /\ \A k \in 1..n : s[k] \in Rationals
  <2>1. Zero \in Rationals
    BY IsWhole DEF Zero
  <2> QED
    BY <2>1
<1>2. G \in [Rationals \X (1..n) -> Rationals]
  <2>1. ASSUME NEW p \in Rationals \X (1..n) PROVE p[1] ++ s[p[2]] \in Rationals
    BY <1>1, Closed
  <2> QED
    BY <2>1
<1>3. PICK t : Continues(t, Rationals, Zero, n, G)
  <2> HIDE DEF G, n
  <2> QED
    BY <1>1, <1>2, ContinuationsExist
<1>4. ASSUME NEW k \in 1..n PROVE t[k] = t[k - 1] ++ s[k]
  <2>1. k - 1 \in 0..n
    BY <1>1
  <2>2. t[k - 1] \in Rationals /\ t[k] = G[<<t[k - 1], k>>]
    BY <1>3, <2>1 DEF Continues
  <2> QED
    BY <2>2
<1>5. PartialSums(t, s)
  BY <1>3, <1>4 DEF PartialSums, Continues
<1> QED
  BY <1>5

LEMMA PartialProductsExist ==
  ASSUME NEW s \in Seq(Rationals)
  PROVE  \E t : PartialProducts(t, s)
<1> DEFINE n == Len(s)
           G == [p \in Rationals \X (1..n) |-> p[1] ** s[p[2]]]
<1>1. n \in Nat /\ One \in Rationals /\ \A k \in 1..n : s[k] \in Rationals
  <2>1. One \in Rationals
    BY IsWhole DEF One
  <2> QED
    BY <2>1
<1>2. G \in [Rationals \X (1..n) -> Rationals]
  <2>1. ASSUME NEW p \in Rationals \X (1..n) PROVE p[1] ** s[p[2]] \in Rationals
    BY <1>1, Closed
  <2> QED
    BY <2>1
<1>3. PICK t : Continues(t, Rationals, One, n, G)
  <2> HIDE DEF G, n
  <2> QED
    BY <1>1, <1>2, ContinuationsExist
<1>4. ASSUME NEW k \in 1..n PROVE t[k] = t[k - 1] ** s[k]
  <2>1. k - 1 \in 0..n
    BY <1>1
  <2>2. t[k - 1] \in Rationals /\ t[k] = G[<<t[k - 1], k>>]
    BY <1>3, <2>1 DEF Continues
  <2> QED
    BY <2>2
<1>5. PartialProducts(t, s)
  BY <1>3, <1>4 DEF PartialProducts, Continues
<1> QED
  BY <1>5

\* The recursive definition is the last of the partial sums.
LEMMA SumIsLast ==
  ASSUME NEW s \in Seq(Rationals), NEW t, PartialSums(t, s)
  PROVE  Sum(s) = t[Len(s)] /\ Sum(s) \in Rationals
<1> DEFINE n == Len(s)
           P(f) == f = [k \in 0..n |-> IF k = 0 THEN Zero ELSE f[k - 1] ++ s[k]]
           u == CHOOSE f : P(f)
<1>1. n \in Nat /\ t \in [0..n -> Rationals] /\ t[0] = Zero /\ \A k \in 1..n : t[k] = t[k - 1] ++ s[k]
  BY DEF PartialSums
<1>2. P(t)
  <2>1. t = [k \in 0..n |-> t[k]]
    BY <1>1
  <2>2. ASSUME NEW k \in 0..n PROVE t[k] = IF k = 0 THEN Zero ELSE t[k - 1] ++ s[k]
    <3>1. k = 0 \/ k \in 1..n
      BY <1>1
    <3> QED
      BY <1>1, <3>1
  <2> QED
    BY <2>1, <2>2
<1>3. P(u)
  <2> HIDE DEF P
  <2> QED
    BY <1>2
<1>4. Sum(s) = u[n]
  BY DEF Sum
<1> HIDE DEF u
<1>5. u[0] = Zero /\ \A k \in 1..n : u[k] = u[k - 1] ++ s[k]
  <2>1. 0 \in 0..n /\ \A k \in 1..n : k \in 0..n /\ k # 0
    BY <1>1
  <2>2. \A k \in 0..n : u[k] = IF k = 0 THEN Zero ELSE u[k - 1] ++ s[k]
    <3> DEFINE w == [k \in 0..n |-> IF k = 0 THEN Zero ELSE u[k - 1] ++ s[k]]
    <3>1. u = w
      BY <1>3
    <3>2. \A k \in 0..n : w[k] = IF k = 0 THEN Zero ELSE u[k - 1] ++ s[k]
      OBVIOUS
    <3> HIDE DEF w
    <3> QED
      BY <3>1, <3>2
  <2> QED
    BY <2>1, <2>2
<1>6. \A k \in 0..n : u[k] = t[k]
  <2>1. \A k \in 1..n : u[k - 1] = t[k - 1] => u[k] = t[k]
    BY <1>1, <1>5
  <2>2. n \in Nat /\ u[0] = t[0]
    BY <1>1, <1>5
  <2> HIDE DEF n
  <2> QED
    BY ONLY <2>1, <2>2, ContinuationsAgree, SMTT(40)
<1>7. n \in 0..n
  BY <1>1
<1> QED
  BY <1>1, <1>4, <1>6, <1>7

LEMMA ProductIsLast ==
  ASSUME NEW s \in Seq(Rationals), NEW t, PartialProducts(t, s)
  PROVE  Product(s) = t[Len(s)] /\ Product(s) \in Rationals
<1> DEFINE n == Len(s)
           P(f) == f = [k \in 0..n |-> IF k = 0 THEN One ELSE f[k - 1] ** s[k]]
           u == CHOOSE f : P(f)
<1>1. n \in Nat /\ t \in [0..n -> Rationals] /\ t[0] = One /\ \A k \in 1..n : t[k] = t[k - 1] ** s[k]
  BY DEF PartialProducts
<1>2. P(t)
  <2>1. t = [k \in 0..n |-> t[k]]
    BY <1>1
  <2>2. ASSUME NEW k \in 0..n PROVE t[k] = IF k = 0 THEN One ELSE t[k - 1] ** s[k]
    <3>1. k = 0 \/ k \in 1..n
      BY <1>1
    <3> QED
      BY <1>1, <3>1
  <2> QED
    BY <2>1, <2>2
<1>3. P(u)
  <2> HIDE DEF P
  <2> QED
    BY <1>2
<1>4. Product(s) = u[n]
  BY DEF Product
<1> HIDE DEF u
<1>5. u[0] = One /\ \A k \in 1..n : u[k] = u[k - 1] ** s[k]
  <2>1. 0 \in 0..n /\ \A k \in 1..n : k \in 0..n /\ k # 0
    BY <1>1
  <2>2. \A k \in 0..n : u[k] = IF k = 0 THEN One ELSE u[k - 1] ** s[k]
    <3> DEFINE w == [k \in 0..n |-> IF k = 0 THEN One ELSE u[k - 1] ** s[k]]
    <3>1. u = w
      BY <1>3
    <3>2. \A k \in 0..n : w[k] = IF k = 0 THEN One ELSE u[k - 1] ** s[k]
      OBVIOUS
    <3> HIDE DEF w
    <3> QED
      BY <3>1, <3>2
  <2> QED
    BY <2>1, <2>2
<1>6. \A k \in 0..n : u[k] = t[k]
  <2>1. \A k \in 1..n : u[k - 1] = t[k - 1] => u[k] = t[k]
    BY <1>1, <1>5
  <2>2. n \in Nat /\ u[0] = t[0]
    BY <1>1, <1>5
  <2> HIDE DEF n, P
  <2>3. \A k \in 0..n : u[k] = t[k]
    BY ONLY <2>1, <2>2, ContinuationsAgree, SMTT(60)
  <2> QED
    BY ONLY <2>3
<1>7. n \in 0..n
  BY <1>1
<1> QED
  BY <1>1, <1>4, <1>6, <1>7

\* Over a common denominator, a sum is the sum of the numerators.
LEMMA SumIs ==
  ASSUME NEW n \in Nat, NEW s \in [1..n -> Rationals], NEW d \in Nat \ {0}, NEW c,
         \A k \in 1..n : Is(s[k], c[k], d)
  PROVE  Is(Sum(s), Total(c, 1..n), d) /\ Total(c, 1..n) \in Int
<1>1. s \in Seq(Rationals) /\ Len(s) = n
  BY FunctionIsSequence
<1>2. PICK t : PartialSums(t, s)
  BY <1>1, PartialSumsExist
<1>3. t \in [0..n -> Rationals] /\ t[0] = Zero /\ \A k \in 1..n : t[k] = t[k - 1] ++ s[k]
  BY <1>1, <1>2 DEF PartialSums
<1>4. Sum(s) = t[n]
  BY <1>1, <1>2, SumIsLast
<1> DEFINE B == {k \in 0..n : ~ Is(t[k], Total(c, 1..k), d)}
<1>5. ASSUME B # {} PROVE FALSE
  <2>1. B \in SUBSET Nat
    OBVIOUS
  <2>2. PICK k \in B : \A m \in B : k <= m
    <3> HIDE DEF B
    <3> QED
      BY <1>5, <2>1, SmallestNat
  <2>3. k \in 0..n /\ ~ Is(t[k], Total(c, 1..k), d)
    OBVIOUS
  <2>4. k # 0
    <3>1. Total(c, 1..0) = 0
      <4>1. 1..0 = {}
        OBVIOUS
      <4> QED
        BY <4>1, SumOfNone
    <3>2. Is(t[0], 0, d)
      BY <1>3, ZeroIs
    <3> QED
      BY <2>3, <3>1, <3>2
  <2>5. k - 1 \in 0..n /\ k \in 1..n /\ ~ (k <= k - 1)
    BY <2>3, <2>4
  <2>6. k - 1 \notin B
    <3> HIDE DEF B
    <3> QED
      BY <2>2, <2>5
  <2>7. Is(t[k - 1], Total(c, 1..(k - 1)), d)
    BY <2>5, <2>6
  <2>8. Is(t[k], Total(c, 1..(k - 1)) + c[k], d)
    <3>1. Is(s[k], c[k], d) /\ t[k] = t[k - 1] ++ s[k]
      BY <1>3, <2>5
    <3> HIDE DEF B
    <3> QED
      BY <2>7, <3>1, PlusIs
  <2>9. Total(c, 1..k) = c[k] + Total(c, 1..(k - 1))
    <3>1. /\ IsFiniteSet(1..k) /\ k \in 1..k /\ (1..k) \ {k} = 1..(k - 1)
      <4>1. IsFiniteSet(1..k)
      BY <2>5, FS_Interval
    <4>2. \A j : j \in (1..k) \ {k} <=> j \in 1..(k - 1)
      BY <2>5
    <4> QED
      BY <2>5, <4>1, <4>2
    <3>2. \A j \in 1..k : c[j] \in Int
      BY <2>5 DEF Is
    <3> QED
      BY <3>1, <3>2, SumSplits
  <2>10. Total(c, 1..(k - 1)) \in Int /\ c[k] \in Int
    BY <2>5, <2>7 DEF Is
  <2>11. Total(c, 1..k) = Total(c, 1..(k - 1)) + c[k]
    BY <2>9, <2>10
  <2> QED
    BY <2>3, <2>8, <2>11
<1>6. Is(t[n], Total(c, 1..n), d)
  <2>1. n \in 0..n /\ n \notin B
    BY <1>5
  <2> QED
    BY <2>1
<1> QED
  BY <1>4, <1>6 DEF Is

\* The terms of a sequence have a common denominator.
LEMMA SeriesOver ==
  ASSUME NEW n \in Nat, NEW s \in [1..n -> Rationals], NEW e \in Nat \ {0}
  PROVE  \E d \in Nat \ {0} : /\ \A k \in 1..n : Over(s[k], d)
                              /\ \A a : Over(a, e) => Over(a, d)
<1> DEFINE Good(m) == \E d \in Nat \ {0} : /\ \A k \in 1..m : Over(s[k], d)
                                          /\ \A a : Over(a, e) => Over(a, d)
           B == {m \in 0..n : ~ Good(m)}
<1>5. ASSUME B # {} PROVE FALSE
  <2>1. B \in SUBSET Nat
    OBVIOUS
  <2>2. PICK m \in B : \A j \in B : m <= j
    <3> HIDE DEF B
    <3> QED
      BY <1>5, <2>1, SmallestNat
  <2>3. m \in 0..n /\ ~ Good(m)
    <3> HIDE DEF Good
    <3> QED
      OBVIOUS
  <2>4. m # 0
    <3>1. Good(0)
      OBVIOUS
    <3> QED
      BY <2>3, <3>1
  <2>5. m - 1 \in 0..n /\ m \in 1..n /\ ~ (m <= m - 1)
    BY <2>3, <2>4
  <2>6. m - 1 \notin B
    <3> HIDE DEF B
    <3> QED
      BY <2>2, <2>5
  <2>7. Good(m - 1)
    <3> HIDE DEF Good
    <3> QED
      BY <2>5, <2>6
  <2>8. PICK f \in Nat \ {0} : /\ \A k \in 1..(m - 1) : Over(s[k], f)
                               /\ \A a : Over(a, e) => Over(a, f)
    BY <2>7
  <2>9. PICK d \in Nat \ {0} : Over(s[m], d) /\ \A a : Over(a, f) => Over(a, d)
    <3>1. s[m] \in Rationals
      BY <2>5
    <3> QED
      BY <3>1, OverMore
  <2>10. ASSUME NEW k \in 1..m PROVE Over(s[k], d)
    <3>1. k = m \/ k \in 1..(m - 1)
      BY <2>5
    <3> QED
      BY <2>8, <2>9, <3>1
  <2>11. Good(m)
    BY <2>8, <2>9, <2>10
  <2> QED
    BY <2>3, <2>11
<1>6. n \in 0..n /\ n \notin B
  <2> HIDE DEF Good, B
  <2> QED
    BY <1>5
<1>7. Good(n)
  <2> HIDE DEF Good
  <2> QED
    BY <1>6
<1> QED
  BY <1>7

LEMMA TwoSeriesOver ==
  ASSUME NEW n \in Nat, NEW x \in [1..n -> Rationals], NEW y \in [1..n -> Rationals]
  PROVE  \E d \in Nat \ {0}, c \in [1..n -> Int], e \in [1..n -> Int] :
           \A k \in 1..n : Is(x[k], c[k], d) /\ Is(y[k], e[k], d)
<1>1. PICK f \in Nat \ {0} : \A k \in 1..n : Over(x[k], f)
  <2>1. 1 \in Nat \ {0}
    OBVIOUS
  <2> QED
    BY <2>1, SeriesOver
<1>2. PICK d \in Nat \ {0} : /\ \A k \in 1..n : Over(y[k], d)
                             /\ \A a : Over(a, f) => Over(a, d)
  BY SeriesOver, ZenonT(40)
<1> DEFINE c == [k \in 1..n |-> CHOOSE i \in Int : Is(x[k], i, d)]
           e == [k \in 1..n |-> CHOOSE i \in Int : Is(y[k], i, d)]
<1>3. ASSUME NEW k \in 1..n
      PROVE  c[k] \in Int /\ e[k] \in Int /\ Is(x[k], c[k], d) /\ Is(y[k], e[k], d)
  <2>1. \E i \in Int : Is(x[k], i, d)
    BY <1>1, <1>2 DEF Over
  <2>2. \E i \in Int : Is(y[k], i, d)
    BY <1>2 DEF Over
  <2> QED
    BY <2>1, <2>2
<1>4. c \in [1..n -> Int] /\ e \in [1..n -> Int]
  BY <1>3
<1> HIDE DEF c, e
<1> QED
  BY <1>3, <1>4

LEMMA DotIs ==
  ASSUME NEW n \in Nat, NEW x \in [1..n -> Rationals], NEW y \in [1..n -> Rationals],
         NEW d \in Nat \ {0}, NEW c, NEW e,
         \A k \in 1..n : Is(x[k], c[k], d) /\ Is(y[k], e[k], d)
  PROVE  /\ Is(Dot(x, y), Total([k \in 1..n |-> c[k] * e[k]], 1..n), d * d)
         /\ Dot(x, y) \in Rationals /\ Total([k \in 1..n |-> c[k] * e[k]], 1..n) \in Int
<1> DEFINE f == [k \in 1..n |-> x[k] ** y[k]]
           g == [k \in 1..n |-> c[k] * e[k]]
<1>1. \A k \in 1..n : Is(f[k], g[k], d * d) /\ f[k] \in Rationals
  <2>1. ASSUME NEW k \in 1..n PROVE Is(x[k] ** y[k], c[k] * e[k], d * d) /\ x[k] ** y[k] \in Rationals
    <3>1. Is(x[k], c[k], d) /\ Is(y[k], e[k], d)
      OBVIOUS
    <3> QED
      BY <3>1, TimesIs
  <2> QED
    BY <2>1
<1>2. f \in [1..n -> Rationals] /\ d * d \in Nat \ {0}
  BY <1>1, ProductIsPositive
<1>3. Dot(x, y) = Sum(f)
  <2>1. Len(x) = n
    BY FunctionIsSequence
  <2> QED
    BY <2>1 DEF Dot
<1> HIDE DEF f, g
<1>4. Is(Sum(f), Total(g, 1..n), d * d) /\ Total(g, 1..n) \in Int
  BY <1>1, <1>2, SumIs
<1> QED
  BY <1>3, <1>4 DEF Is, g

LEMMA SumInOrder ==
  ASSUME NEW n \in Nat, NEW x \in [1..n -> Rationals], NEW y \in [1..n -> Rationals],
         \A k \in 1..n : x[k] \preceq y[k]
  PROVE  Sum(x) \preceq Sum(y) /\ Sum(x) \in Rationals /\ Sum(y) \in Rationals
<1>1. PICK d \in Nat \ {0}, c \in [1..n -> Int], e \in [1..n -> Int] :
        \A k \in 1..n : Is(x[k], c[k], d) /\ Is(y[k], e[k], d)
  BY TwoSeriesOver
<1>2. Is(Sum(x), Total(c, 1..n), d) /\ Is(Sum(y), Total(e, 1..n), d)
  BY <1>1, SumIs
<1>3. \A k \in 1..n : c[k] \in Int /\ e[k] \in Int /\ c[k] <= e[k]
  BY <1>1, IsOrder
<1>4. Total(c, 1..n) <= Total(e, 1..n)
  <2>1. IsFiniteSet(1..n)
    BY FS_Interval
  <2> QED
    BY <1>3, <2>1, SumMonotone
<1>5. Sum(x) \in Rationals /\ Sum(y) \in Rationals
  BY <1>2 DEF Is
<1> DEFINE m == Total(c, 1..n)
           l == Total(e, 1..n)
<1> HIDE DEF m, l
<1>6. Is(Sum(x), m, d) /\ Is(Sum(y), l, d) /\ m <= l
  BY <1>2, <1>4 DEF m, l
<1> QED
  BY <1>5, <1>6, IsOrder

LEMMA ShareIs ==
  ASSUME NEW a, NEW n, NEW d, Is(a, n, d), NEW m \in Nat \ {0}
  PROVE  Is(a // Whole(m), n, d * m) /\ a // Whole(m) \in Rationals
<1>1. Is(Whole(m), m, 1) /\ m > 0 /\ n \in Int
  BY IsWhole DEF Is
<1>2. Is(a // Whole(m), n * 1, d * m)
  BY <1>1, QuotientIs
<1>3. n * 1 = n
  BY <1>1
<1> QED
  BY <1>2, <1>3 DEF Is

LEMMA ShareInOrder ==
  ASSUME NEW a \in Rationals, NEW b \in Rationals, a \preceq b, NEW m \in Nat \ {0}
  PROVE  a // Whole(m) \preceq b // Whole(m)
<1>1. PICK n \in Int, k \in Int, d \in Nat \ {0} : Is(a, n, d) /\ Is(b, k, d)
  BY IsCommon
<1>2. n <= k
  BY <1>1, IsOrder
<1>3. Is(a // Whole(m), n, d * m) /\ Is(b // Whole(m), k, d * m)
  BY <1>1, ShareIs
<1> QED
  BY <1>2, <1>3, IsOrder

LEMMA SquareIsPositive ==
  ASSUME NEW a \in Rationals
  PROVE  Zero \preceq a ** a /\ a ** a \in Rationals
<1>1. PICK n \in Int, d \in Nat \ {0} : Is(a, n, d)
  BY IsItself, RationalParts
<1>2. Is(a ** a, n * n, d * d) /\ a ** a \in Rationals
  BY <1>1, TimesIs
<1>3. n * n >= 0
  <2>1. CASE n >= 0
    BY <2>1
  <2>2. CASE n < 0
    <3>1. -n \in Nat /\ n * n = (-n) * (-n)
      BY <2>2
    <3>2. (-n) * (-n) \in Nat
      BY <3>1, ProductIsNat
    <3> QED
      BY <3>1, <3>2
  <2> QED
    BY <2>1, <2>2
<1> QED
  BY <1>2, <1>3, PositiveIs
-----------------------------------------------------------------------------
(* Squares of integers.                                                    *)

LEMMA SquareIsNat ==
  ASSUME NEW n \in Int
  PROVE  n * n \in Nat /\ (n # 0 => n * n # 0)
<1>1. CASE n >= 0
  <2>1. n \in Nat
    BY <1>1
  <2>2. n * n \in Nat
    BY <2>1, ProductIsNat
  <2>3. n # 0 => n * n \in Nat \ {0}
    BY <2>1, ProductIsPositive
  <2> QED
    BY <2>2, <2>3
<1>2. CASE n < 0
  <2> DEFINE m == -n
  <2>1. m \in Nat \ {0} /\ n * n = m * m
    BY <1>2
  <2> HIDE DEF m
  <2>2. m * m \in Nat \ {0}
    BY <2>1, ProductIsPositive
  <2> QED
    BY <2>1, <2>2
<1> QED
  BY <1>1, <1>2

LEMMA TotalNext ==
  ASSUME NEW k \in Nat \ {0}, NEW f, \A j \in 1..k : f[j] \in Int
  PROVE  /\ Total(f, 1..k) = Total(f, 1..(k - 1)) + f[k]
         /\ Total(f, 1..k) \in Int /\ Total(f, 1..(k - 1)) \in Int
<1>1. IsFiniteSet(1..k) /\ IsFiniteSet(1..(k - 1)) /\ k \in 1..k
  BY FS_Interval
<1>2. \A j : j \in (1..k) \ {k} <=> j \in 1..(k - 1)
  OBVIOUS
<1>3. (1..k) \ {k} = 1..(k - 1)
  BY <1>2
<1>4. Total(f, 1..k) = f[k] + Total(f, 1..(k - 1))
  BY <1>1, <1>3, SumSplits
<1>5. Total(f, 1..k) \in Int /\ Total(f, 1..(k - 1)) \in Int
  <2>1. \A j \in 1..(k - 1) : f[j] \in Int
    OBVIOUS
  <2> QED
    BY <1>1, <2>1, SumIsInt
<1>6. f[k] \in Int
  BY <1>1
<1> QED
  BY <1>4, <1>5, <1>6

LEMMA TotalOfNone ==
  ASSUME NEW f
  PROVE  Total(f, 1..0) = 0
<1>1. 1..0 = {}
  OBVIOUS
<1> QED
  BY <1>1, SumOfNone

\* A series has less in common with itself a period later than with itself.
LEMMA LagIsLess ==
  ASSUME NEW n \in Nat \ {0}, NEW c \in [1..n -> Int], NEW s \in {-1, 1},
         NEW sq, \A k \in 1..n : sq[k] = c[k] * c[k],
         NEW lag, \A k \in 1..(n - 1) : lag[k] = c[k + 1] * c[k],
         Total(sq, 1..n) # 0
  PROVE  s * Total(lag, 1..(n - 1)) < Total(sq, 1..n)
<1> DEFINE gap(k) == 2 * (Total(sq, 1..k) - s * Total(lag, 1..(k - 1))) - c[k] * c[k]
           Good(k) == gap(k) >= 0 /\ (gap(k) = 0 => Total(sq, 1..k) = 0)
           B == {k \in 1..n : ~ Good(k)}
<1>0. \A k \in 1..n : c[k] \in Int /\ sq[k] \in Nat /\ sq[k] = c[k] * c[k] /\ (sq[k] = 0 => c[k] = 0)
  BY SquareIsNat
<1>01. \A k \in 1..(n - 1) : lag[k] \in Int /\ lag[k] = c[k + 1] * c[k]
  <2>1. ASSUME NEW k \in 1..(n - 1) PROVE c[k + 1] * c[k] \in Int
    <3>1. k \in 1..n /\ k + 1 \in 1..n
      OBVIOUS
    <3>2. c[k] \in Int /\ c[k + 1] \in Int
      BY <1>0, <3>1
    <3> QED
      BY <3>2
  <2> QED
    BY <2>1
<1>02. \A k \in 1..n : Total(sq, 1..k) \in Nat
  <2>1. ASSUME NEW k \in 1..n PROVE Total(sq, 1..k) \in Nat
    <3>1. IsFiniteSet(1..k) /\ \A j \in 1..k : sq[j] \in Nat
      <4>1. IsFiniteSet(1..k)
        BY FS_Interval
      <4>2. \A j \in 1..k : j \in 1..n
        OBVIOUS
      <4> QED
        BY <1>0, <4>1, <4>2
    <3> QED
      BY <3>1, SumIsNat
  <2> QED
    BY <2>1
<1>03. \A k \in 0..(n - 1) : Total(lag, 1..k) \in Int
  <2>1. ASSUME NEW k \in 0..(n - 1) PROVE Total(lag, 1..k) \in Int
    <3>1. IsFiniteSet(1..k) /\ \A j \in 1..k : lag[j] \in Int
      <4>1. IsFiniteSet(1..k)
        BY FS_Interval
      <4>2. \A j \in 1..k : j \in 1..(n - 1)
        OBVIOUS
      <4> QED
        BY <1>01, <4>1, <4>2
    <3> QED
      BY <3>1, SumIsInt
  <2> QED
    BY <2>1
<1>1. ASSUME B # {} PROVE FALSE
  <2>1. B \in SUBSET Nat
    OBVIOUS
  <2>2. PICK k \in B : \A m \in B : k <= m
    <3> HIDE DEF B
    <3> QED
      BY <1>1, <2>1, SmallestNat
  <2>3. k \in 1..n /\ ~ Good(k)
    <3> HIDE DEF Good
    <3> QED
      OBVIOUS
  <2>4. ASSUME NEW j \in 1..n
        PROVE  Total(sq, 1..j) = Total(sq, 1..(j - 1)) + sq[j]
    <3>1. j \in Nat \ {0} /\ \A i \in 1..j : sq[i] \in Int
      <4>1. \A i \in 1..j : i \in 1..n
        OBVIOUS
      <4> QED
        BY <1>0, <4>1, SMTT(40)
    <3> QED
      BY <3>1, TotalNext
  <2>5. CASE k = 1
    <3>1. Total(sq, 1..1) = sq[1] /\ Total(lag, 1..0) = 0
      <4>1. Total(sq, 1..1) = Total(sq, 1..(1 - 1)) + sq[1]
        BY <2>3, <2>4, <2>5
      <4>2. Total(sq, 1..(1 - 1)) = 0
        BY TotalOfNone
      <4>3. sq[1] \in Nat
        BY <1>0, <2>3, <2>5
      <4> QED
        BY <4>1, <4>2, <4>3, TotalOfNone
    <3>2. c[1] \in Int /\ sq[1] = c[1] * c[1] /\ sq[1] \in Nat
      BY <1>0, <2>3, <2>5
    <3> DEFINE u == c[1] * c[1]
    <3>3. gap(1) = 2 * (u - s * 0) - u
      BY <3>1, <3>2
    <3>4. u \in Nat
      BY <3>2
    <3> HIDE DEF u, gap
    <3>5. gap(1) = u
      BY <3>3, <3>4
    <3>6. u = sq[1]
      BY <3>2 DEF u
    <3> QED
      BY <2>3, <2>5, <3>1, <3>4, <3>5, <3>6
  <2>6. CASE k # 1
    <3>1. k - 1 \in 1..n /\ ~ (k <= k - 1) /\ k - 1 \in 1..(n - 1) /\ (k - 1) + 1 = k
      BY <2>3, <2>6
    <3>2. k - 1 \notin B
      <4> HIDE DEF B
      <4> QED
        BY <2>2, <3>1
    <3>3. Good(k - 1)
      <4> HIDE DEF Good
      <4> QED
        BY <3>1, <3>2
    <3> DEFINE S == Total(sq, 1..(k - 1))
               L == Total(lag, 1..((k - 1) - 1))
               x == c[k - 1]
               y == c[k]
               g == gap(k - 1)
    <3>4. Total(sq, 1..k) = S + y * y
      BY <1>0, <2>3, <2>4
    <3>5. Total(lag, 1..(k - 1)) = L + y * x
      <4>1. k - 1 \in Nat \ {0} /\ \A i \in 1..(k - 1) : lag[i] \in Int
        <5>1. \A i \in 1..(k - 1) : i \in 1..(n - 1)
          BY <3>1
        <5> QED
          BY <1>01, <3>1, <5>1, SMTT(40)
      <4>2. Total(lag, 1..(k - 1)) = L + lag[k - 1]
        BY <4>1, TotalNext
      <4> QED
        BY <1>01, <3>1, <4>2
    <3>6. S \in Nat /\ L \in Int /\ x \in Int /\ y \in Int
      <4>1. (k - 1) - 1 \in 0..(n - 1)
        BY <3>1
      <4> QED
        BY <1>0, <1>02, <1>03, <2>3, <3>1, <4>1
    <3>7. g = 2 * (S - s * L) - x * x /\ g >= 0 /\ (g = 0 => S = 0)
      BY <3>3
    <3>8. gap(k) = 2 * ((S + y * y) - s * (L + y * x)) - y * y
      BY <3>4, <3>5
    <3>9. S = 0 => x = 0
      <4>1. S = Total(sq, 1..((k - 1) - 1)) + sq[k - 1]
        BY <2>4, <3>1
      <4>2. sq[k - 1] \in Nat /\ Total(sq, 1..((k - 1) - 1)) \in Nat
        <5>1. CASE k - 1 = 1
          BY <1>0, <3>1, <5>1, TotalOfNone
        <5>2. CASE k - 1 # 1
          <6>1. (k - 1) - 1 \in 1..n
            BY <3>1, <5>2
          <6> QED
            BY <1>0, <1>02, <3>1, <6>1
        <5> QED
          BY <5>1, <5>2
      <4>3. S = 0 => sq[k - 1] = 0
        BY <4>1, <4>2
      <4> QED
        BY <1>0, <3>1, <4>3
    <3> HIDE DEF S, L, x, y, g, gap
    <3>10. s * s = 1
      OBVIOUS
    <3>11. gap(k) = g + (x - s * y) * (x - s * y)
      <4>1. CASE s = 1
        BY <3>6, <3>7, <3>8, <4>1
      <4>2. CASE s = -1
        BY <3>6, <3>7, <3>8, <4>2
      <4> QED
        BY <4>1, <4>2
    <3> DEFINE z == x - s * y
    <3>12. z \in Int /\ z * z \in Nat /\ (z # 0 => z * z # 0)
      <4>1. z \in Int
        BY <3>6
      <4> HIDE DEF z
      <4> QED
        BY <4>1, SquareIsNat
    <3>13. gap(k) = g + z * z /\ g \in Int
      BY <3>6, <3>7, <3>11
    <3>14. z = 0 /\ x = 0 => y = 0
      BY <3>6
    <3> HIDE DEF z
    <3>15. gap(k) >= 0
      BY <3>7, <3>12, <3>13
    <3>16. gap(k) = 0 => Total(sq, 1..k) = 0
      <4> SUFFICES ASSUME gap(k) = 0 PROVE Total(sq, 1..k) = 0
        OBVIOUS
      <4>1. g = 0 /\ z * z = 0
        BY <3>7, <3>12, <3>13
      <4>2. S = 0 /\ x = 0 /\ z = 0
        BY <3>7, <3>9, <3>12, <4>1
      <4>3. y = 0
        BY <3>14, <4>2
      <4> QED
        BY <3>4, <4>2, <4>3 DEF y, S
    <3> QED
      BY <2>3, <3>15, <3>16
  <2> QED
    BY <2>5, <2>6
<1>2. Good(n)
  <2> HIDE DEF B
  <2>1. n \in 1..n /\ n \notin B
    <3> HIDE DEF Good, gap
    <3>1. n \in 1..n
      OBVIOUS
    <3>2. n \notin B
      BY <1>1
    <3> QED
      BY <3>1, <3>2
  <2> HIDE DEF Good
  <2> USE DEF B
  <2> QED
    BY <2>1
<1> DEFINE S == Total(sq, 1..n)
           L == Total(lag, 1..(n - 1))
           x == c[n]
<1>3. S \in Nat /\ L \in Int /\ x \in Int
  <2>1. n \in 1..n /\ n - 1 \in 0..(n - 1)
    OBVIOUS
  <2> QED
    BY <1>0, <1>02, <1>03, <2>1
<1>4. 2 * (S - s * L) - x * x >= 0 /\ (2 * (S - s * L) - x * x = 0 => S = 0) /\ S # 0
  BY <1>2
<1> HIDE DEF S, L, x, gap, Good
<1>5. x * x \in Nat
  BY <1>3, SquareIsNat
<1>6. s * L < S
  <2> DEFINE m == s * L
             w == x * x
  <2>1. m \in Int /\ w \in Nat /\ 2 * (S - m) - w > 0
    BY <1>3, <1>4, <1>5
  <2> HIDE DEF m, w
  <2>2. m < S
    BY <1>3, <2>1
  <2> QED
    BY <2>2 DEF m
<1> QED
  BY <1>6 DEF S, L
-----------------------------------------------------------------------------
(* The laws of numbers.                                                    *)

LEMMA ThreeOver ==
  ASSUME NEW a \in Rationals, NEW b \in Rationals, NEW c \in Rationals
  PROVE  \E d \in Nat \ {0}, x, y, z \in Int : Is(a, x, d) /\ Is(b, y, d) /\ Is(c, z, d)
<1>1. PICK d \in Nat \ {0} : Over(a, d) /\ Over(b, d) /\ Over(c, d)
  BY OverThree
<1> QED
  BY <1>1 DEF Over

LEMMA PlusLaws ==
  ASSUME NEW a \in Rationals, NEW b \in Rationals, NEW c \in Rationals
  PROVE  /\ a ++ b = b ++ a
         /\ (a ++ b) ++ c = a ++ (b ++ c)
         /\ a ++ Zero = a /\ Zero ++ a = a /\ a -- Zero = a
         /\ a -- a = Zero
         /\ (a ++ b) -- c = a ++ (b -- c)
         /\ (a -- c) -- (b -- c) = a -- b
         /\ (a ++ b) -- (c ++ b) = a -- c
<1>1. PICK d \in Nat \ {0}, x \in Int, y \in Int, z \in Int : Is(a, x, d) /\ Is(b, y, d) /\ Is(c, z, d)
  BY ThreeOver
<1>2. Is(Zero, 0, d)
  BY ZeroIs
<1>3. /\ Is(a ++ b, x + y, d) /\ Is(b ++ a, y + x, d) /\ Is(b ++ c, y + z, d) /\ Is(c ++ b, z + y, d)
      /\ Is(b -- c, y - z, d) /\ Is(a -- c, x - z, d) /\ Is(a -- b, x - y, d) /\ Is(a -- a, x - x, d)
      /\ Is(a ++ Zero, x + 0, d) /\ Is(Zero ++ a, 0 + x, d) /\ Is(a -- Zero, x - 0, d)
  BY <1>1, <1>2, PlusIs, DifferenceIs
<1>4. /\ Is((a ++ b) ++ c, (x + y) + z, d) /\ Is(a ++ (b ++ c), x + (y + z), d)
      /\ Is((a ++ b) -- c, (x + y) - z, d) /\ Is(a ++ (b -- c), x + (y - z), d)
      /\ Is((a -- c) -- (b -- c), (x - z) - (y - z), d)
      /\ Is((a ++ b) -- (c ++ b), (x + y) - (z + y), d)
  BY <1>1, <1>3, PlusIs, DifferenceIs
<1>5. /\ x + y = y + x /\ (x + y) + z = x + (y + z) /\ x + 0 = x /\ 0 + x = x /\ x - 0 = x /\ x - x = 0
      /\ (x + y) - z = x + (y - z) /\ (x - z) - (y - z) = x - y /\ (x + y) - (z + y) = x - z
  OBVIOUS
<1>6. \A p, q, m, n : Is(p, m, d) /\ Is(q, n, d) /\ m = n => p = q
  BY IsOrder
<1> QED
  BY <1>1, <1>2, <1>3, <1>4, <1>5, <1>6

LEMMA TimesLaws ==
  ASSUME NEW a \in Rationals, NEW b \in Rationals, NEW c \in Rationals
  PROVE  /\ a ** b = b ** a
         /\ (a ** b) ** c = a ** (b ** c)
         /\ a ** One = a /\ One ** a = a /\ a ** Zero = Zero
         /\ a ** (b ++ c) = a ** b ++ a ** c
         /\ a ** (b -- c) = a ** b -- a ** c
<1>1. PICK d \in Nat \ {0}, x \in Int, y \in Int, z \in Int : Is(a, x, d) /\ Is(b, y, d) /\ Is(c, z, d)
  BY ThreeOver
<1>2. Is(Zero, 0, d) /\ Is(One, d, d)
  BY ZeroIs
<1>3. /\ Is(a ** b, x * y, d * d) /\ Is(b ** a, y * x, d * d) /\ Is(b ** c, y * z, d * d)
      /\ Is(a ** One, x * d, d * d) /\ Is(One ** a, d * x, d * d) /\ Is(a ** Zero, x * 0, d * d)
      /\ Is(a ** c, x * z, d * d) /\ Is(b ++ c, y + z, d) /\ Is(b -- c, y - z, d)
  BY <1>1, <1>2, PlusIs, DifferenceIs, TimesIs
<1>4. /\ Is((a ** b) ** c, (x * y) * z, (d * d) * d) /\ Is(a ** (b ** c), x * (y * z), d * (d * d))
      /\ Is(a ** (b ++ c), x * (y + z), d * d) /\ Is(a ** (b -- c), x * (y - z), d * d)
      /\ Is(a ** b ++ a ** c, x * y + x * z, d * d) /\ Is(a ** b -- a ** c, x * y - x * z, d * d)
  BY <1>1, <1>3, PlusIs, DifferenceIs, TimesIs
<1>5. /\ x * y = y * x /\ (x * y) * z = x * (y * z) /\ (d * d) * d = d * (d * d) /\ x * 0 = 0
      /\ x * (y + z) = x * y + x * z /\ x * (y - z) = x * y - x * z /\ d * x = x * d
  OBVIOUS
<1>6. \A p, q, m, n, e : Is(p, m, e) /\ Is(q, n, e) /\ m = n => p = q
  BY IsOrder
<1>7. (x * d) * d = x * (d * d) /\ d * d \in Nat \ {0}
  BY ProductIsPositive
<1>8. a ** One = a /\ One ** a = a
  <2>1. a ** One = a
    BY <1>1, <1>3, <1>7, IsSame
  <2> QED
    BY <1>3, <1>5, <1>6, <2>1
<1>9. a ** Zero = Zero
  <2>1. Is(Zero, 0, d * d)
    BY <1>7, ZeroIs
  <2> QED
    BY <1>3, <1>5, <1>6, <2>1
<1> QED
  BY <1>3, <1>4, <1>5, <1>6, <1>8, <1>9
-----------------------------------------------------------------------------
(* Short sums.                                                             *)

LEMMA SumOfTwo ==
  ASSUME NEW s \in Seq(Rationals), Len(s) = 2
  PROVE  Sum(s) = s[1] ++ s[2] /\ Sum(s) \in Rationals
<1>1. PICK t : PartialSums(t, s)
  BY PartialSumsExist
<1>2. t[0] = Zero /\ t[1] = t[0] ++ s[1] /\ t[2] = t[1] ++ s[2]
  <2>1. 1 \in 1..Len(s) /\ 2 \in 1..Len(s) /\ 1 - 1 = 0 /\ 2 - 1 = 1
    OBVIOUS
  <2> QED
    BY <1>1, <2>1 DEF PartialSums
<1>3. s[1] \in Rationals
  OBVIOUS
<1>4. t[1] = s[1]
  BY <1>2, <1>3, PlusLaws
<1> QED
  BY <1>1, <1>2, <1>4, SumIsLast

LEMMA SumOfThree ==
  ASSUME NEW s \in Seq(Rationals), Len(s) = 3
  PROVE  Sum(s) = (s[1] ++ s[2]) ++ s[3] /\ Sum(s) \in Rationals
<1>1. PICK t : PartialSums(t, s)
  BY PartialSumsExist
<1>2. t[0] = Zero /\ t[1] = t[0] ++ s[1] /\ t[2] = t[1] ++ s[2] /\ t[3] = t[2] ++ s[3]
  <2>1. 1 \in 1..Len(s) /\ 2 \in 1..Len(s) /\ 3 \in 1..Len(s) /\ 1 - 1 = 0 /\ 2 - 1 = 1 /\ 3 - 1 = 2
    OBVIOUS
  <2> QED
    BY <1>1, <2>1 DEF PartialSums
<1>3. s[1] \in Rationals
  OBVIOUS
<1>4. t[1] = s[1]
  BY <1>2, <1>3, PlusLaws
<1> QED
  BY <1>1, <1>2, <1>4, SumIsLast
-----------------------------------------------------------------------------
(* Sums of integers, term by term.                                         *)

Weighed(p, a, q, b) == p * a + q * b

LEMMA TotalCombines ==
  ASSUME NEW n \in Nat, NEW f, NEW g, NEW h, NEW p \in Int, NEW q \in Int,
         \A k \in 1..n : f[k] \in Int /\ g[k] \in Int /\ h[k] = Weighed(p, f[k], q, g[k])
  PROVE  /\ Total(h, 1..n) = Weighed(p, Total(f, 1..n), q, Total(g, 1..n))
         /\ Total(f, 1..n) \in Int /\ Total(g, 1..n) \in Int
<1> DEFINE F == [k \in 1..n |-> p * f[k]]
           G == [k \in 1..n |-> q * g[k]]
<1>1. IsFiniteSet(1..n)
  BY FS_Interval
<1>2. \A k \in 1..n : F[k] = p * f[k] /\ G[k] = q * g[k] /\ F[k] \in Int /\ G[k] \in Int
  OBVIOUS
<1> HIDE DEF F, G
<1>3. Total(F, 1..n) = p * Total(f, 1..n)
  BY <1>1, <1>2, SumTimes
<1>4. Total(G, 1..n) = q * Total(g, 1..n)
  BY <1>1, <1>2, SumTimes
<1>5. Total(h, 1..n) = Total(F, 1..n) + Total(G, 1..n)
  <2>1. \A k \in 1..n : h[k] = F[k] + G[k]
    BY <1>2 DEF Weighed
  <2> QED
    BY <1>1, <1>2, <2>1, SumPlus
<1>6. Total(f, 1..n) \in Int /\ Total(g, 1..n) \in Int
  BY <1>1, SumIsInt
<1> QED
  BY <1>3, <1>4, <1>5, <1>6 DEF Weighed

LEMMA TotalOfOnes ==
  ASSUME NEW n \in Nat, NEW f, \A k \in 1..n : f[k] = 1
  PROVE  Total(f, 1..n) = n
<1>1. IsFiniteSet(1..n) /\ Cardinality(1..n) = n
  BY FS_Interval
<1> QED
  BY <1>1, SumOfOnes

\* A shift of every term.
LEMMA TotalShifts ==
  ASSUME NEW n \in Nat, NEW f, NEW h, NEW r \in Int, \A k \in 1..n : f[k] \in Int /\ h[k] = f[k] - r
  PROVE  Total(h, 1..n) = Total(f, 1..n) - n * r /\ Total(f, 1..n) \in Int
<1> DEFINE one == [k \in 1..n |-> 1]
           m == -r
<1>1. \A k \in 1..n : one[k] = 1
  OBVIOUS
<1>2. ASSUME NEW k \in 1..n PROVE f[k] \in Int /\ one[k] \in Int /\ h[k] = Weighed(1, f[k], m, one[k])
  BY <1>1 DEF Weighed
<1> HIDE DEF one
<1>3. Total(one, 1..n) = n
  BY <1>1, TotalOfOnes
<1>4. /\ Total(h, 1..n) = Weighed(1, Total(f, 1..n), m, Total(one, 1..n))
      /\ Total(f, 1..n) \in Int
  <2>1. 1 \in Int /\ m \in Int
    OBVIOUS
  <2> HIDE DEF m
  <2> QED
    BY <1>2, <2>1, TotalCombines
<1>5. ASSUME NEW t \in Int PROVE Weighed(1, t, -r, n) = t - n * r
  BY DEF Weighed
<1> QED
  BY <1>3, <1>4, <1>5

\* The squares of what a line leaves over.
LEMMA TotalOfSquares ==
  ASSUME NEW n \in Nat, NEW X \in [1..n -> Int], NEW Y \in [1..n -> Int], NEW p \in Int, NEW q \in Int
  PROVE  Total([k \in 1..n |-> (p * Y[k] - q * X[k]) * (p * Y[k] - q * X[k])], 1..n)
           = (p * p) * Total([k \in 1..n |-> Y[k] * Y[k]], 1..n)
               - 2 * (p * q) * Total([k \in 1..n |-> X[k] * Y[k]], 1..n)
               + (q * q) * Total([k \in 1..n |-> X[k] * X[k]], 1..n)
<1> DEFINE P == p * p
           M == -(2 * (p * q))
           R == q * q
           U == 1
           xx == [k \in 1..n |-> X[k] * X[k]]
           xy == [k \in 1..n |-> X[k] * Y[k]]
           yy == [k \in 1..n |-> Y[k] * Y[k]]
           h == [k \in 1..n |-> (p * Y[k] - q * X[k]) * (p * Y[k] - q * X[k])]
           g == [k \in 1..n |-> Weighed(P, yy[k], M, xy[k])]
<1>1. ASSUME NEW k \in 1..n
      PROVE  /\ xx[k] \in Int /\ xy[k] \in Int /\ yy[k] \in Int /\ g[k] \in Int
             /\ g[k] = Weighed(P, yy[k], M, xy[k])
             /\ h[k] = Weighed(U, g[k], R, xx[k])
  <2>1. X[k] \in Int /\ Y[k] \in Int
    OBVIOUS
  <2> DEFINE a == X[k]
             b == Y[k]
  <2>2. (p * b - q * a) * (p * b - q * a) = Weighed(U, Weighed(P, b * b, M, a * b), R, a * a)
    <3> HIDE DEF a, b
    <3>1. a \in Int /\ b \in Int
      BY <2>1 DEF a, b
    <3> QED
      BY <3>1 DEF Weighed
  <2>3. /\ xx[k] = X[k] * X[k] /\ xy[k] = X[k] * Y[k] /\ yy[k] = Y[k] * Y[k]
        /\ g[k] = Weighed(P, yy[k], M, xy[k])
        /\ h[k] = (p * Y[k] - q * X[k]) * (p * Y[k] - q * X[k])
    OBVIOUS
  <2>6. P \in Int /\ M \in Int /\ R \in Int /\ U \in Int
    OBVIOUS
  <2> HIDE DEF xx, xy, yy, g, h, P, M, R, U
  <2>4. xx[k] \in Int /\ xy[k] \in Int /\ yy[k] \in Int
    BY <2>1, <2>3
  <2>5. g[k] \in Int
    BY <2>3, <2>4, <2>6 DEF Weighed
  <2>7. h[k] = Weighed(U, g[k], R, xx[k])
    BY <2>2, <2>3 DEF a, b
  <2> QED
    BY <2>3, <2>4, <2>5, <2>7
<1>2. P \in Int /\ M \in Int /\ U \in Int /\ R \in Int
  OBVIOUS
<1> HIDE DEF xx, xy, yy, g, h, P, M, R, U
<1>3. /\ Total(g, 1..n) = Weighed(P, Total(yy, 1..n), M, Total(xy, 1..n))
      /\ Total(yy, 1..n) \in Int /\ Total(xy, 1..n) \in Int
  <2>1. \A k \in 1..n : yy[k] \in Int /\ xy[k] \in Int /\ g[k] = Weighed(P, yy[k], M, xy[k])
    BY <1>1
  <2> QED
    BY <1>2, <2>1, TotalCombines
<1>4. Total(h, 1..n) = Weighed(U, Total(g, 1..n), R, Total(xx, 1..n)) /\ Total(xx, 1..n) \in Int
  <2>1. \A k \in 1..n : g[k] \in Int /\ xx[k] \in Int /\ h[k] = Weighed(U, g[k], R, xx[k])
    BY <1>1
  <2>2. n \in Nat /\ U \in Int /\ R \in Int
    BY <1>2
  <2>3. /\ Total(h, 1..n) = Weighed(U, Total(g, 1..n), R, Total(xx, 1..n))
        /\ Total(g, 1..n) \in Int /\ Total(xx, 1..n) \in Int
    BY ONLY <2>1, <2>2, TotalCombines
  <2> QED
    BY <2>3
<1> DEFINE tx == Total(xx, 1..n)
           txy == Total(xy, 1..n)
           ty == Total(yy, 1..n)
<1>6. Total(h, 1..n) = (p * p) * ty - 2 * (p * q) * txy + (q * q) * tx
  <2>1. Total(h, 1..n) = Weighed(U, Weighed(P, ty, M, txy), R, tx) /\ tx \in Int /\ txy \in Int /\ ty \in Int
    BY <1>3, <1>4
  <2> HIDE DEF tx, txy, ty
  <2>2. Weighed(U, Weighed(P, ty, M, txy), R, tx) = (p * p) * ty - 2 * (p * q) * txy + (q * q) * tx
    BY <2>1 DEF Weighed, P, M, R, U
  <2> QED
    BY <2>1, <2>2
<1> QED
  BY <1>6 DEF xx, xy, yy, h

\* Those of the line of least squares, which are not negative.
LEMMA TotalLeftOver ==
  ASSUME NEW n \in Nat, NEW X \in [1..n -> Int], NEW Y \in [1..n -> Int]
  PROVE  LET xx == Total([k \in 1..n |-> X[k] * X[k]], 1..n)
             xy == Total([k \in 1..n |-> X[k] * Y[k]], 1..n)
             yy == Total([k \in 1..n |-> Y[k] * Y[k]], 1..n)
             left == Total([k \in 1..n |-> (xx * Y[k] - xy * X[k]) * (xx * Y[k] - xy * X[k])], 1..n)
         IN /\ xx \in Nat /\ yy \in Nat /\ xy \in Int
            /\ left = xx * (xx * yy - xy * xy)
            /\ xx # 0 => xy * xy <= xx * yy
<1> DEFINE fxx == [k \in 1..n |-> X[k] * X[k]]
           fyy == [k \in 1..n |-> Y[k] * Y[k]]
           fxy == [k \in 1..n |-> X[k] * Y[k]]
           xx == Total(fxx, 1..n)
           xy == Total(fxy, 1..n)
           yy == Total(fyy, 1..n)
           f == [k \in 1..n |-> (xx * Y[k] - xy * X[k]) * (xx * Y[k] - xy * X[k])]
           left == Total(f, 1..n)
<1>1. IsFiniteSet(1..n)
  BY FS_Interval
<1>2. \A k \in 1..n : fxx[k] \in Nat /\ fyy[k] \in Nat /\ fxy[k] \in Int
  <2>1. ASSUME NEW k \in 1..n PROVE X[k] * X[k] \in Nat /\ Y[k] * Y[k] \in Nat /\ X[k] * Y[k] \in Int
    <3>1. X[k] \in Int /\ Y[k] \in Int
      OBVIOUS
    <3> QED
      BY <3>1, SquareIsNat
  <2> QED
    BY <2>1
<1>3. xx \in Nat /\ yy \in Nat /\ xy \in Int
  <2> HIDE DEF fxx, fyy, fxy
  <2> QED
    BY <1>1, <1>2, SumIsNat, SumIsInt
<1>4. left = (xx * xx) * yy - 2 * (xx * xy) * xy + (xy * xy) * xx
  <2>1. xx \in Int /\ xy \in Int
    BY <1>3
  <2> HIDE DEF xx, xy
  <2>2. Total([k \in 1..n |-> (xx * Y[k] - xy * X[k]) * (xx * Y[k] - xy * X[k])], 1..n)
           = (xx * xx) * Total([k \in 1..n |-> Y[k] * Y[k]], 1..n)
               - 2 * (xx * xy) * Total([k \in 1..n |-> X[k] * Y[k]], 1..n)
               + (xy * xy) * Total([k \in 1..n |-> X[k] * X[k]], 1..n)
    BY <2>1, TotalOfSquares
  <2> QED
    BY <2>2 DEF xx, xy
<1>5. left \in Nat
  <2>1. ASSUME NEW k \in 1..n PROVE f[k] \in Nat
    <3> DEFINE r == xx * Y[k] - xy * X[k]
    <3>1. X[k] \in Int /\ Y[k] \in Int
      OBVIOUS
    <3>2. f[k] = r * r
      OBVIOUS
    <3> HIDE DEF xx, xy, f
    <3>3. r \in Int
      BY <1>3, <3>1
    <3> HIDE DEF r
    <3> QED
      BY <3>2, <3>3, SquareIsNat
  <2> HIDE DEF f
  <2> QED
    BY <1>1, <2>1, SumIsNat
<1> HIDE DEF xx, xy, yy, left
<1>6. left = xx * (xx * yy - xy * xy)
  <2>1. ASSUME NEW a \in Int, NEW b \in Int, NEW c \in Int
        PROVE  (a * a) * c - 2 * (a * b) * b + (b * b) * a = a * (a * c - b * b)
    OBVIOUS
  <2>2. xx \in Int /\ yy \in Int
    BY <1>3
  <2> QED
    BY <1>3, <1>4, <2>1, <2>2
<1>7. xx # 0 => xy * xy <= xx * yy
  <2> SUFFICES ASSUME xx # 0, ~ (xy * xy <= xx * yy) PROVE FALSE
    OBVIOUS
  <2> DEFINE m == xy * xy - xx * yy
  <2>1. m \in Nat \ {0} /\ xx \in Nat \ {0}
    BY <1>3
  <2>2. left = -(xx * m)
    <3>1. ASSUME NEW a \in Int, NEW b \in Int, NEW c \in Int
          PROVE  a * (a * c - b * b) = -(a * (b * b - a * c))
      OBVIOUS
    <3>2. xx \in Int /\ yy \in Int
      BY <1>3
    <3> QED
      BY <1>3, <1>6, <3>1, <3>2
  <2> HIDE DEF m
  <2>3. xx * m \in Nat \ {0}
    BY <2>1, ProductIsPositive
  <2> QED
    BY <1>5, <2>2, <2>3
<1> QED
  BY <1>3, <1>6, <1>7 DEF xx, xy, yy, left
-----------------------------------------------------------------------------
(* What one paid later is worth, over one denominator.                     *)

\* V[k] / M is what one is worth k periods earlier, at a growth of a / e a period.
Discounts(V, n, M, a, e) ==
  /\ V \in [1..n -> Nat \ {0}] /\ n \in Nat /\ M \in Nat \ {0}
  /\ a \in Nat \ {0} /\ e \in Nat \ {0}
  /\ \A k \in 1..n : a * V[k] = e * (IF k = 1 THEN M ELSE V[k - 1])

\* The change of a price against the line of its duration and the curve of its
\* convexity, of one paid after k periods.
OverLine(a, b, k, v, w) == a * w - a * v + (b - a) * (k * v)
OverCurve(a, b, k, v, w) ==
  2 * (a * OverLine(a, b, k, v, w)) - ((b - a) * (b - a)) * ((k * (k + 1)) * v)

LEMMA LineStep ==
  ASSUME NEW a \in Int, NEW b \in Int, NEW e \in Int, NEW k \in Int,
         NEW v \in Int, NEW w \in Int, NEW x \in Int, NEW y \in Int,
         a * x = e * v, b * y = e * w
  PROVE  b * OverLine(a, b, k + 1, x, y)
           = e * OverLine(a, b, k, v, w) + (k + 1) * (((b - a) * (b - a)) * x)
<1> DEFINE p == b * y
           q == a * x
<1>1. p \in Int /\ q \in Int /\ p = e * w /\ q = e * v
  OBVIOUS
<1>2. b * OverLine(a, b, k + 1, x, y) = a * p - b * q + (b - a) * ((k + 1) * (b * x))
  BY DEF OverLine
<1>3. e * OverLine(a, b, k, v, w) = a * (e * w) - a * (e * v) + (b - a) * (k * (e * v))
  BY DEF OverLine
<1>4. e * OverLine(a, b, k, v, w) = a * p - a * q + (b - a) * (k * q)
  <2> HIDE DEF p, q
  <2> QED
    BY <1>1, <1>3
<1>5. a * p - b * q + (b - a) * ((k + 1) * (b * x))
        = a * p - a * q + (b - a) * (k * q) + (k + 1) * (((b - a) * (b - a)) * x)
  <2>1. (b - a) * ((k + 1) * (b * x)) - (b - a) * q
          = (b - a) * (k * q) + (k + 1) * (((b - a) * (b - a)) * x)
    OBVIOUS
  <2> HIDE DEF p
  <2>2. b * q = a * q + (b - a) * q
    BY <1>1
  <2>3. /\ a * p \in Int /\ a * q \in Int /\ b * q \in Int /\ (b - a) * q \in Int
        /\ (b - a) * ((k + 1) * (b * x)) \in Int /\ (b - a) * (k * q) \in Int
        /\ (k + 1) * (((b - a) * (b - a)) * x) \in Int
    BY <1>1
  <2> QED
    BY <2>1, <2>2, <2>3
<1> QED
  BY <1>2, <1>4, <1>5

LEMMA CurveStep ==
  ASSUME NEW a \in Int, NEW b \in Int, NEW e \in Int, NEW k \in Int,
         NEW v \in Int, NEW w \in Int, NEW x \in Int, NEW y \in Int,
         a * x = e * v, b * y = e * w
  PROVE  b * OverCurve(a, b, k + 1, x, y)
           = e * OverCurve(a, b, k, v, w)
               - ((k + 1) * (k + 2)) * (((b - a) * (b - a)) * ((b - a) * x))
<1> DEFINE l == OverLine(a, b, k, v, w)
           m == OverLine(a, b, k + 1, x, y)
           c == b - a
           q == a * x
<1>1. l \in Int /\ m \in Int /\ c \in Int /\ q \in Int /\ b = a + c
  BY DEF OverLine
<1>2. b * m = e * l + (k + 1) * ((c * c) * x)
  BY LineStep
<1>3. b * OverCurve(a, b, k + 1, x, y) = 2 * (a * (b * m)) - (c * c) * (((k + 1) * (k + 2)) * (b * x))
  <2>1. OverCurve(a, b, k + 1, x, y) = 2 * (a * m) - (c * c) * (((k + 1) * (k + 2)) * x)
    BY DEF OverCurve
  <2> HIDE DEF m, c
  <2> QED
    BY <1>1, <2>1
<1>4. e * OverCurve(a, b, k, v, w) = 2 * (a * (e * l)) - (c * c) * ((k * (k + 1)) * q)
  <2>1. OverCurve(a, b, k, v, w) = 2 * (a * l) - (c * c) * ((k * (k + 1)) * v)
    BY DEF OverCurve
  <2>2. q = e * v
    OBVIOUS
  <2> HIDE DEF l, c, q
  <2>3. e * (2 * (a * l) - (c * c) * ((k * (k + 1)) * v)) = 2 * (a * (e * l)) - (c * c) * ((k * (k + 1)) * (e * v))
    BY <1>1
  <2> QED
    BY <1>1, <2>1, <2>2, <2>3
<1>5. 2 * (a * (b * m)) = 2 * (a * (e * l)) + 2 * ((k + 1) * ((c * c) * q))
  <2>1. q = a * x
    OBVIOUS
  <2> HIDE DEF l, m, c, q
  <2>2. 2 * (a * (e * l + (k + 1) * ((c * c) * x))) = 2 * (a * (e * l)) + 2 * ((k + 1) * ((c * c) * (a * x)))
    BY <1>1
  <2> QED
    BY <1>1, <1>2, <2>1, <2>2
<1>6. 2 * ((k + 1) * ((c * c) * q)) - (c * c) * (((k + 1) * (k + 2)) * (b * x))
        = -((c * c) * ((k * (k + 1)) * q)) - ((k + 1) * (k + 2)) * ((c * c) * (c * x))
  <2>1. b * x = q + c * x
    OBVIOUS
  <2> DEFINE z == c * x
             s == c * c
  <2>2. z \in Int /\ s \in Int
    BY <1>1
  <2> HIDE DEF c, q, z, s
  <2>3. 2 * ((k + 1) * (s * q)) - s * (((k + 1) * (k + 2)) * (q + z))
          = -(s * ((k * (k + 1)) * q)) - ((k + 1) * (k + 2)) * (s * z)
    BY <1>1, <2>2
  <2> QED
    BY <2>1, <2>3 DEF z, s
<1> HIDE DEF l, m, c, q
<1>7. /\ 2 * (a * (e * l)) \in Int /\ 2 * ((k + 1) * ((c * c) * q)) \in Int
      /\ (c * c) * (((k + 1) * (k + 2)) * (b * x)) \in Int /\ (c * c) * ((k * (k + 1)) * q) \in Int
      /\ ((k + 1) * (k + 2)) * ((c * c) * (c * x)) \in Int
  BY <1>1
<1>8. b * OverCurve(a, b, k + 1, x, y)
        = e * OverCurve(a, b, k, v, w) - ((k + 1) * (k + 2)) * ((c * c) * (c * x))
  <2> DEFINE t1 == 2 * (a * (e * l))
             t2 == 2 * ((k + 1) * ((c * c) * q))
             t3 == (c * c) * (((k + 1) * (k + 2)) * (b * x))
             t4 == (c * c) * ((k * (k + 1)) * q)
             t5 == ((k + 1) * (k + 2)) * ((c * c) * (c * x))
             L == b * OverCurve(a, b, k + 1, x, y)
             R == e * OverCurve(a, b, k, v, w)
             lm == 2 * (a * (b * m))
  <2>1. /\ L = lm - t3 /\ R = t1 - t4 /\ lm = t1 + t2 /\ t2 - t3 = -t4 - t5
    BY <1>3, <1>4, <1>5, <1>6
  <2>2. t1 \in Int /\ t2 \in Int /\ t3 \in Int /\ t4 \in Int /\ t5 \in Int
    BY <1>7
  <2> HIDE DEF t1, t2, t3, t4, t5, L, R, lm
  <2>3. L = R - t5
    BY <2>1, <2>2
  <2> QED
    BY <2>3 DEF L, R, t5
<1> QED
  BY <1>8 DEF c

LEMMA FactorKeepsSign ==
  ASSUME NEW b \in Nat \ {0}, NEW m \in Int
  PROVE  /\ b * m \in Int
         /\ b * m >= 0 <=> m >= 0
         /\ b * m <= 0 <=> m <= 0
         /\ b * m > 0 <=> m > 0
         /\ b * m = 0 <=> m = 0
<1>1. CASE m > 0
  <2>1. b * m \in Nat \ {0}
    BY <1>1, ProductIsPositive
  <2> QED
    BY <1>1, <2>1
<1>2. CASE m = 0
  BY <1>2
<1>3. CASE m < 0
  <2> DEFINE j == -m
  <2>1. j \in Nat \ {0} /\ m = -j
    BY <1>3
  <2> HIDE DEF j
  <2>2. b * j \in Nat \ {0}
    BY <2>1, ProductIsPositive
  <2>3. b * m = -(b * j)
    BY <2>1
  <2> QED
    BY <1>3, <2>2, <2>3
<1> QED
  BY <1>1, <1>2, <1>3

\* The term before, and what it has to do with the next.
LEMMA DiscountStep ==
  ASSUME NEW V, NEW n, NEW M, NEW a, NEW e, Discounts(V, n, M, a, e), NEW k \in 1..n
  PROVE  /\ V[k] \in Nat \ {0} /\ a \in Nat \ {0} /\ e \in Nat \ {0} /\ M \in Nat \ {0} /\ n \in Nat
         /\ k = 1 => a * V[k] = e * M
         /\ k # 1 => k - 1 \in 1..n /\ V[k - 1] \in Nat \ {0} /\ a * V[k] = e * V[k - 1]
BY DEF Discounts

\* The price of what is paid once is above the line, and below the curve where
\* the yield rises, above it where the yield falls.
LEMMA MovesOfOne ==
  ASSUME NEW V, NEW W, NEW n, NEW M, NEW a, NEW b, NEW e,
         Discounts(V, n, M, a, e), Discounts(W, n, M, b, e)
  PROVE  \A k \in 1..n :
           /\ OverLine(a, b, k, V[k], W[k]) \in Nat
           /\ OverCurve(a, b, k, V[k], W[k]) \in Int
           /\ a <= b => OverCurve(a, b, k, V[k], W[k]) <= 0
           /\ b <= a => OverCurve(a, b, k, V[k], W[k]) >= 0
<1> DEFINE Right(k, v, w) == /\ OverLine(a, b, k, v, w) \in Nat
                             /\ OverCurve(a, b, k, v, w) \in Int
                             /\ a <= b => OverCurve(a, b, k, v, w) <= 0
                             /\ b <= a => OverCurve(a, b, k, v, w) >= 0
           B == {k \in 1..n : ~ Right(k, V[k], W[k])}
<1>1. a \in Nat \ {0} /\ b \in Nat \ {0} /\ e \in Nat \ {0} /\ M \in Nat \ {0} /\ n \in Nat
  BY DEF Discounts
<1>2. ASSUME NEW k \in Nat, NEW v \in Int, NEW w \in Int, NEW x \in Nat \ {0}, NEW y \in Nat \ {0},
             a * x = e * v, b * y = e * w, Right(k, v, w)
      PROVE  Right(k + 1, x, y)
  <2> DEFINE l == OverLine(a, b, k, v, w)
             l1 == OverLine(a, b, k + 1, x, y)
             c == OverCurve(a, b, k, v, w)
             c1 == OverCurve(a, b, k + 1, x, y)
             d == b - a
             s == (d * d) * x
             t == (d * d) * (d * x)
             j == (k + 1) * (k + 2)
  <2>1. /\ l \in Nat /\ l1 \in Int /\ c \in Int /\ c1 \in Int /\ d \in Int
        /\ a <= b => c <= 0
        /\ b <= a => c >= 0
    <3>1. l1 \in Int
      BY <1>1 DEF OverLine
    <3>2. c1 \in Int
      <4> HIDE DEF l1
      <4>1. c1 = 2 * (a * l1) - ((b - a) * (b - a)) * (((k + 1) * ((k + 1) + 1)) * x)
        BY DEF OverCurve, l1
      <4> QED
        BY <1>1, <3>1, <4>1
    <3> QED
      BY <1>1, <1>2, <3>1, <3>2
  <2>2. b * l1 = e * l + (k + 1) * s
    <3>1. k \in Int /\ x \in Int /\ y \in Int /\ a \in Int /\ b \in Int /\ e \in Int
      BY <1>1
    <3> QED
      BY <1>2, <3>1, LineStep
  <2>3. b * c1 = e * c - j * t
    <3>1. k \in Int /\ x \in Int /\ y \in Int /\ a \in Int /\ b \in Int /\ e \in Int
      BY <1>1
    <3> QED
      BY <1>2, <3>1, CurveStep
  <2>4. s \in Nat /\ t = d * s /\ t \in Int /\ j \in Nat \ {0}
    <3>1. d * d \in Nat
      BY <2>1, SquareIsNat
    <3> HIDE DEF d
    <3>2. s \in Nat
      BY <3>1, ProductIsNat
    <3>3. t = d * s
      BY <2>1
    <3>4. j \in Nat \ {0}
      BY ProductIsPositive
    <3> HIDE DEF s, t
    <3> QED
      BY <2>1, <3>2, <3>3, <3>4
  <2>5. a <= b => t >= 0
    <3> SUFFICES ASSUME a <= b PROVE t >= 0
      OBVIOUS
    <3>1. d \in Nat
      BY <1>1, <2>1
    <3> HIDE DEF d, s, t
    <3> QED
      BY <2>4, <3>1, ProductIsNat
  <2>6. b <= a => t <= 0
    <3> SUFFICES ASSUME b <= a PROVE t <= 0
      OBVIOUS
    <3> DEFINE f == -d
    <3>1. f \in Nat /\ d = -f
      BY <1>1, <2>1
    <3> HIDE DEF d, s, t, f
    <3>2. f * s \in Nat
      BY <2>4, <3>1, ProductIsNat
    <3>3. t = -(f * s)
      BY <2>4, <3>1
    <3> QED
      BY <3>2, <3>3
  <2>7. l1 \in Nat
    <3> HIDE DEF l, l1, s
    <3>1. e * l \in Nat /\ (k + 1) * s \in Nat
      <4>1. e \in Nat /\ k + 1 \in Nat
        BY <1>1
      <4> QED
        BY <2>1, <2>4, <4>1, ProductIsNat
    <3>2. b * l1 >= 0
      BY <2>2, <3>1
    <3> QED
      BY <1>1, <2>1, <3>2, FactorKeepsSign
  <2>8. a <= b => c1 <= 0
    <3> SUFFICES ASSUME a <= b PROVE c1 <= 0
      OBVIOUS
    <3> HIDE DEF c, c1, t, j
    <3>1. e * c <= 0 /\ j * t >= 0 /\ e * c \in Int /\ j * t \in Int
      BY <1>1, <2>1, <2>4, <2>5, FactorKeepsSign
    <3>2. b * c1 <= 0
      BY <2>3, <3>1
    <3> QED
      BY <1>1, <2>1, <3>2, FactorKeepsSign
  <2>9. b <= a => c1 >= 0
    <3> SUFFICES ASSUME b <= a PROVE c1 >= 0
      OBVIOUS
    <3> HIDE DEF c, c1, t, j
    <3>1. e * c >= 0 /\ j * t <= 0 /\ e * c \in Int /\ j * t \in Int
      BY <1>1, <2>1, <2>4, <2>6, FactorKeepsSign
    <3>2. b * c1 >= 0
      BY <2>3, <3>1
    <3> QED
      BY <1>1, <2>1, <3>2, FactorKeepsSign
  <2> QED
    BY <2>1, <2>7, <2>8, <2>9
<1>3. Right(0, M, M)
  <2>1. OverLine(a, b, 0, M, M) = 0
    BY <1>1 DEF OverLine
  <2>2. OverCurve(a, b, 0, M, M) = 0
    <3>1. OverCurve(a, b, 0, M, M) = 2 * (a * 0) - ((b - a) * (b - a)) * ((0 * (0 + 1)) * M)
      BY <2>1 DEF OverCurve
    <3> QED
      BY <1>1, <3>1
  <2> QED
    BY <2>1, <2>2
<1> HIDE DEF Right
<1>4. ASSUME B # {} PROVE FALSE
  <2>1. B \in SUBSET Nat
    OBVIOUS
  <2>2. PICK k \in B : \A j \in B : k <= j
    <3> HIDE DEF B
    <3> QED
      BY <1>4, <2>1, SmallestNat
  <2>3. k \in 1..n /\ ~ Right(k, V[k], W[k])
    OBVIOUS
  <2>4. CASE k = 1
    <3>1. a * V[k] = e * M /\ b * W[k] = e * M /\ V[k] \in Nat \ {0} /\ W[k] \in Nat \ {0}
      BY <2>3, <2>4, DiscountStep
    <3>2. Right(0 + 1, V[k], W[k])
      BY <1>1, <1>2, <1>3, <3>1
    <3> QED
      BY <2>3, <2>4, <3>2
  <2>5. CASE k # 1
    <3>1. /\ a * V[k] = e * V[k - 1] /\ V[k] \in Nat \ {0} /\ V[k - 1] \in Nat \ {0} /\ k - 1 \in 1..n
      BY <2>3, <2>5, DiscountStep
    <3>2. /\ b * W[k] = e * W[k - 1] /\ W[k] \in Nat \ {0} /\ W[k - 1] \in Nat \ {0}
      BY <2>3, <2>5, DiscountStep
    <3>3. k - 1 \notin B
      <4> HIDE DEF B
      <4> QED
        BY <2>2, <2>3, <3>1
    <3>4. Right(k - 1, V[k - 1], W[k - 1])
      BY <3>1, <3>3
    <3>5. Right((k - 1) + 1, V[k], W[k])
      BY <1>2, <3>1, <3>2, <3>4
    <3> QED
      BY <2>3, <3>5
  <2> QED
    BY <2>4, <2>5
<1> QED
  BY <1>4 DEF Right

\* What a growth of a / e earns on what is paid at every period is what the one
\* paid last is short of one.
LEMMA AnnuityIs ==
  ASSUME NEW V, NEW n, NEW M, NEW a, NEW e, Discounts(V, n, M, a, e)
  PROVE  \A k \in 1..n : /\ (a - e) * Total(V, 1..k) = e * (M - V[k])
                         /\ Total(V, 1..k) \in Nat \ {0}
<1> DEFINE Right(k) == /\ (a - e) * Total(V, 1..k) = e * (M - V[k])
                       /\ Total(V, 1..k) \in Nat \ {0}
           B == {k \in 1..n : ~ Right(k)}
<1>1. a \in Nat \ {0} /\ e \in Nat \ {0} /\ M \in Nat \ {0} /\ n \in Nat
  BY DEF Discounts
<1>2. ASSUME NEW k \in 1..n
      PROVE  /\ Total(V, 1..k) = Total(V, 1..(k - 1)) + V[k]
             /\ Total(V, 1..(k - 1)) \in Int /\ V[k] \in Nat \ {0}
  <2>1. \A j \in 1..k : V[j] \in Int
    BY <1>1 DEF Discounts
  <2>2. k \in Nat \ {0}
    BY <1>1
  <2>3. V[k] \in Nat \ {0}
    BY DEF Discounts
  <2> QED
    BY <2>1, <2>2, <2>3, TotalNext
<1>3. ASSUME B # {} PROVE FALSE
  <2>1. B \in SUBSET Nat
    BY <1>1
  <2>2. PICK k \in B : \A j \in B : k <= j
    <3> HIDE DEF B
    <3> QED
      BY <1>3, <2>1, SmallestNat
  <2>3. k \in 1..n /\ ~ Right(k)
    OBVIOUS
  <2> DEFINE A == Total(V, 1..(k - 1))
             v == V[k]
  <2>4. A \in Int /\ v \in Nat \ {0} /\ Total(V, 1..k) = A + v
    BY <1>2, <2>3
  <2>5. CASE k = 1
    <3>1. a * v = e * M
      BY <2>3, <2>5, DiscountStep
    <3>2. A = 0
      <4>1. k - 1 = 0
        BY <2>5
      <4> QED
        BY <4>1, TotalOfNone
    <3> HIDE DEF A, v
    <3>3. (a - e) * (A + v) = a * v - e * v /\ e * (M - v) = e * M - e * v
      BY <1>1, <2>4, <3>2
    <3>4. A + v \in Nat \ {0}
      BY <2>4, <3>2
    <3> QED
      BY <2>3, <2>4, <3>1, <3>3, <3>4 DEF v
  <2>6. CASE k # 1
    <3> DEFINE x == V[k - 1]
    <3>1. a * v = e * x /\ x \in Nat \ {0} /\ k - 1 \in 1..n
      BY <2>3, <2>6, DiscountStep
    <3>2. k - 1 \notin B
      <4> HIDE DEF B
      <4> QED
        BY <2>2, <2>3, <3>1
    <3>3. (a - e) * A = e * (M - x) /\ A \in Nat \ {0}
      BY <3>1, <3>2
    <3> HIDE DEF A, v, x
    <3>4. (a - e) * (A + v) = (a - e) * A + a * v - e * v
      BY <1>1, <2>4
    <3>5. e * (M - x) + e * x - e * v = e * (M - v)
      BY <1>1, <2>4, <3>1
    <3>6. A + v \in Nat \ {0}
      BY <2>4, <3>3
    <3>7. (a - e) * (A + v) = e * (M - v)
      BY <1>1, <2>4, <3>1, <3>3, <3>4, <3>5
    <3> QED
      BY <2>3, <2>4, <3>6, <3>7 DEF v
  <2> QED
    BY <2>5, <2>6
<1> QED
  BY <1>3

\* m / g is paid at every period and one more at the last: the value of that,
\* and what it is worth weighed by the period, and by the period and the next.
PricedAt(V, n, m, g) == m * Total(V, 1..n) + g * V[n]
TimedAt(V, n, m, g) == m * Total([k \in 1..n |-> k * V[k]], 1..n) + g * (n * V[n])
BentAt(V, n, m, g) ==
  m * Total([k \in 1..n |-> (k * (k + 1)) * V[k]], 1..n) + g * ((n * (n + 1)) * V[n])

LEMMA FlowSplits ==
  ASSUME NEW n \in Nat \ {0}, NEW m \in Int, NEW g \in Int, NEW f, NEW c,
         \A k \in 1..n : f[k] \in Int /\ (k # n => c[k] = m * f[k]),
         c[n] = m * f[n] + g * f[n]
  PROVE  Total(c, 1..n) = m * Total(f, 1..n) + g * f[n]
<1> DEFINE h == [k \in 1..n |-> m * f[k]]
           S == 1..n
           last == n
<1>1. IsFiniteSet(S) /\ last \in S /\ f[n] \in Int
  <2>1. IsFiniteSet(S)
    BY FS_Interval
  <2>2. last \in S
    OBVIOUS
  <2> QED
    BY <2>1, <2>2
<1>2. \A k \in S : f[k] \in Int /\ h[k] = m * f[k]
  OBVIOUS
<1>3. \A k \in S : h[k] \in Int /\ c[k] \in Int /\ (k # last => h[k] = c[k])
  <2> SUFFICES ASSUME NEW k \in S
               PROVE  h[k] \in Int /\ c[k] \in Int /\ (k # last => h[k] = c[k])
    OBVIOUS
  <2>1. f[k] \in Int /\ h[k] = m * f[k] /\ h[k] \in Int
    BY <1>2
  <2>2. CASE k = n
    <3>1. c[k] = m * f[k] + g * f[k]
      BY <2>2
    <3> QED
      BY <2>1, <2>2, <3>1
  <2>3. CASE k # n
    <3>1. c[k] = m * f[k]
      BY <2>3
    <3> QED
      BY <2>1, <3>1
  <2> QED
    BY <2>2, <2>3
<1>4. m \in Int /\ h[last] = m * f[n] /\ c[last] = m * f[n] + g * f[n]
  BY <1>1, <1>2
<1>5. \A k \in S : f[k] \in Int
  OBVIOUS
<1> HIDE DEF h, S, last
<1>6. Total(h, S) = m * Total(f, S)
  BY ONLY <1>1, <1>2, <1>4, SumTimes
<1>7. Total(f, S) \in Int
  BY ONLY <1>1, <1>5, SumIsInt
<1>8. Total(c, S) = Total(h, S) - h[last] + c[last]
  BY <1>1, <1>3, SumMoves
<1>9. Total(c, S) = m * Total(f, S) + g * f[n]
  <2> DEFINE x == m * Total(f, S)
             y == m * f[n]
             z == g * f[n]
  <2>1. x \in Int /\ y \in Int /\ z \in Int /\ Total(c, S) = x - y + (y + z)
    BY <1>1, <1>4, <1>6, <1>7, <1>8
  <2> HIDE DEF x, y, z
  <2>2. Total(c, S) = x + z
    BY ONLY <2>1
  <2> QED
    BY <2>2 DEF x, z
<1> QED
  BY <1>9 DEF S

\* What the prices of a bond and its measures have to do with each other.
LEMMA PricedIs ==
  ASSUME NEW V, NEW n \in Nat \ {0}, NEW M, NEW a, NEW e, Discounts(V, n, M, a, e),
         NEW m \in Nat, NEW g \in Nat \ {0}
  PROVE  LET p == PricedAt(V, n, m, g)
         IN /\ p \in Nat \ {0}
            /\ \E A \in Nat \ {0} : e * (p - g * M) = (m * e - (a - e) * g) * A
            /\ (a - e) * p - (m * M) * e = ((a - e) * g - m * e) * V[n]
<1> DEFINE A == Total(V, 1..n)
           v == V[n]
           p == m * A + g * v
<1>1. a \in Nat \ {0} /\ e \in Nat \ {0} /\ M \in Nat \ {0} /\ n \in 1..n
  BY DEF Discounts
<1>2. (a - e) * A = e * (M - v) /\ A \in Nat \ {0} /\ v \in Nat \ {0}
  <2>1. v \in Nat \ {0}
    BY <1>1, DiscountStep
  <2> QED
    BY <1>1, <2>1, AnnuityIs
<1> HIDE DEF A, v
<1>3. p \in Nat \ {0}
  <2>1. m * A \in Nat /\ g * v \in Nat \ {0}
    BY <1>2, ProductIsNat, ProductIsPositive
  <2> QED
    BY <2>1
<1>4. e * (p - g * M) = (m * e - (a - e) * g) * A
  <2>1. e * (p - g * M) = (m * e) * A - g * (e * (M - v))
    BY <1>1, <1>2
  <2>2. (m * e - (a - e) * g) * A = (m * e) * A - g * ((a - e) * A)
    BY <1>1, <1>2
  <2> QED
    BY <1>2, <2>1, <2>2
<1>5. (a - e) * p - (m * M) * e = ((a - e) * g - m * e) * v
  <2>1. (a - e) * p = m * ((a - e) * A) + (a - e) * (g * v)
    BY <1>1, <1>2
  <2>2. m * ((a - e) * A) = m * (e * (M - v))
    BY <1>2
  <2>3. m * (e * (M - v)) + (a - e) * (g * v) - (m * M) * e = ((a - e) * g - m * e) * v
    BY <1>1, <1>2
  <2> DEFINE x == m * (e * (M - v))
             y == (a - e) * (g * v)
             z == (m * M) * e
             t == (a - e) * p
  <2>4. x \in Int /\ y \in Int /\ z \in Int
    BY <1>1, <1>2
  <2>5. t = x + y /\ x + y - z = ((a - e) * g - m * e) * v
    BY <2>1, <2>2, <2>3
  <2> HIDE DEF x, y, z, t
  <2>6. t - z = ((a - e) * g - m * e) * v
    BY <2>4, <2>5
  <2> QED
    BY <2>6 DEF t, z
<1>6. p = PricedAt(V, n, m, g)
  BY DEF PricedAt, A, v
<1> HIDE DEF p
<1> QED
  BY <1>2, <1>3, <1>4, <1>5, <1>6 DEF v

\* A year later: of a bond that pays every year.
LEMMA PricedLater ==
  ASSUME NEW V, NEW n \in Nat \ {0, 1}, NEW M, NEW a, NEW e, Discounts(V, n, M, a, e),
         NEW m \in Nat, NEW g \in Nat \ {0}
  PROVE  /\ a * PricedAt(V, n, m, g) = e * PricedAt(V, n - 1, m, g) + e * (m * M)
         /\ PricedAt(V, n - 1, m, g) \in Int
<1> DEFINE A == Total(V, 1..(n - 1))
           v == V[n]
           x == V[n - 1]
<1>1. a \in Nat \ {0} /\ e \in Nat \ {0} /\ M \in Nat \ {0} /\ n \in 1..n /\ n # 1
  BY DEF Discounts
<1>2. v \in Nat \ {0} /\ x \in Nat \ {0} /\ a * v = e * x /\ n - 1 \in 1..n
  BY <1>1, DiscountStep
<1>3. (a - e) * A = e * (M - x) /\ A \in Nat \ {0}
  BY <1>2, AnnuityIs
<1>4. Total(V, 1..n) = A + v
  <2>1. \A j \in 1..n : V[j] \in Int
    BY DEF Discounts
  <2>2. n \in Nat \ {0}
    OBVIOUS
  <2> QED
    BY <2>1, <2>2, TotalNext
<1> HIDE DEF A, v, x
<1>5. a * (m * (A + v) + g * v) = e * (m * A + g * x) + e * (m * M)
  <2>1. a * (m * (A + v) + g * v) = m * ((a - e) * A) + m * (e * A) + (m + g) * (a * v)
    BY <1>1, <1>2, <1>3
  <2>2. m * ((a - e) * A) = m * (e * (M - x)) /\ (m + g) * (a * v) = (m + g) * (e * x)
    BY <1>2, <1>3
  <2>3. m * (e * (M - x)) + m * (e * A) + (m + g) * (e * x) = e * (m * A + g * x) + e * (m * M)
    BY <1>1, <1>2, <1>3
  <2> QED
    BY <2>1, <2>2, <2>3
<1>6. PricedAt(V, n, m, g) = m * (A + v) + g * v /\ PricedAt(V, n - 1, m, g) = m * A + g * x
  BY <1>4 DEF PricedAt, A, v, x
<1> QED
  BY <1>2, <1>3, <1>5, <1>6

\* No payment is later than the last.
LEMMA TimedIs ==
  ASSUME NEW V, NEW n \in Nat \ {0}, NEW M, NEW a, NEW e, Discounts(V, n, M, a, e),
         NEW m \in Nat, NEW g \in Nat \ {0}
  PROVE  LET p == PricedAt(V, n, m, g)
             w == TimedAt(V, n, m, g)
         IN /\ w \in Nat \ {0} /\ w <= n * p /\ n * p \in Int
            /\ w = n * p <=> m = 0 \/ n = 1
<1> DEFINE f == [k \in 1..n |-> k * V[k]]
           h == [k \in 1..n |-> (n - k) * V[k]]
           A == Total(V, 1..n)
           F == Total(f, 1..n)
           H == Total(h, 1..n)
           v == V[n]
<1>1. \A k \in 1..n : /\ V[k] \in Nat \ {0} /\ f[k] = k * V[k] /\ h[k] = (n - k) * V[k]
                      /\ f[k] \in Nat \ {0} /\ h[k] \in Nat /\ (k < n => h[k] # 0)
                      /\ h[k] = Weighed(n, V[k], -1, f[k])
  <2> SUFFICES ASSUME NEW k \in 1..n
               PROVE  /\ V[k] \in Nat \ {0} /\ f[k] = k * V[k] /\ h[k] = (n - k) * V[k]
                      /\ f[k] \in Nat \ {0} /\ h[k] \in Nat /\ (k < n => h[k] # 0)
                      /\ h[k] = Weighed(n, V[k], -1, f[k])
    OBVIOUS
  <2>1. V[k] \in Nat \ {0}
    BY DiscountStep
  <2>2. k * V[k] \in Nat \ {0} /\ (n - k) * V[k] \in Nat
    <3>1. k \in Nat \ {0} /\ n - k \in Nat
      OBVIOUS
    <3> QED
      BY <2>1, <3>1, ProductIsNat, ProductIsPositive
  <2>3. k < n => (n - k) * V[k] # 0
    <3> SUFFICES ASSUME k < n PROVE (n - k) * V[k] # 0
      OBVIOUS
    <3>1. n - k \in Nat \ {0}
      OBVIOUS
    <3> QED
      BY <2>1, <3>1, ProductIsPositive
  <2>4. (n - k) * V[k] = n * V[k] + (-1) * (k * V[k])
    BY <2>1
  <2> QED
    BY <2>1, <2>2, <2>3, <2>4 DEF Weighed
<1>2. IsFiniteSet(1..n) /\ n \in 1..n /\ v \in Nat \ {0}
  <2>1. n \in 1..n
    OBVIOUS
  <2>2. IsFiniteSet(1..n)
    BY FS_Interval
  <2> QED
    BY <1>1, <2>1, <2>2
<1> HIDE DEF f, h, A, F, H, v
<1>3. H = n * A - F /\ A \in Int /\ F \in Int
  <2> DEFINE p == n
             q == -1
  <2>1. \A k \in 1..n : V[k] \in Int /\ f[k] \in Int /\ h[k] = Weighed(p, V[k], q, f[k])
    BY <1>1
  <2>2. p \in Int /\ q \in Int /\ n \in Nat
    OBVIOUS
  <2> HIDE DEF p, q
  <2>3. /\ Total(h, 1..n) = Weighed(p, Total(V, 1..n), q, Total(f, 1..n))
        /\ Total(V, 1..n) \in Int /\ Total(f, 1..n) \in Int
    BY ONLY <2>1, <2>2, TotalCombines
  <2> QED
    BY <2>3 DEF H, A, F, Weighed, p, q
<1>4. H \in Nat /\ F \in Nat
  BY <1>1, <1>2, SumIsNat DEF H, F
<1>5. H = 0 <=> n = 1
  <2>1. CASE n = 1
    <3>1. 1 \in Nat \ {0} /\ \A j \in 1..1 : h[j] \in Int
      BY <1>1, <2>1
    <3> DEFINE one == 1
    <3>2. one \in Nat \ {0} /\ \A j \in 1..one : h[j] \in Int
      BY <3>1
    <3> HIDE DEF one, h
    <3>5. Total(h, 1..one) = Total(h, 1..(one - 1)) + h[one]
      BY ONLY <3>2, TotalNext
    <3>3. Total(h, 1..(one - 1)) = 0
      <4>1. one - 1 = 0
        BY DEF one
      <4> QED
        BY <4>1, TotalOfNone
    <3>4. h[1] = 0
      <4>1. h[1] = (1 - 1) * V[1] /\ V[1] \in Nat
        BY <1>1, <2>1
      <4> QED
        BY <4>1
    <3> QED
      BY <2>1, <3>3, <3>4, <3>5 DEF H, one
  <2>2. CASE n # 1
    <3>1. 1 \in 1..n /\ 1 < n
      BY <2>2
    <3>2. h[1] \in Nat /\ h[1] # 0
      BY <1>1, <3>1
    <3>3. \A x \in 1..n : h[x] \in Nat
      BY <1>1
    <3>4. h[1] <= Total(h, 1..n)
      BY <1>2, <3>1, <3>3, SumHasPart
    <3> QED
      BY <1>4, <2>2, <3>2, <3>4 DEF H
  <2> QED
    BY <2>1, <2>2
<1> DEFINE p == m * A + g * v
           w == m * F + g * (n * v)
<1>6. n * p - w = m * H
  BY <1>2, <1>3
<1>7. w \in Nat \ {0} /\ p \in Int /\ n * p \in Int
  <2>1. m * F \in Nat
    BY <1>4, ProductIsNat
  <2>2. n * v \in Nat \ {0}
    BY <1>2, ProductIsPositive
  <2>3. g * (n * v) \in Nat \ {0}
    BY <2>2, ProductIsPositive
  <2> QED
    BY <1>2, <1>3, <2>1, <2>3
<1>8. m * H \in Nat /\ (m * H = 0 <=> m = 0 \/ H = 0)
  <2>1. m * H \in Nat
    BY <1>4, ProductIsNat
  <2>2. m # 0 /\ H # 0 => m * H # 0
    BY <1>4, ProductIsPositive
  <2> QED
    BY <1>4, <2>1, <2>2
<1>9. p = PricedAt(V, n, m, g) /\ w = TimedAt(V, n, m, g)
  BY DEF PricedAt, TimedAt, A, F, f, v
<1> HIDE DEF p, w
<1> QED
  BY <1>5, <1>6, <1>7, <1>8, <1>9

LEMMA TotalKeepsSign ==
  ASSUME NEW n \in Nat, NEW f, \A k \in 1..n : f[k] \in Int
  PROVE  /\ (\A k \in 1..n : f[k] >= 0) => Total(f, 1..n) >= 0
         /\ (\A k \in 1..n : f[k] <= 0) => Total(f, 1..n) <= 0
         /\ Total(f, 1..n) \in Int
<1>1. IsFiniteSet(1..n)
  BY FS_Interval
<1>2. Total(f, 1..n) \in Int
  BY <1>1, SumIsInt
<1>3. ASSUME \A k \in 1..n : f[k] >= 0 PROVE Total(f, 1..n) >= 0
  <2>1. \A k \in 1..n : f[k] \in Nat
    BY <1>3
  <2>2. Total(f, 1..n) \in Nat
    BY <1>1, <2>1, SumIsNat
  <2> QED
    BY <2>2
<1>4. ASSUME \A k \in 1..n : f[k] <= 0 PROVE Total(f, 1..n) <= 0
  <2> DEFINE h == [k \in 1..n |-> -f[k]]
             p == -1
  <2>1. \A k \in 1..n : f[k] \in Int /\ h[k] = p * f[k]
    OBVIOUS
  <2>2. \A k \in 1..n : h[k] \in Nat
    BY <1>4
  <2>3. p \in Int
    OBVIOUS
  <2> HIDE DEF h, p
  <2>4. Total(h, 1..n) = p * Total(f, 1..n)
    BY ONLY <1>1, <2>1, <2>3, SumTimes
  <2>5. Total(h, 1..n) \in Nat
    BY <1>1, <2>2, SumIsNat
  <2> QED
    BY <1>2, <2>4, <2>5 DEF p
<1> QED
  BY <1>2, <1>3, <1>4

\* A price against the line and the curve, after a move from a / e to b / e.
LEMMA PricesMove ==
  ASSUME NEW V, NEW W, NEW n \in Nat \ {0}, NEW M, NEW a, NEW b, NEW e,
         Discounts(V, n, M, a, e), Discounts(W, n, M, b, e),
         NEW m \in Nat, NEW g \in Nat \ {0}
  PROVE  LET line == a * PricedAt(W, n, m, g) - a * PricedAt(V, n, m, g)
                       + (b - a) * TimedAt(V, n, m, g)
             curve == 2 * (a * line) - ((b - a) * (b - a)) * BentAt(V, n, m, g)
         IN /\ line \in Nat /\ curve \in Int /\ BentAt(V, n, m, g) \in Int
            /\ a <= b => curve <= 0
            /\ b <= a => curve >= 0
<1> DEFINE f == [k \in 1..n |-> k * V[k]]
           z == [k \in 1..n |-> (k * (k + 1)) * V[k]]
           both == [k \in 1..n |-> a * W[k] - a * V[k]]
           over == [k \in 1..n |-> OverLine(a, b, k, V[k], W[k])]
           bent == [k \in 1..n |-> OverCurve(a, b, k, V[k], W[k])]
           A == Total(V, 1..n)
           B == Total(W, 1..n)
           F == Total(f, 1..n)
           Z == Total(z, 1..n)
           L == Total(over, 1..n)
           C == Total(bent, 1..n)
           v == V[n]
           w == W[n]
<1>1. /\ a \in Int /\ b \in Int /\ n \in Nat /\ n \in 1..n
      /\ \A k \in 1..n : V[k] \in Int /\ W[k] \in Int
  BY DEF Discounts
<1>2. \A k \in 1..n : /\ f[k] \in Int /\ z[k] \in Int /\ both[k] \in Int
                      /\ over[k] \in Nat /\ bent[k] \in Int
                      /\ a <= b => bent[k] <= 0
                      /\ b <= a => bent[k] >= 0
  <2> SUFFICES ASSUME NEW k \in 1..n
               PROVE  /\ f[k] \in Int /\ z[k] \in Int /\ both[k] \in Int
                      /\ over[k] \in Nat /\ bent[k] \in Int
                      /\ a <= b => bent[k] <= 0
                      /\ b <= a => bent[k] >= 0
    OBVIOUS
  <2>1. f[k] \in Int /\ z[k] \in Int /\ both[k] \in Int
    BY <1>1
  <2>2. over[k] = OverLine(a, b, k, V[k], W[k]) /\ bent[k] = OverCurve(a, b, k, V[k], W[k])
    OBVIOUS
  <2> HIDE DEF f, z, both, over, bent
  <2> QED
    BY <2>1, <2>2, MovesOfOne
<1>3. /\ \A k \in 1..n : both[k] = Weighed(a, W[k], -a, V[k])
      /\ \A k \in 1..n : over[k] = Weighed(1, both[k], b - a, f[k])
      /\ \A k \in 1..n : bent[k] = Weighed(2 * a, over[k], -((b - a) * (b - a)), z[k])
  <2>1. \A k \in 1..n : both[k] = Weighed(a, W[k], -a, V[k])
    BY <1>1 DEF Weighed
  <2>2. \A k \in 1..n : over[k] = Weighed(1, both[k], b - a, f[k])
    <3> SUFFICES ASSUME NEW k \in 1..n PROVE over[k] = Weighed(1, both[k], b - a, f[k])
      OBVIOUS
    <3>1. over[k] = a * W[k] - a * V[k] + (b - a) * (k * V[k])
      BY DEF OverLine
    <3>2. both[k] = a * W[k] - a * V[k] /\ f[k] = k * V[k]
      OBVIOUS
    <3>3. both[k] \in Int /\ f[k] \in Int
      BY <1>2
    <3> HIDE DEF both, f, over
    <3> QED
      BY <1>1, <3>1, <3>2, <3>3 DEF Weighed
  <2>3. \A k \in 1..n : bent[k] = Weighed(2 * a, over[k], -((b - a) * (b - a)), z[k])
    <3> SUFFICES ASSUME NEW k \in 1..n
                 PROVE  bent[k] = Weighed(2 * a, over[k], -((b - a) * (b - a)), z[k])
      OBVIOUS
    <3>1. bent[k] = 2 * (a * over[k]) - ((b - a) * (b - a)) * z[k]
      BY DEF OverCurve
    <3>2. over[k] \in Int /\ z[k] \in Int
      BY <1>2
    <3> HIDE DEF over, z, bent
    <3> QED
      BY <1>1, <3>1, <3>2 DEF Weighed
  <2> QED
    BY <2>1, <2>2, <2>3
<1> HIDE DEF f, z, both, over, bent, A, B, F, Z, L, C
<1>4. L = a * B - a * A + (b - a) * F /\ A \in Int /\ B \in Int /\ F \in Int
  <2> DEFINE p == a
             q == -a
             i == 1
             j == b - a
             x == W
             y == V
  <2>1. p \in Int /\ q \in Int /\ i \in Int /\ j \in Int
    BY <1>1
  <2>2. \A k \in 1..n : x[k] \in Int /\ y[k] \in Int /\ both[k] = Weighed(p, x[k], q, y[k])
    BY <1>1, <1>3
  <2>3. \A k \in 1..n : both[k] \in Int /\ f[k] \in Int /\ over[k] = Weighed(i, both[k], j, f[k])
    BY <1>2, <1>3
  <2> HIDE DEF p, q, i, j, x, y
  <2>4. /\ Total(both, 1..n) = Weighed(p, Total(x, 1..n), q, Total(y, 1..n))
        /\ Total(x, 1..n) \in Int /\ Total(y, 1..n) \in Int
    BY ONLY <2>1, <2>2, TotalCombines, n \in Nat
  <2>5. /\ Total(over, 1..n) = Weighed(i, Total(both, 1..n), j, Total(f, 1..n))
        /\ Total(f, 1..n) \in Int
    BY ONLY <2>1, <2>3, TotalCombines, n \in Nat, SMTT(40)
  <2>6. /\ L = Weighed(i, Weighed(p, B, q, A), j, F) /\ A \in Int /\ B \in Int /\ F \in Int
    BY <2>4, <2>5 DEF L, A, B, F, x, y
  <2> QED
    BY <1>1, <2>6 DEF Weighed, p, q, i, j
<1>5. C = 2 * (a * L) - ((b - a) * (b - a)) * Z /\ L \in Int /\ Z \in Int /\ C \in Int
  <2> DEFINE p == 2 * a
             q == -((b - a) * (b - a))
  <2>1. p \in Int /\ q \in Int
    BY <1>1
  <2>2. \A k \in 1..n : over[k] \in Int /\ z[k] \in Int /\ bent[k] = Weighed(p, over[k], q, z[k])
    BY <1>2, <1>3
  <2>3. \A k \in 1..n : bent[k] \in Int
    BY <1>2
  <2> HIDE DEF p, q
  <2>4. /\ Total(bent, 1..n) = Weighed(p, Total(over, 1..n), q, Total(z, 1..n))
        /\ Total(over, 1..n) \in Int /\ Total(z, 1..n) \in Int
    BY ONLY <2>1, <2>2, TotalCombines, n \in Nat
  <2>5. C = Weighed(p, L, q, Z) /\ L \in Int /\ Z \in Int
    BY <2>4 DEF C, L, Z
  <2>6. Total(bent, 1..n) \in Int
    BY ONLY <2>3, TotalKeepsSign, n \in Nat
  <2> QED
    BY <1>1, <2>5, <2>6 DEF Weighed, p, q, C
<1>6. L \in Nat
  <2>1. \A k \in 1..n : over[k] \in Nat
    BY <1>2
  <2>2. IsFiniteSet(1..n)
    BY FS_Interval
  <2> QED
    BY <2>1, <2>2, SumIsNat DEF L
<1>7. (a <= b => C <= 0) /\ (b <= a => C >= 0)
  <2>1. \A k \in 1..n : bent[k] \in Int
    BY <1>2
  <2>2. a <= b => \A k \in 1..n : bent[k] <= 0
    BY <1>2
  <2>3. b <= a => \A k \in 1..n : bent[k] >= 0
    BY <1>2
  <2> QED
    BY <1>1, <2>1, <2>2, <2>3, TotalKeepsSign DEF C
<1>8. /\ OverLine(a, b, n, v, w) \in Nat /\ OverCurve(a, b, n, v, w) \in Int
      /\ a <= b => OverCurve(a, b, n, v, w) <= 0
      /\ b <= a => OverCurve(a, b, n, v, w) >= 0
      /\ v \in Int /\ w \in Int
  BY <1>1, MovesOfOne
<1> DEFINE l == OverLine(a, b, n, v, w)
           c == OverCurve(a, b, n, v, w)
           s == (b - a) * (b - a)
           y == (n * (n + 1)) * v
           x == n * v
           line == a * (m * B + g * w) - a * (m * A + g * v) + (b - a) * (m * F + g * x)
           curve == 2 * (a * line) - s * (m * Z + g * y)
<1>9. l = a * w - a * v + (b - a) * x /\ c = 2 * (a * l) - s * y /\ x \in Int /\ y \in Int /\ s \in Int
  <2>1. x \in Int /\ y \in Int /\ s \in Int
    BY <1>1, <1>8
  <2>2. l = a * w - a * v + (b - a) * x
    BY DEF OverLine
  <2>3. c = 2 * (a * l) - s * y
    BY DEF OverCurve
  <2> QED
    BY <2>1, <2>2, <2>3
<1> HIDE DEF v, w
<1>10. line = m * L + g * l
  <2> HIDE DEF l, x
  <2>1. m * L = m * (a * B - a * A + (b - a) * F) /\ g * l = g * (a * w - a * v + (b - a) * x)
    BY <1>4, <1>9
  <2> QED
    BY <1>1, <1>4, <1>8, <1>9, <2>1
<1>11. curve = m * C + g * c
  <2> HIDE DEF l, x, y, s, c, line
  <2>1. /\ m * C = m * (2 * (a * L) - s * Z) /\ g * c = g * (2 * (a * l) - s * y)
    BY <1>5, <1>9 DEF s
  <2>2. l \in Int
    BY <1>8 DEF l
  <2>3. 2 * (a * (m * L + g * l)) - s * (m * Z + g * y) = m * (2 * (a * L) - s * Z) + g * (2 * (a * l) - s * y)
    BY <1>1, <1>5, <1>9, <2>2
  <2> QED
    BY <1>10, <2>1, <2>3
<1>12. line \in Nat /\ curve \in Int /\ (a <= b => curve <= 0) /\ (b <= a => curve >= 0)
  <2> DEFINE mC == m * C
             gc == g * c
  <2>1. l \in Nat /\ c \in Int /\ (a <= b => c <= 0) /\ (b <= a => c >= 0)
    BY <1>8
  <2> HIDE DEF l, c, line, curve
  <2>2. m * L \in Nat /\ g * l \in Nat
    BY <1>6, <2>1, ProductIsNat
  <2>3. g * c \in Int /\ (c <= 0 => g * c <= 0) /\ (c >= 0 => g * c >= 0)
    BY <2>1, FactorKeepsSign
  <2>4. m * C \in Int /\ (C <= 0 => m * C <= 0) /\ (C >= 0 => m * C >= 0)
    <3>1. CASE m = 0
      <4>1. m * C = 0
        BY <1>5, <3>1
      <4> QED
        BY <4>1
    <3>2. CASE m # 0
      <4>1. m \in Nat \ {0}
        BY <3>2
      <4> QED
        BY <1>5, <4>1, FactorKeepsSign
    <3> QED
      BY <3>1, <3>2
  <2>5. line \in Nat
    BY <1>10, <2>2
  <2>6. curve = mC + gc /\ mC \in Int /\ gc \in Int
    BY <1>11, <2>3, <2>4
  <2>7. (a <= b => mC <= 0 /\ gc <= 0) /\ (b <= a => mC >= 0 /\ gc >= 0)
    BY <1>7, <2>1, <2>3, <2>4
  <2> HIDE DEF mC, gc
  <2> QED
    BY <2>5, <2>6, <2>7
<1>13. /\ PricedAt(V, n, m, g) = m * A + g * v /\ PricedAt(W, n, m, g) = m * B + g * w
       /\ TimedAt(V, n, m, g) = m * F + g * x /\ BentAt(V, n, m, g) = m * Z + g * y
  BY DEF PricedAt, TimedAt, BentAt, A, B, F, Z, f, z, v, w
<1>14. BentAt(V, n, m, g) \in Int
  BY <1>5, <1>9, <1>13
<1> HIDE DEF l, c, x, y, A, B, F, Z
<1>15. /\ line = a * PricedAt(W, n, m, g) - a * PricedAt(V, n, m, g) + (b - a) * TimedAt(V, n, m, g)
       /\ curve = 2 * (a * line) - ((b - a) * (b - a)) * BentAt(V, n, m, g)
  BY <1>13 DEF line, curve, s
<1> HIDE DEF line, curve, s
<1> QED
  BY <1>12, <1>14, <1>15
-----------------------------------------------------------------------------
(* The variance of two names, in whole numbers.                            *)

Quad(A, B, C, G, H) == A * (G * G) + 2 * (C * (G * H)) + B * (H * H)
Semi(A, B, C) == A \in Nat /\ B \in Nat /\ C \in Int /\ C * C <= A * B

LEMMA QuadIsNat ==
  ASSUME NEW A, NEW B, NEW C, Semi(A, B, C), NEW G \in Int, NEW H \in Int
  PROVE  /\ Quad(A, B, C, G, H) \in Nat
         /\ (A * B - C * C > 0 /\ (G # 0 \/ H # 0)) => Quad(A, B, C, G, H) > 0
<1> DEFINE q == Quad(A, B, C, G, H)
           l == A * G + C * H
           det == A * B - C * C
<1>1. A \in Nat /\ B \in Nat /\ C \in Int /\ det \in Nat
  <2>1. A \in Nat /\ B \in Nat /\ C \in Int /\ C * C <= A * B
    BY DEF Semi
  <2>2. A * B \in Int /\ C * C \in Int
    BY <2>1
  <2> QED
    BY <2>1, <2>2
<1>2. q \in Int /\ l \in Int
  BY <1>1 DEF Quad
<1>3. A * q = l * l + det * (H * H)
  BY <1>1 DEF Quad
<1>4. l * l \in Nat /\ H * H \in Nat /\ (H # 0 => H * H # 0) /\ (l # 0 => l * l # 0)
  BY <1>2, SquareIsNat
<1>5. det * (H * H) \in Nat
  BY <1>1, <1>4, ProductIsNat
<1>6. CASE A = 0
  <2>1. C * C \in Nat /\ (C # 0 => C * C # 0)
    BY <1>1, SquareIsNat
  <2>2. C = 0 /\ det = 0
    BY <1>1, <1>6, <2>1
  <2>3. q = B * (H * H)
    BY <1>1, <1>6, <2>2 DEF Quad
  <2>4. B * (H * H) \in Nat
    BY <1>1, <1>4, ProductIsNat
  <2> QED
    BY <2>2, <2>3, <2>4
<1>7. CASE A # 0
  <2>1. A \in Nat \ {0}
    BY <1>1, <1>7
  <2> HIDE DEF q, l, det
  <2>2. A * q \in Nat
    BY <1>3, <1>4, <1>5
  <2>3. q >= 0
    BY <1>2, <2>1, <2>2, FactorKeepsSign
  <2>4. ASSUME det > 0, G # 0 \/ H # 0 PROVE q # 0
    <3> SUFFICES ASSUME q = 0 PROVE FALSE
      OBVIOUS
    <3>1. A * q = 0
      BY <2>1
    <3>2. l * l = 0 /\ det * (H * H) = 0
      BY <1>3, <1>4, <1>5, <3>1
    <3>3. l = 0
      BY <1>4, <3>2
    <3>4. H = 0
      <4>1. det \in Nat \ {0}
        BY <1>1, <2>4
      <4>2. H * H # 0 => det * (H * H) # 0
        BY <1>4, <4>1, ProductIsPositive
      <4> QED
        BY <1>4, <3>2, <4>2
    <3>5. A * G = 0
      BY <1>1, <3>3, <3>4 DEF l
    <3>6. G = 0
      BY <2>1, <3>5, FactorKeepsSign
    <3> QED
      BY <2>4, <3>4, <3>6
  <2> QED
    BY <1>2, <2>3, <2>4 DEF q, det
<1> QED
  BY <1>1, <1>6, <1>7

\* Away from the least of it, the variance rises.
LEMMA VarianceRises ==
  ASSUME NEW A \in Int, NEW B \in Int, NEW C \in Int, NEW D \in Int, NEW l \in Int,
         NEW p \in Int, NEW q \in Int, A + B - 2 * C > 0
  PROVE  /\ ((A + B - 2 * C) * l >= (B - C) * D /\ l <= p /\ p < q) =>
              Quad(A, B, C, p, D - p) < Quad(A, B, C, q, D - q)
         /\ ((A + B - 2 * C) * l <= (B - C) * D /\ p <= l /\ q < p) =>
              Quad(A, B, C, p, D - p) < Quad(A, B, C, q, D - q)
<1> DEFINE K == A + B - 2 * C
           t == (B - C) * D
           s == q + p - 2 * l
           r == K * (q + p) - 2 * t
           v == Quad(A, B, C, p, D - p)
           w == Quad(A, B, C, q, D - q)
           h == q - p
<1>1. K \in Nat \ {0} /\ t \in Int /\ s \in Int /\ r \in Int /\ h \in Int
  OBVIOUS
<1>2. w - v = h * r /\ w \in Int /\ v \in Int
  <2>1. w \in Int /\ v \in Int
    BY DEF Quad
  <2>2. w - v = h * r
    BY DEF Quad
  <2> QED
    BY ONLY <2>1, <2>2
<1>3. r = K * s + 2 * (K * l - t) /\ K * s \in Int /\ K * l \in Int
  OBVIOUS
<1> HIDE DEF K, t, r, v, w
<1>4. ASSUME K * l >= t, l <= p, p < q PROVE v < w
  <2>1. s \in Nat \ {0} /\ h \in Nat \ {0}
    BY <1>4
  <2>2. K * s \in Nat \ {0}
    BY <1>1, <2>1, ProductIsPositive
  <2>3. r \in Nat \ {0}
    BY <1>1, <1>3, <1>4, <2>2
  <2> HIDE DEF h
  <2>4. h * r \in Nat \ {0}
    BY <2>1, <2>3, ProductIsPositive
  <2> QED
    BY <1>2, <2>4
<1>5. ASSUME K * l <= t, p <= l, q < p PROVE v < w
  <2> DEFINE i == -s
             j == -h
             u == -r
  <2>1. i \in Nat \ {0} /\ j \in Nat \ {0}
    BY <1>5
  <2>2. K * i \in Nat \ {0}
    BY <1>1, <2>1, ProductIsPositive
  <2>3. K * i = -(K * s)
    BY <1>1
  <2> HIDE DEF s
  <2>4. u \in Nat \ {0}
    BY <1>1, <1>3, <1>5, <2>2, <2>3
  <2>5. h * r = j * u
    BY <1>1
  <2> HIDE DEF j, u, h
  <2>6. j * u \in Nat \ {0}
    BY <2>1, <2>4, ProductIsPositive
  <2> QED
    BY <1>2, <2>5, <2>6
<1> QED
  BY <1>4, <1>5 DEF K, t, v, w

\* Weights in proportion to the inverse of the matrix times the excess returns
\* have the most return for their variance.
LEMMA TangentIsBest ==
  ASSUME NEW A, NEW B, NEW C, Semi(A, B, C), NEW x \in Int, NEW y \in Int,
         NEW D \in Int, NEW S \in Int, NEW T \in Int, NEW G \in Int, NEW H \in Int,
         (B * x - C * y) + (A * y - C * x) # 0,
         S * ((B * x - C * y) + (A * y - C * x)) = D * (B * x - C * y),
         T * ((B * x - C * y) + (A * y - C * x)) = D * (A * y - C * x)
  PROVE  ((G * x + H * y) * (G * x + H * y)) * Quad(A, B, C, S, T)
           <= ((S * x + T * y) * (S * x + T * y)) * Quad(A, B, C, G, H)
<1> DEFINE u == B * x - C * y
           v == A * y - C * x
           s == u + v
           q == x * u + y * v
           det == A * B - C * C
           r == G * x + H * y
           t == S * x + T * y
           V == Quad(A, B, C, G, H)
           W == Quad(A, B, C, S, T)
           gap == G * v - H * u
<1>1. A \in Int /\ B \in Int /\ C \in Int /\ A \in Nat /\ B \in Nat /\ C * C <= A * B
  BY DEF Semi
<1>2. /\ u \in Int /\ v \in Int /\ s \in Int /\ q \in Int /\ det \in Int /\ r \in Int /\ t \in Int
      /\ V \in Int /\ W \in Int /\ gap \in Int
  BY <1>1 DEF Quad
<1>3. s # 0 /\ S * s = D * u /\ T * s = D * v
  OBVIOUS
<1>4. q \in Nat
  <2>1. Semi(B, A, -C)
    <3>1. (-C) * (-C) = C * C /\ B * A = A * B
      BY <1>1
    <3> QED
      BY <1>1, <3>1 DEF Semi
  <2>2. -C \in Int
    BY <1>1
  <2>3. Quad(B, A, -C, x, y) \in Nat
    BY <2>1, QuadIsNat
  <2>4. Quad(B, A, -C, x, y) = q
    BY <1>1 DEF Quad
  <2> QED
    BY <2>3, <2>4
<1>5. q * V - det * (r * r) = gap * gap
  BY <1>1 DEF Quad
<1>6. A * (u * u) + 2 * (C * (u * v)) + B * (v * v) = det * q
  BY <1>1
<1>7. t * s = D * q
  <2>1. t * s = (S * s) * x + (T * s) * y
    <3> HIDE DEF s
    <3> QED
      BY <1>2
  <2>2. (D * u) * x + (D * v) * y = D * q
    <3> HIDE DEF u, v
    <3> QED
      BY <1>2
  <2> QED
    BY <1>3, <2>1, <2>2
<1> HIDE DEF u, v, s, q, det, r, t, V, gap
<1>8. (s * s) * W = (D * D) * (det * q)
  <2> DEFINE i == S * s
             j == T * s
  <2>1. (s * s) * W = A * (i * i) + 2 * (C * (i * j)) + B * (j * j)
    BY <1>1, <1>2 DEF Quad
  <2>2. i = D * u /\ j = D * v
    BY <1>3
  <2> HIDE DEF i, j, W
  <2>3. A * (i * i) + 2 * (C * (i * j)) + B * (j * j)
          = A * ((D * u) * (D * u)) + 2 * (C * ((D * u) * (D * v))) + B * ((D * v) * (D * v))
    BY <2>2
  <2>4. A * ((D * u) * (D * u)) + 2 * (C * ((D * u) * (D * v))) + B * ((D * v) * (D * v))
          = (D * D) * (A * (u * u) + 2 * (C * (u * v)) + B * (v * v))
    BY ONLY <1>1, <1>2, D \in Int
  <2>5. (D * D) * (A * (u * u) + 2 * (C * (u * v)) + B * (v * v)) = (D * D) * (det * q)
    BY <1>6
  <2> QED
    BY <2>1, <2>3, <2>4, <2>5
<1> HIDE DEF W
<1> DEFINE big == (t * t) * V - (r * r) * W
           p == s * s
           e == D * D
           g == gap * gap
<1>9. p * big = e * (q * g)
  <2>1. p * big = ((t * s) * (t * s)) * V - (r * r) * ((s * s) * W)
    BY ONLY <1>2
  <2>2. p * big = ((D * q) * (D * q)) * V - (r * r) * ((D * D) * (det * q))
    BY <1>7, <1>8, <2>1
  <2>3. ((D * q) * (D * q)) * V - (r * r) * ((D * D) * (det * q))
          = (D * D) * (q * (q * V - det * (r * r)))
    BY ONLY <1>2, D \in Int
  <2> QED
    BY <1>5, <2>2, <2>3
<1>10. p \in Nat \ {0} /\ e \in Nat /\ g \in Nat
  BY <1>2, <1>3, SquareIsNat
<1>11. big \in Int
  BY <1>2
<1> HIDE DEF big, p, e, g
<1>12. e * (q * g) \in Nat
  BY <1>4, <1>10, ProductIsNat
<1>13. big >= 0
  BY <1>9, <1>10, <1>11, <1>12, FactorKeepsSign
<1>14. (r * r) * W <= (t * t) * V
  <2>1. (r * r) * W \in Int /\ (t * t) * V \in Int
    BY <1>2
  <2> QED
    BY <1>13, <2>1 DEF big
<1> QED
  BY <1>14 DEF r, t, V, W

LEMMA PositiveProduct ==
  ASSUME NEW a \in Rationals, NEW b \in Rationals, Zero \prec a, Zero \prec b
  PROVE  Zero \prec a ** b
<1>1. PICK n \in Int, m \in Int, d \in Nat \ {0} : Is(a, n, d) /\ Is(b, m, d)
  BY IsCommon
<1>2. n \in Nat \ {0} /\ m \in Nat \ {0}
  BY <1>1, PositiveIs
<1>3. Is(a ** b, n * m, d * d) /\ n * m \in Nat \ {0}
  BY <1>1, <1>2, TimesIs, ProductIsPositive
<1> QED
  BY <1>3, PositiveIs

LEMMA AboveMinusOne ==
  ASSUME NEW r \in Rationals, Minus(One) \prec r
  PROVE  Zero \prec One ++ r /\ One ++ r \in Rationals
<1>1. PICK n \in Int, d \in Nat \ {0} : Is(r, n, d)
  BY IsItself, RationalParts
<1>2. Is(One, d, d)
  BY ZeroIs
<1>3. Is(Minus(One), -d, d) /\ Is(One ++ r, d + n, d)
  BY <1>1, <1>2, MinusIs, PlusIs
<1>4. -d < n
  BY <1>1, <1>3, IsOrder
<1>5. d + n > 0
  BY <1>4
<1> QED
  BY <1>3, <1>5, PositiveIs DEF Is

LEMMA NoLessThanNothing ==
  ASSUME NEW a \in Rationals, NEW b \in Rationals, Zero \preceq a, Zero \preceq b
  PROVE  Zero \preceq a ** b /\ a ** b \in Rationals
<1>1. PICK n \in Int, m \in Int, d \in Nat \ {0} : Is(a, n, d) /\ Is(b, m, d)
  BY IsCommon
<1>2. n \in Nat /\ m \in Nat
  BY <1>1, PositiveIs
<1>3. n * m \in Nat
  BY <1>2, ProductIsNat
<1>4. Is(a ** b, n * m, d * d) /\ a ** b \in Rationals
  BY <1>1, TimesIs
<1> QED
  BY <1>3, <1>4, PositiveIs
=============================================================================
