-------------------------- MODULE RiskEngineProofs --------------------------
(***************************************************************************)
(* The repairs, the turnover cap, the gate and the circuit breaker of the  *)
(* risk engine, for any number of symbols, any policy, estimates, books    *)
(* and proposals.                                                          *)
(*                                                                         *)
(* Every limit but the one on a single weight is a limit on a sum over the *)
(* symbols.  A repair scales the terms of such a sum down, and the turnover *)
(* cap leaves each weight between the one held and its target: Arithmetic  *)
(* says what either does to the sum.                                       *)
(***************************************************************************)
EXTENDS RiskEngine, Arithmetic

-----------------------------------------------------------------------------
(* Types.                                                                  *)

LEMMA SymbolsAreFinite == IsFiniteSet(Symbols) /\ Cardinality(Symbols) = NumSymbols
<1>1. NumSymbols \in Nat
  BY RiskAssumption
<1>2. /\ IsFiniteSet(1..NumSymbols)
      /\ Cardinality(1..NumSymbols) = IF 1 > NumSymbols THEN 0 ELSE NumSymbols - 1 + 1
  BY <1>1, FS_Interval
<1> QED
  BY <1>1, <1>2 DEF Symbols

LEMMA PolicyType ==
  /\ Policy.max_position_weight \in Nat
  /\ Policy.max_sector_weight \in Nat
  /\ Policy.max_gross_exposure \in Nat
  /\ Policy.min_cash_buffer \in 0..WeightUnit
  /\ Policy.max_portfolio_beta \in Nat
  /\ Policy.max_annualized_volatility \in Nat
  /\ Policy.max_turnover \in Nat
BY RiskAssumption

LEMMA MagnitudeFacts ==
  ASSUME NEW n \in Int
  PROVE  /\ Magnitude(n) \in Nat
         /\ n >= 0 => Magnitude(n) = n
         /\ n < 0 => Magnitude(n) = -n
BY DEF Magnitude

LEMMA TabulatedIs == ASSUME NEW f PROVE Tabulated(f) = f
BY DEF Tabulated

\* The terms a measure of a book adds up.
Terms(w, k) == [s \in Symbols |-> w[s] * k[s]]
InSector(w, c) == [s \in Symbols |-> IF Sector[s] = c THEN w[s] ELSE 0]
Moves(from, to) == [s \in Symbols |-> Magnitude(to[s] - from[s])]
Gains == [s \in Symbols |-> IF Beta[s] < 0 THEN -Beta[s] ELSE 0]

LEMMA Measures ==
  ASSUME NEW w
  PROVE  /\ Gross(w) = Total(w, Symbols)
         /\ portfolio_beta(w) = Total(Terms(w, Beta), Symbols)
         /\ portfolio_volatility(w) = Magnitude(Total(Terms(w, Loading), Symbols))
BY DEF Gross, portfolio_beta, portfolio_volatility, OverSymbols, Total, Terms

LEMMA SectorMeasure ==
  ASSUME NEW w, NEW c
  PROVE  SectorExposure(w, c) = Total(InSector(w, c), Symbols)
BY DEF SectorExposure, OverSymbols, Total, InSector

LEMMA TradedMeasure ==
  ASSUME NEW v, NEW w
  PROVE  Traded(v, w) = Total(Moves(v, w), Symbols)
BY DEF Traded, OverSymbols, Total, Moves

LEMMA GainMeasure == BetaGain = Total(Gains, Symbols)
BY DEF BetaGain, OverSymbols, Total, Gains

LEMMA TermsType ==
  ASSUME NEW w \in [Symbols -> Int], NEW k \in [Symbols -> Int]
  PROVE  \A s \in Symbols : Terms(w, k)[s] = w[s] * k[s] /\ Terms(w, k)[s] \in Int
<1>1. \A s \in Symbols : w[s] * k[s] \in Int
  OBVIOUS
<1> QED
  BY <1>1 DEF Terms

LEMMA InSectorType ==
  ASSUME NEW w \in [Symbols -> Int], NEW c
  PROVE  \A s \in Symbols : /\ InSector(w, c)[s] = (IF Sector[s] = c THEN w[s] ELSE 0)
                            /\ InSector(w, c)[s] \in Int
BY DEF InSector

LEMMA GainsType ==
  \A s \in Symbols : /\ Gains[s] = (IF Beta[s] < 0 THEN -Beta[s] ELSE 0)
                     /\ Gains[s] \in Nat
BY RiskAssumption DEF Gains

LEMMA MeasuresType ==
  ASSUME NEW w \in [Symbols -> Int], NEW c
  PROVE  /\ Gross(w) \in Int
         /\ portfolio_beta(w) \in Int
         /\ portfolio_volatility(w) \in Nat
         /\ SectorExposure(w, c) \in Int
         /\ BetaGain \in Nat
<1>1. Beta \in [Symbols -> Int] /\ Loading \in [Symbols -> Int]
  BY RiskAssumption
<1>2. /\ Total(w, Symbols) \in Int
      /\ Total(Terms(w, Beta), Symbols) \in Int
      /\ Total(Terms(w, Loading), Symbols) \in Int
      /\ Total(InSector(w, c), Symbols) \in Int
  BY <1>1, TermsType, InSectorType, SymbolsAreFinite, SumIsInt
<1>3. Total(Gains, Symbols) \in Nat
  BY <1>1, GainsType, SymbolsAreFinite, SumIsNat
<1> QED
  BY <1>2, <1>3, Measures, SectorMeasure, GainMeasure, MagnitudeFacts

-----------------------------------------------------------------------------
(* The first repairs: universe, windows, shorts, position and sector caps. *)

LEMMA NamedType ==
  ASSUME NEW c \in Contexts
  PROVE  LET w == PositionCapped(LongOnly(Investable(c)))
         IN  /\ w \in [Symbols -> Nat]
             /\ \A s \in Symbols : w[s] <= Policy.max_position_weight
             /\ \A s \in Symbols : s \notin Universe \/ s \in c.blocked => w[s] = 0
<1>1. /\ c.proposed \in [Symbols -> Int] /\ c.min_variance \in [Symbols -> Int]
      /\ Policy.max_position_weight \in Nat
  BY RiskAssumption, PolicyType DEF Contexts
<1>2. Requested(c) \in [Symbols -> Int]
  BY <1>1 DEF Requested
<1>3. Investable(c) \in [Symbols -> Int]
  BY <1>2 DEF Investable, Keep
<1>4. \A s \in Symbols : s \notin Universe \/ s \in c.blocked => Investable(c)[s] = 0
  BY DEF Investable, Keep
<1> DEFINE l == LongOnly(Investable(c))
<1>5. l \in [Symbols -> Nat] /\ \A s \in Symbols : Investable(c)[s] = 0 => l[s] = 0
  BY <1>3 DEF LongOnly, Keep
<1> HIDE DEF l
<1>6. \A s \in Symbols : /\ PositionCapped(l)[s] \in Nat
                         /\ PositionCapped(l)[s] <= Policy.max_position_weight
                         /\ l[s] = 0 => PositionCapped(l)[s] = 0
  BY <1>1, <1>5 DEF PositionCapped, Lesser
<1>7. PositionCapped(l) = [s \in Symbols |-> PositionCapped(l)[s]]
  BY DEF PositionCapped
<1> QED
  BY <1>4, <1>5, <1>6, <1>7 DEF l

LEMMA SectoredType ==
  ASSUME NEW v \in [Symbols -> Nat]
  PROVE  LET w == SectorCapped(v)
         IN  /\ w \in [Symbols -> Nat]
             /\ \A s \in Symbols : w[s] <= v[s]
             /\ \A c \in Sectors : SectorExposure(w, c) <= Policy.max_sector_weight
<1> DEFINE w == SectorCapped(v)
           m == Policy.max_sector_weight
<1>1. m \in Nat /\ v \in [Symbols -> Int]
  BY PolicyType
<1> HIDE DEF m
<1>2. ASSUME NEW s \in Symbols
      PROVE  LET e == SectorExposure(v, Sector[s])
             IN  /\ e \in Int
                 /\ w[s] \in Nat
                 /\ w[s] <= v[s]
                 /\ e <= m => w[s] = v[s]
                 /\ e > m => w[s] * e <= v[s] * m
  <2> DEFINE e == SectorExposure(v, Sector[s])
  <2>1. e \in Int
    BY <1>1, MeasuresType
  <2>2. w[s] = IF e > m THEN (v[s] * m) \div e ELSE v[s]
    BY DEF SectorCapped, m
  <2> HIDE DEF e, w
  <2>3. ASSUME e > m PROVE w[s] \in Nat /\ w[s] <= v[s] /\ w[s] * e <= v[s] * m
    <3>1. e \in Nat \ {0} /\ v[s] * m \in Nat
      BY <1>1, <2>1, <2>3, ProductIsNat
    <3>2. w[s] \in Nat /\ w[s] * e <= v[s] * m
      BY <2>2, <2>3, <3>1, QuotientIsNat, RoundedDown
    <3>3. v[s] * m <= v[s] * e
      <4>1. m * v[s] <= e * v[s]
        BY <1>1, <2>1, <2>3, ProductIsMonotone
      <4> QED
        BY <1>1, <2>1, <4>1
    <3>4. w[s] * e \in Int /\ v[s] * m \in Int /\ v[s] * e \in Int
      BY <1>1, <2>1, <3>2
    <3>5. w[s] * e <= v[s] * e
      BY <3>2, <3>3, <3>4
    <3>6. w[s] <= v[s]
      BY <3>1, <3>2, <3>5, Cancels
    <3> QED
      BY <3>2, <3>6
  <2>4. /\ e \in Int
        /\ w[s] \in Nat
        /\ w[s] <= v[s]
        /\ e <= m => w[s] = v[s]
        /\ e > m => w[s] * e <= v[s] * m
    BY <1>1, <2>1, <2>2, <2>3
  <2> QED
    BY ONLY <2>4 DEF e
<1>3. w \in [Symbols -> Nat]
  <2>1. w = [s \in Symbols |-> w[s]]
    BY DEF SectorCapped
  <2> HIDE DEF w
  <2> QED
    BY <1>2, <2>1
<1> HIDE DEF w
<1>4. ASSUME NEW c \in Sectors PROVE SectorExposure(w, c) <= m
  <2> DEFINE e == SectorExposure(v, c)
  <2>1. w \in [Symbols -> Int] /\ Loading \in [Symbols -> Int]
    BY <1>3, RiskAssumption
  <2>2. e \in Int /\ e = Total(InSector(v, c), Symbols)
    BY <1>1, MeasuresType, SectorMeasure
  <2>3. \A s \in Symbols : /\ InSector(v, c)[s] = (IF Sector[s] = c THEN v[s] ELSE 0)
                           /\ InSector(v, c)[s] \in Int
    BY <1>1, InSectorType
  <2>4. \A s \in Symbols : /\ InSector(w, c)[s] = (IF Sector[s] = c THEN w[s] ELSE 0)
                           /\ InSector(w, c)[s] \in Int
    BY <2>1, InSectorType
  <2>5. CASE e > m
    <3>1. e \in Nat \ {0}
      BY <1>1, <2>2, <2>5
    <3>2. \A s \in Symbols : InSector(w, c)[s] * e <= InSector(v, c)[s] * m
      <4> SUFFICES ASSUME NEW s \in Symbols
                   PROVE  InSector(w, c)[s] * e <= InSector(v, c)[s] * m
        OBVIOUS
      <4>1. CASE Sector[s] = c
        BY <1>2, <2>3, <2>4, <2>5, <4>1
      <4>2. CASE Sector[s] # c
        <5>1. InSector(w, c)[s] = 0 /\ InSector(v, c)[s] = 0
          BY <2>3, <2>4, <4>2
        <5>2. 0 * e = 0 /\ 0 * m = 0
          BY <1>1, <2>2
        <5> QED
          BY <5>1, <5>2
      <4> QED
        BY <4>1, <4>2
    <3>3. m * Total(InSector(v, c), Symbols) <= m * e
      <4>1. m * e \in Int /\ Total(InSector(v, c), Symbols) = e
        BY <1>1, <2>2
      <4> HIDE DEF e
      <4> QED
        BY ONLY <4>1
    <3>4. Total(InSector(w, c), Symbols) <= m
      <4> HIDE DEF e
      <4> QED
        BY <1>1, <2>3, <2>4, <3>1, <3>2, <3>3, SymbolsAreFinite, SumScaled
    <3> QED
      BY <3>4, SectorMeasure
  <2>6. CASE ~ (e > m)
    <3>1. \A s \in Symbols : InSector(w, c)[s] <= InSector(v, c)[s]
      BY <1>2, <1>3, <2>3, <2>4
    <3>2. Total(InSector(w, c), Symbols) <= Total(InSector(v, c), Symbols)
      BY <2>3, <2>4, <3>1, SymbolsAreFinite, SumMonotone
    <3>3. Total(InSector(w, c), Symbols) \in Int
      BY <2>4, SymbolsAreFinite, SumIsInt
    <3> QED
      BY <1>1, <2>2, <2>6, <3>2, <3>3, SectorMeasure
  <2> QED
    BY <2>5, <2>6
<1> QED
  BY <1>2, <1>3, <1>4 DEF w, m

-----------------------------------------------------------------------------
(* Uniform scaling toward cash.                                            *)

\* The factors are fractions; for each limit n is over, limit / n is one.
Exceeding(limit, n) == IF n > limit THEN {<<limit, n>>} ELSE {}

\* A set of fractions with a least one.
HasLeast(F) == \E f \in F : \A g \in F : f[1] * g[2] <= g[1] * f[2]

Factors == {f \in Nat \X Nat : f[2] # 0}

LEMMA LessIsTransitive ==
  ASSUME NEW f \in Factors, NEW g \in Factors, NEW h \in Factors,
         f[1] * g[2] <= g[1] * f[2], g[1] * h[2] <= h[1] * g[2]
  PROVE  f[1] * h[2] <= h[1] * f[2]
<1> DEFINE a == f[1]
           b == f[2]
           c == g[1]
           d == g[2]
           x == h[1]
           y == h[2]
<1>1. /\ a \in Nat /\ b \in Nat \ {0} /\ c \in Nat /\ d \in Nat \ {0}
      /\ x \in Nat /\ y \in Nat \ {0}
      /\ a * d <= c * b /\ c * y <= x * d
  BY DEF Factors
<1> HIDE DEF a, b, c, d, x, y
<1>2. (a * d) * y <= (c * b) * y /\ (c * y) * b <= (x * d) * b
  BY <1>1, ProductIsMonotone, ProductIsNat
<1>3. /\ (a * d) * y = (a * y) * d /\ (c * b) * y = (c * y) * b
      /\ (x * d) * b = (x * b) * d
      /\ (a * y) * d \in Nat /\ (c * y) * b \in Nat /\ (x * b) * d \in Nat
      /\ a * y \in Nat /\ x * b \in Nat
  BY <1>1
<1>4. (a * y) * d <= (x * b) * d
  BY <1>2, <1>3
<1>5. a * y <= x * b
  BY <1>1, <1>3, <1>4, Cancels
<1> QED
  BY <1>5 DEF a, b, x, y

LEMMA OneMoreHasLeast ==
  ASSUME NEW F \in SUBSET Factors, HasLeast(F), NEW h \in Factors
  PROVE  HasLeast(F \cup {h})
<1>1. PICK f \in F : \A g \in F : f[1] * g[2] <= g[1] * f[2]
  BY DEF HasLeast
<1>2. /\ f[1] * h[2] \in Int /\ h[1] * f[2] \in Int
      /\ h[1] * h[2] \in Int
  BY DEF Factors
<1>3. CASE f[1] * h[2] <= h[1] * f[2]
  BY <1>1, <1>3 DEF HasLeast
<1>4. CASE h[1] * f[2] <= f[1] * h[2]
  <2>1. \A g \in F : h[1] * g[2] <= g[1] * h[2]
    BY <1>1, <1>4, LessIsTransitive
  <2>2. \A g \in F \cup {h} : h[1] * g[2] <= g[1] * h[2]
    BY <1>2, <2>1
  <2> QED
    BY <2>2 DEF HasLeast
<1> QED
  BY <1>2, <1>3, <1>4

LEMMA OverHasLeast ==
  ASSUME NEW F \in SUBSET Factors, HasLeast(F), NEW limit \in Nat, NEW n \in Int
  PROVE  HasLeast(F \cup Exceeding(limit, n)) /\ Exceeding(limit, n) \in SUBSET Factors
<1>1. CASE n > limit
  <2>1. <<limit, n>> \in Factors
    BY <1>1 DEF Factors
  <2> QED
    BY <1>1, <2>1, OneMoreHasLeast DEF Exceeding
<1>2. CASE ~ (n > limit)
  BY <1>2 DEF Exceeding
<1> QED
  BY <1>1, <1>2

\* Scaled by a fraction within limit / n, where n is over the limit, n is not.
LEMMA ScaledWithin ==
  ASSUME NEW limit \in Nat, NEW n \in Int, NEW p \in Nat, NEW q \in Nat \ {0}, p <= q,
         n > limit => p * n <= limit * q
  PROVE  p * n <= limit * q
<1>1. CASE n > limit
  BY <1>1
<1>2. CASE n <= limit /\ n >= 0
  <2>1. p * n <= q * n /\ n * q <= limit * q
    BY <1>2, ProductIsMonotone
  <2>2. p * n \in Nat /\ q * n = n * q /\ n * q \in Nat /\ limit * q \in Nat
    BY <1>2, ProductIsNat
  <2> QED
    BY <2>1, <2>2
<1>3. CASE n < 0
  <2>1. n * p <= 0 * p
    BY <1>3, ProductIsMonotone
  <2>2. n * p = p * n /\ 0 * p = 0 /\ limit * q \in Nat /\ p * n \in Int
    BY ProductIsNat
  <2> QED
    BY <2>1, <2>2
<1> QED
  BY <1>1, <1>2, <1>3

LEMMA CeilingTypes ==
  ASSUME NEW c, NEW held \in [Symbols -> Int]
  PROVE  /\ effective_exposure_ceiling \in Nat
         /\ effective_exposure_ceiling <= Policy.max_gross_exposure
         /\ effective_exposure_ceiling <= WeightUnit - Policy.min_cash_buffer
         /\ Policy.max_portfolio_beta * WeightUnit \in Nat
         /\ VolatilityCeiling(c, held) \in Nat
         /\ VolatilityCeiling(c, held) <= Policy.max_annualized_volatility * WeightUnit
         /\ c.tripped /\ portfolio_volatility(held) > 0
              => VolatilityCeiling(c, held) <= portfolio_volatility(held)
<1> DEFINE ceiling == Policy.max_annualized_volatility * WeightUnit
<1>1. /\ Policy.max_portfolio_beta * WeightUnit \in Nat
      /\ ceiling \in Nat
  BY PolicyType, RiskAssumption, ProductIsNat
<1>2. portfolio_volatility(held) \in Nat
  BY MeasuresType
<1> HIDE DEF ceiling
<1>3. VolatilityCeiling(c, held)
        = IF c.tripped /\ portfolio_volatility(held) > 0
            THEN Lesser(ceiling, portfolio_volatility(held)) ELSE ceiling
  BY DEF VolatilityCeiling, ceiling
<1>4. /\ effective_exposure_ceiling \in Nat
      /\ effective_exposure_ceiling <= Policy.max_gross_exposure
      /\ effective_exposure_ceiling <= WeightUnit - Policy.min_cash_buffer
  BY PolicyType, RiskAssumption DEF effective_exposure_ceiling, Lesser
<1> QED
  BY <1>1, <1>2, <1>3, <1>4 DEF Lesser, ceiling

LEMMA ScaleType ==
  ASSUME NEW w \in [Symbols -> Nat], NEW c, NEW held \in [Symbols -> Int]
  PROVE  LET f == Tightest(Scales(w, c, held))
         IN  /\ f \in Factors
             /\ f[1] <= f[2]
             /\ f[1] * Gross(w) <= effective_exposure_ceiling * f[2]
             /\ f[1] * portfolio_beta(w) <= (Policy.max_portfolio_beta * WeightUnit) * f[2]
             /\ f[1] * portfolio_volatility(w) <= VolatilityCeiling(c, held) * f[2]
<1> DEFINE A == Exceeding(effective_exposure_ceiling, Gross(w))
           B == Exceeding(Policy.max_portfolio_beta * WeightUnit, portfolio_beta(w))
           V == Exceeding(VolatilityCeiling(c, held), portfolio_volatility(w))
           F == {<<1, 1>>} \cup A \cup B \cup V
           f == Tightest(F)
<1>1. w \in [Symbols -> Int]
  OBVIOUS
<1>2. /\ Gross(w) \in Int /\ portfolio_beta(w) \in Int /\ portfolio_volatility(w) \in Int
  BY <1>1, MeasuresType
<1>3. /\ effective_exposure_ceiling \in Nat
      /\ Policy.max_portfolio_beta * WeightUnit \in Nat
      /\ VolatilityCeiling(c, held) \in Nat
  BY CeilingTypes
<1>4. Scales(w, c, held) = F
  BY DEF Scales, Exceeding
<1>5. HasLeast({<<1, 1>>}) /\ {<<1, 1>>} \in SUBSET Factors
  BY DEF HasLeast, Factors
<1> HIDE DEF A, B, V
<1>6. HasLeast({<<1, 1>>} \cup A) /\ A \in SUBSET Factors
  BY <1>2, <1>3, <1>5, OverHasLeast DEF A
<1>7. HasLeast({<<1, 1>>} \cup A \cup B) /\ B \in SUBSET Factors
  <2>1. {<<1, 1>>} \cup A \in SUBSET Factors
    BY <1>5, <1>6
  <2> QED
    BY <1>2, <1>3, <1>6, <2>1, OverHasLeast DEF B
<1>8. HasLeast(F) /\ F \in SUBSET Factors
  <2>1. {<<1, 1>>} \cup A \cup B \in SUBSET Factors
    BY <1>5, <1>6, <1>7
  <2>2. HasLeast({<<1, 1>>} \cup A \cup B \cup V) /\ V \in SUBSET Factors
    BY <1>2, <1>3, <1>7, <2>1, OverHasLeast DEF V
  <2> QED
    BY <2>1, <2>2
<1>9. <<1, 1>> \in F /\ A \subseteq F /\ B \subseteq F /\ V \subseteq F
  OBVIOUS
<1> HIDE DEF F
<1>10. f \in F /\ \A g \in F : f[1] * g[2] <= g[1] * f[2]
  BY <1>8 DEF HasLeast, Tightest
<1> HIDE DEF f
<1>11. f \in Factors
  BY <1>8, <1>10
<1>12. f[1] <= f[2]
  <2>1. f[1] * 1 <= 1 * f[2]
    BY <1>9, <1>10
  <2> QED
    BY <1>11, <2>1 DEF Factors
<1>13. ASSUME NEW limit \in Nat, NEW n \in Int, Exceeding(limit, n) \subseteq F
       PROVE  f[1] * n <= limit * f[2]
  <2>1. n > limit => f[1] * n <= limit * f[2]
    <3> SUFFICES ASSUME n > limit PROVE f[1] * n <= limit * f[2]
      OBVIOUS
    <3>1. <<limit, n>> \in F
      BY <1>13 DEF Exceeding
    <3>2. f[1] * <<limit, n>>[2] <= <<limit, n>>[1] * f[2]
      BY <1>10, <3>1
    <3> QED
      BY <3>2
  <2>2. f[1] \in Nat /\ f[2] \in Nat \ {0}
    BY <1>11 DEF Factors
  <2> QED
    BY <1>12, <2>1, <2>2, ScaledWithin
<1>14. f[1] * Gross(w) <= effective_exposure_ceiling * f[2]
  BY <1>2, <1>3, <1>9, <1>13 DEF A
<1>15. f[1] * portfolio_beta(w) <= (Policy.max_portfolio_beta * WeightUnit) * f[2]
  BY <1>2, <1>3, <1>9, <1>13 DEF B
<1>16. f[1] * portfolio_volatility(w) <= VolatilityCeiling(c, held) * f[2]
  BY <1>2, <1>3, <1>9, <1>13 DEF V
<1> QED
  BY <1>4, <1>11, <1>12, <1>14, <1>15, <1>16 DEF f

\* The book a fraction of another is, weight by weight rounded down.
LEMMA ScaledTerms ==
  ASSUME NEW w \in [Symbols -> Nat], NEW f \in Factors, f[1] <= f[2]
  PROVE  LET t == ScaledTowardCash(w, f)
         IN  /\ t \in [Symbols -> Nat]
             /\ \A s \in Symbols : /\ t[s] <= w[s]
                                   /\ t[s] * f[2] <= w[s] * f[1]
                                   /\ w[s] * f[1] < t[s] * f[2] + f[2]
<1> DEFINE t == ScaledTowardCash(w, f)
           n == f[1]
           d == f[2]
<1>1. n \in Nat /\ d \in Nat \ {0} /\ n <= d
  BY DEF Factors
<1>2. t = [s \in Symbols |-> (w[s] * n) \div d]
  BY DEF ScaledTowardCash
<1> HIDE DEF t, n, d
<1>3. ASSUME NEW s \in Symbols
      PROVE  t[s] \in Nat /\ t[s] <= w[s] /\ t[s] * d <= w[s] * n
             /\ w[s] * n < t[s] * d + d
  <2>1. w[s] \in Nat /\ w[s] * n \in Nat /\ t[s] = (w[s] * n) \div d
    BY <1>1, <1>2, ProductIsNat
  <2>2. t[s] \in Nat /\ t[s] * d <= w[s] * n /\ w[s] * n < t[s] * d + d
    <3> DEFINE a == w[s] * n
    <3>1. a \in Nat /\ a \in Int /\ t[s] = a \div d
      BY <2>1
    <3> HIDE DEF a
    <3>2. t[s] \in Nat
      BY <1>1, <3>1, QuotientIsNat
    <3>3. t[s] * d <= a /\ a < t[s] * d + d
      BY <1>1, <3>1, RoundedDown
    <3> QED
      BY <3>2, <3>3 DEF a
  <2>3. n * w[s] <= d * w[s] /\ n * w[s] = w[s] * n /\ d * w[s] = w[s] * d
    BY <1>1, <2>1, ProductIsMonotone
  <2>4. t[s] * d \in Nat /\ w[s] * d \in Nat
    BY <1>1, <2>1, <2>2, ProductIsNat
  <2>5. t[s] * d <= w[s] * d
    BY <2>1, <2>2, <2>3, <2>4
  <2>6. t[s] <= w[s]
    BY <1>1, <2>1, <2>2, <2>5, Cancels
  <2> QED
    BY <2>2, <2>6
<1>4. t \in [Symbols -> Nat]
  <2>1. t = [s \in Symbols |-> t[s]]
    BY <1>2
  <2> QED
    BY <1>3, <2>1
<1> QED
  BY <1>3, <1>4 DEF t, n, d

\* A product with a factor that is not negative, term by term.
LEMMA TermScaled ==
  ASSUME NEW t \in Int, NEW w \in Int, NEW n \in Nat, NEW d \in Nat, NEW k \in Nat,
         t * d <= w * n
  PROVE  (t * k) * d <= (w * k) * n
<1>1. t * d \in Int /\ w * n \in Int
  OBVIOUS
<1>2. (t * d) * k <= (w * n) * k
  BY <1>1, ProductIsMonotone
<1>3. (t * d) * k = (t * k) * d /\ (w * n) * k = (w * k) * n
  OBVIOUS
<1> QED
  BY <1>2, <1>3

\* And with one that is, where rounding down adds to it.
LEMMA TermGains ==
  ASSUME NEW t \in Int, NEW w \in Int, NEW n \in Nat, NEW d \in Nat, NEW k \in Int,
         k < 0, w * n <= t * d + d
  PROVE  (t * k - (-k)) * d <= (w * k) * n
<1>1. -k \in Nat /\ w * n \in Int /\ t * d \in Int
  OBVIOUS
<1>2. (w * n) * (-k) <= (t * d + d) * (-k)
  BY <1>1, ProductIsMonotone
<1>3. /\ (w * n) * (-k) = -((w * k) * n)
      /\ (t * d + d) * (-k) = -((t * k - (-k)) * d)
      /\ (w * k) * n \in Int /\ (t * k - (-k)) * d \in Int
  OBVIOUS
<1> QED
  BY <1>2, <1>3

\* A book whose weights are all not negative has a volatility that is the sum.
LEMMA VolatilityIsSum ==
  ASSUME NEW w \in [Symbols -> Nat]
  PROVE  portfolio_volatility(w) = Total(Terms(w, Loading), Symbols)
<1>1. Loading \in [Symbols -> Nat]
  BY RiskAssumption
<1>2. \A s \in Symbols : Terms(w, Loading)[s] \in Nat
  <2>1. \A s \in Symbols : w[s] * Loading[s] \in Nat
    BY <1>1, ProductIsNat
  <2> QED
    BY <2>1 DEF Terms
<1>3. Total(Terms(w, Loading), Symbols) \in Nat
  BY <1>2, SymbolsAreFinite, SumIsNat
<1> QED
  BY <1>3, Measures, MagnitudeFacts

\* What scaling makes of the measures of a book.
LEMMA TargetMeasures ==
  ASSUME NEW w \in [Symbols -> Nat], NEW c, NEW held \in [Symbols -> Int]
  PROVE  LET t == ScaledTowardCash(w, Tightest(Scales(w, c, held)))
         IN  /\ t \in [Symbols -> Nat]
             /\ \A s \in Symbols : t[s] <= w[s]
             /\ Gross(t) <= effective_exposure_ceiling
             /\ portfolio_beta(t) <= Policy.max_portfolio_beta * WeightUnit + BetaGain
             /\ portfolio_volatility(t) <= VolatilityCeiling(c, held)
             /\ \A x \in Sectors : SectorExposure(t, x) <= SectorExposure(w, x)
<1> DEFINE f == Tightest(Scales(w, c, held))
           t == ScaledTowardCash(w, f)
           n == f[1]
           d == f[2]
           E == effective_exposure_ceiling
           B == Policy.max_portfolio_beta * WeightUnit
           V == VolatilityCeiling(c, held)
<1>1. f \in Factors /\ n <= d /\ n * Gross(w) <= E * d
      /\ n * portfolio_beta(w) <= B * d /\ n * portfolio_volatility(w) <= V * d
  BY ScaleType
<1>2. E \in Nat /\ B \in Nat /\ V \in Nat
  BY CeilingTypes
<1> HIDE DEF f, E, B, V
<1>3. n \in Nat /\ d \in Nat \ {0}
  BY <1>1 DEF Factors
<1>4. t \in [Symbols -> Nat]
      /\ \A s \in Symbols : t[s] <= w[s] /\ t[s] * d <= w[s] * n
                           /\ w[s] * n < t[s] * d + d
  BY <1>1, ScaledTerms
<1> HIDE DEF t, n, d
<1>5. /\ w \in [Symbols -> Int] /\ t \in [Symbols -> Int]
      /\ Beta \in [Symbols -> Int] /\ Loading \in [Symbols -> Nat]
      /\ Loading \in [Symbols -> Int]
  BY <1>4, RiskAssumption
<1>6. Gross(t) <= E
  <2>1. n * Total(w, Symbols) <= E * d
    BY <1>1, Measures DEF n, d
  <2>2. \A s \in Symbols : w[s] \in Int /\ t[s] \in Int /\ t[s] * d <= w[s] * n
    BY <1>4, <1>5
  <2>3. Total(t, Symbols) <= E
    <3>1. E \in Int /\ IsFiniteSet(Symbols)
      BY <1>2, SymbolsAreFinite
    <3> QED
      BY ONLY <1>3, <2>1, <2>2, <3>1, SumScaled
  <2> QED
    BY <2>3, Measures
<1>7. portfolio_volatility(t) <= V
  <2>1. n * Total(Terms(w, Loading), Symbols) <= V * d
    BY <1>1, VolatilityIsSum DEF n, d
  <2>0. /\ \A s \in Symbols : /\ Terms(w, Loading)[s] \in Int
                             /\ Terms(w, Loading)[s] = w[s] * Loading[s]
        /\ \A s \in Symbols : /\ Terms(t, Loading)[s] \in Int
                             /\ Terms(t, Loading)[s] = t[s] * Loading[s]
    BY <1>5, TermsType
  <2>2. ASSUME NEW s \in Symbols
        PROVE  /\ Terms(w, Loading)[s] \in Int /\ Terms(t, Loading)[s] \in Int
               /\ Terms(t, Loading)[s] * d <= Terms(w, Loading)[s] * n
    <3>1. /\ Terms(w, Loading)[s] \in Int /\ Terms(w, Loading)[s] = w[s] * Loading[s]
          /\ Terms(t, Loading)[s] \in Int /\ Terms(t, Loading)[s] = t[s] * Loading[s]
      BY <2>0
    <3>2. t[s] \in Int /\ w[s] \in Int /\ Loading[s] \in Nat /\ t[s] * d <= w[s] * n
      BY <1>4, <1>5
    <3>3. (t[s] * Loading[s]) * d <= (w[s] * Loading[s]) * n
      BY <1>3, <3>2, TermScaled
    <3> QED
      BY <3>1, <3>3
  <2>3. Total(Terms(t, Loading), Symbols) <= V
    BY <1>2, <1>3, <2>1, <2>2, SymbolsAreFinite, SumScaled
  <2> QED
    BY <1>4, <2>3, VolatilityIsSum
<1>8. portfolio_beta(t) <= B + BetaGain
  <2> DEFINE h == [s \in Symbols |-> Terms(t, Beta)[s] - Gains[s]]
  <2>1. n * Total(Terms(w, Beta), Symbols) <= B * d
    BY <1>1, Measures DEF n, d
  <2>0. /\ \A s \in Symbols : /\ Terms(w, Beta)[s] \in Int
                             /\ Terms(w, Beta)[s] = w[s] * Beta[s]
        /\ \A s \in Symbols : /\ Terms(t, Beta)[s] \in Int
                             /\ Terms(t, Beta)[s] = t[s] * Beta[s]
        /\ \A s \in Symbols : /\ Gains[s] \in Nat
                             /\ Gains[s] = (IF Beta[s] < 0 THEN -Beta[s] ELSE 0)
    BY <1>5, TermsType, GainsType
  <2>2. ASSUME NEW s \in Symbols
        PROVE  /\ Terms(w, Beta)[s] \in Int /\ Terms(t, Beta)[s] \in Int
               /\ Gains[s] \in Nat
               /\ h[s] \in Int
               /\ Terms(t, Beta)[s] = h[s] + Gains[s]
               /\ h[s] * d <= Terms(w, Beta)[s] * n
    <3>1. /\ Terms(w, Beta)[s] \in Int /\ Terms(w, Beta)[s] = w[s] * Beta[s]
          /\ Terms(t, Beta)[s] \in Int /\ Terms(t, Beta)[s] = t[s] * Beta[s]
          /\ Gains[s] \in Nat /\ Gains[s] = (IF Beta[s] < 0 THEN -Beta[s] ELSE 0)
      BY <2>0
    <3>2. /\ t[s] \in Int /\ w[s] \in Int /\ Beta[s] \in Int
          /\ t[s] * d <= w[s] * n /\ w[s] * n <= t[s] * d + d
      <4>1. w[s] * n < t[s] * d + d /\ w[s] \in Int /\ t[s] \in Int
        BY <1>4, <1>5
      <4>2. w[s] * n \in Int /\ t[s] * d \in Int
        BY <1>3, <4>1
      <4> QED
        BY <1>3, <1>4, <1>5, <4>1, <4>2
    <3>3. h[s] = Terms(t, Beta)[s] - Gains[s]
      OBVIOUS
    <3> HIDE DEF h
    <3>4. CASE Beta[s] < 0
      <4>1. (t[s] * Beta[s] - (-Beta[s])) * d <= (w[s] * Beta[s]) * n
        BY <1>3, <3>2, <3>4, TermGains
      <4>2. h[s] = t[s] * Beta[s] - (-Beta[s])
        BY <3>1, <3>3, <3>4
      <4> QED
        BY <3>1, <3>3, <4>1, <4>2
    <3>5. CASE ~ (Beta[s] < 0)
      <4>1. Beta[s] \in Nat
        BY <3>2, <3>5
      <4>2. (t[s] * Beta[s]) * d <= (w[s] * Beta[s]) * n
        BY <1>3, <3>2, <4>1, TermScaled
      <4>3. h[s] = t[s] * Beta[s]
        BY <3>1, <3>3, <3>5
      <4> QED
        BY <3>1, <3>3, <4>2, <4>3
    <3> QED
      BY <3>4, <3>5
  <2> HIDE DEF h
  <2>3. Total(h, Symbols) <= B
    BY <1>2, <1>3, <2>1, <2>2, SymbolsAreFinite, SumScaled
  <2>4. Total(Terms(t, Beta), Symbols) = Total(h, Symbols) + Total(Gains, Symbols)
    BY <2>2, SymbolsAreFinite, SumPlus
  <2>5. Total(h, Symbols) \in Int /\ Total(Gains, Symbols) \in Int
    BY <2>2, SymbolsAreFinite, SumIsInt
  <2> QED
    BY <1>2, <2>3, <2>4, <2>5, Measures, GainMeasure
<1>9. ASSUME NEW x \in Sectors PROVE SectorExposure(t, x) <= SectorExposure(w, x)
  <2>1. \A s \in Symbols : /\ InSector(w, x)[s] \in Int /\ InSector(t, x)[s] \in Int
                          /\ InSector(t, x)[s] <= InSector(w, x)[s]
    <3>1. \A s \in Symbols : /\ InSector(w, x)[s] = (IF Sector[s] = x THEN w[s] ELSE 0)
                            /\ InSector(t, x)[s] = (IF Sector[s] = x THEN t[s] ELSE 0)
                            /\ InSector(w, x)[s] \in Int /\ InSector(t, x)[s] \in Int
      BY <1>5, InSectorType
    <3> QED
      BY <1>4, <3>1
  <2>2. Total(InSector(t, x), Symbols) <= Total(InSector(w, x), Symbols)
    BY <2>1, SymbolsAreFinite, SumMonotone
  <2> QED
    BY <2>2, SectorMeasure
<1> QED
  BY <1>4, <1>6, <1>7, <1>8, <1>9 DEF f, t, E, B, V

-----------------------------------------------------------------------------
(* The cap on turnover.                                                    *)

\* The book w is n / d of the way from v to t, weight by weight rounded down.
PartOfTheWay(w, v, t, n, d) ==
  /\ w \in [Symbols -> Int]
  /\ n \in Nat /\ d \in Nat \ {0} /\ n <= d
  /\ \A s \in Symbols : /\ w[s] * d <= v[s] * (d - n) + t[s] * n
                        /\ v[s] * (d - n) + t[s] * n <= w[s] * d + d - 1

LEMMA TradedIsNat ==
  ASSUME NEW v \in [Symbols -> Int], NEW t \in [Symbols -> Int]
  PROVE  /\ Traded(v, t) \in Nat
         /\ \A s \in Symbols : /\ Moves(v, t)[s] = Magnitude(t[s] - v[s])
                               /\ Moves(v, t)[s] \in Nat
<1>1. \A s \in Symbols : Magnitude(t[s] - v[s]) \in Nat
  BY MagnitudeFacts
<1>2. \A s \in Symbols : /\ Moves(v, t)[s] = Magnitude(t[s] - v[s])
                        /\ Moves(v, t)[s] \in Nat
  BY <1>1 DEF Moves
<1> QED
  BY <1>2, SymbolsAreFinite, SumIsNat, TradedMeasure

LEMMA BlendGoesPartOfTheWay ==
  ASSUME NEW v \in [Symbols -> Int], NEW t \in [Symbols -> Int]
  PROVE  \E n, d : PartOfTheWay(Blend(v, t), v, t, n, d)
<1> DEFINE n == 2 * Policy.max_turnover
           d == Traded(v, t)
           w == Blend(v, t)
<1>1. n \in Nat /\ d \in Nat
  BY PolicyType, TradedIsNat
<1>2. w = IF d <= n THEN t ELSE [s \in Symbols |-> v[s] + ((t[s] - v[s]) * n) \div d]
  BY DEF Blend
<1> HIDE DEF n, d, w
<1>3. CASE d <= n
  <2>1. w = t
    BY <1>2, <1>3
  <2>2. \A s \in Symbols : v[s] * (1 - 1) = 0 /\ w[s] * 1 = w[s] /\ t[s] * 1 = t[s]
    BY <2>1
  <2>3. \A s \in Symbols : /\ w[s] * 1 <= v[s] * (1 - 1) + t[s] * 1
                          /\ v[s] * (1 - 1) + t[s] * 1 <= w[s] * 1 + 1 - 1
    BY <2>1, <2>2
  <2>4. PartOfTheWay(w, v, t, 1, 1)
    BY <2>1, <2>3 DEF PartOfTheWay
  <2> QED
    BY <2>4 DEF w
<1>4. CASE ~ (d <= n)
  <2>1. d \in Nat \ {0} /\ n <= d
    BY <1>1, <1>4
  <2>2. ASSUME NEW s \in Symbols
        PROVE  /\ w[s] \in Int
               /\ w[s] * d <= v[s] * (d - n) + t[s] * n
               /\ v[s] * (d - n) + t[s] * n <= w[s] * d + d - 1
    <3> DEFINE a == (t[s] - v[s]) * n
               q == a \div d
               x == v[s]
    <3>1. a \in Int /\ x \in Int /\ t[s] \in Int
      BY <1>1
    <3>2. w[s] = x + q
      BY <1>2, <1>4
    <3>3. v[s] * (d - n) + t[s] * n = x * d + a
      BY <1>1
    <3> HIDE DEF a, x
    <3>4. q \in Int /\ q * d <= a /\ a < q * d + d
      BY <2>1, <3>1, RoundedDown
    <3> HIDE DEF q
    <3>5. /\ (x + q) * d = x * d + q * d
          /\ x * d \in Int /\ q * d \in Int
      BY <2>1, <3>1, <3>4
    <3>6. w[s] * d = x * d + q * d
      BY <3>2, <3>5
    <3> QED
      BY <2>1, <3>1, <3>2, <3>3, <3>4, <3>5, <3>6
  <2>3. w \in [Symbols -> Int]
    <3>1. w = [s \in Symbols |-> w[s]]
      BY <1>2, <1>4
    <3> QED
      BY <2>2, <3>1
  <2>4. PartOfTheWay(w, v, t, n, d)
    BY <1>1, <2>1, <2>2, <2>3 DEF PartOfTheWay
  <2> QED
    BY <2>4 DEF w
<1> QED
  BY <1>3, <1>4

\* A weight part of the way is between the two.
LEMMA StaysBetween ==
  ASSUME NEW x \in Int, NEW y \in Int, NEW z \in Int, NEW n \in Nat,
         NEW d \in Nat \ {0}, n <= d,
         z * d <= x * (d - n) + y * n, x * (d - n) + y * n <= z * d + d - 1,
         NEW m \in Int
  PROVE  /\ x <= m /\ y <= m => z <= m
         /\ m <= x /\ m <= y => m <= z
<1>1. /\ d - n \in Nat /\ m * (d - n) + m * n = m * d
      /\ x * (d - n) \in Int /\ y * n \in Int /\ z * d \in Int /\ m * d \in Int
      /\ m * (d - n) \in Int /\ m * n \in Int
  OBVIOUS
<1>2. ASSUME x <= m, y <= m PROVE z <= m
  <2>1. x * (d - n) <= m * (d - n) /\ y * n <= m * n
    BY <1>1, <1>2, ProductIsMonotone
  <2>2. z * d <= m * d
    BY <1>1, <2>1
  <2> QED
    BY <2>2, Cancels
<1>3. ASSUME m <= x, m <= y PROVE m <= z
  <2>1. m * (d - n) <= x * (d - n) /\ m * n <= y * n
    BY <1>1, <1>3, ProductIsMonotone
  <2>2. m * d <= z * d + d - 1
    BY <1>1, <2>1
  <2>3. SUFFICES ASSUME z + 1 <= m PROVE FALSE
    OBVIOUS
  <2>4. (z + 1) * d <= m * d
    BY <2>3, ProductIsMonotone
  <2>5. (z + 1) * d = z * d + d
    OBVIOUS
  <2> QED
    BY <1>1, <2>2, <2>4, <2>5
<1> QED
  BY <1>2, <1>3

\* One term of a measure, part of the way.
LEMMA TermBlended ==
  ASSUME NEW x \in Int, NEW y \in Int, NEW z \in Int, NEW n \in Nat,
         NEW d \in Nat \ {0}, n <= d, NEW k \in Nat,
         z * d <= x * (d - n) + y * n
  PROVE  (z * k) * d <= (x * k) * (d - n) + (y * k) * n
<1> DEFINE a == x * (d - n) + y * n
           b == z * d
<1>1. a \in Int /\ b \in Int /\ b <= a
  OBVIOUS
<1>2. b * k <= a * k
  <2> HIDE DEF a, b
  <2> QED
    BY <1>1, ProductIsMonotone
<1>3. b * k = (z * k) * d
  OBVIOUS
<1>4. a * k = (x * k) * (d - n) + (y * k) * n
  OBVIOUS
<1> QED
  BY <1>2, <1>3, <1>4

LEMMA TermBlendedGains ==
  ASSUME NEW x \in Int, NEW y \in Int, NEW z \in Int, NEW n \in Nat,
         NEW d \in Nat \ {0}, n <= d, NEW k \in Int, k < 0,
         x * (d - n) + y * n <= z * d + d - 1
  PROVE  (z * k - (-k)) * d <= (x * k) * (d - n) + (y * k) * n
<1> DEFINE a == x * (d - n) + y * n
           b == (z + 1) * d
           j == -k
<1>1. a \in Int /\ b \in Int /\ j \in Nat /\ z * d \in Int
  OBVIOUS
<1>2. b = z * d + d
  OBVIOUS
<1>3. a * j <= b * j
  <2> HIDE DEF a, b, j
  <2> QED
    BY <1>1, <1>2, ProductIsMonotone DEF a
<1>4. b * j = -((z * k - (-k)) * d)
  OBVIOUS
<1>5. a * j = -((x * k) * (d - n) + (y * k) * n)
  OBVIOUS
<1>6. (z * k - (-k)) * d \in Int /\ (x * k) * (d - n) + (y * k) * n \in Int
  OBVIOUS
<1> QED
  BY <1>3, <1>4, <1>5, <1>6

\* A book part of the way from one to another is within every limit on a sum
\* that both of them are within; for the beta, but for what rounding adds.
LEMMA MeasuresBetween ==
  ASSUME NEW v \in [Symbols -> Nat], NEW t \in [Symbols -> Nat],
         NEW w \in [Symbols -> Nat], NEW n, NEW d, PartOfTheWay(w, v, t, n, d),
         NEW m \in Int
  PROVE  /\ Gross(v) <= m /\ Gross(t) <= m => Gross(w) <= m
         /\ portfolio_volatility(v) <= m /\ portfolio_volatility(t) <= m
              => portfolio_volatility(w) <= m
         /\ portfolio_beta(v) <= m /\ portfolio_beta(t) <= m
              => portfolio_beta(w) <= m + BetaGain
         /\ \A x : SectorExposure(v, x) <= m /\ SectorExposure(t, x) <= m
                     => SectorExposure(w, x) <= m
<1>1. /\ n \in Nat /\ d \in Nat \ {0} /\ n <= d
      /\ \A s \in Symbols : /\ w[s] * d <= v[s] * (d - n) + t[s] * n
                           /\ v[s] * (d - n) + t[s] * n <= w[s] * d + d - 1
  BY DEF PartOfTheWay
<1>2. /\ v \in [Symbols -> Int] /\ t \in [Symbols -> Int] /\ w \in [Symbols -> Int]
      /\ \A s \in Symbols : v[s] \in Int /\ t[s] \in Int /\ w[s] \in Int
      /\ Beta \in [Symbols -> Int] /\ Loading \in [Symbols -> Nat]
      /\ Loading \in [Symbols -> Int]
      /\ IsFiniteSet(Symbols)
  BY RiskAssumption, SymbolsAreFinite
<1>2a. n \in Nat /\ d \in Nat \ {0} /\ n <= d /\ m \in Int /\ IsFiniteSet(Symbols)
  BY <1>1, <1>2
<1>3. ASSUME Gross(v) <= m, Gross(t) <= m PROVE Gross(w) <= m
  <2>1. Total(v, Symbols) <= m /\ Total(t, Symbols) <= m
    BY <1>3, Measures
  <2>2. Total(w, Symbols) <= m
    <3>1. \A s \in Symbols : /\ v[s] \in Int /\ t[s] \in Int /\ w[s] \in Int
                            /\ w[s] * d <= v[s] * (d - n) + t[s] * n
      BY <1>1, <1>2
    <3> QED
      BY ONLY <1>2a, <2>1, <3>1, SumBlended
  <2> QED
    BY <2>2, Measures
<1>4. ASSUME portfolio_volatility(v) <= m, portfolio_volatility(t) <= m
      PROVE  portfolio_volatility(w) <= m
  <2>0. /\ \A s \in Symbols : /\ Terms(v, Loading)[s] = v[s] * Loading[s]
                             /\ Terms(v, Loading)[s] \in Int
        /\ \A s \in Symbols : /\ Terms(t, Loading)[s] = t[s] * Loading[s]
                             /\ Terms(t, Loading)[s] \in Int
        /\ \A s \in Symbols : /\ Terms(w, Loading)[s] = w[s] * Loading[s]
                             /\ Terms(w, Loading)[s] \in Int
    BY <1>2, TermsType
  <2>1. /\ Total(Terms(v, Loading), Symbols) <= m
        /\ Total(Terms(t, Loading), Symbols) <= m
    BY <1>4, VolatilityIsSum
  <2>2. \A s \in Symbols :
          Terms(w, Loading)[s] * d
            <= Terms(v, Loading)[s] * (d - n) + Terms(t, Loading)[s] * n
    <3> SUFFICES ASSUME NEW s \in Symbols
                 PROVE  (w[s] * Loading[s]) * d
                          <= (v[s] * Loading[s]) * (d - n) + (t[s] * Loading[s]) * n
      BY <2>0
    <3>1. Loading[s] \in Nat
      BY <1>2
    <3> QED
      BY <1>1, <1>2, <3>1, TermBlended
  <2>3. Total(Terms(w, Loading), Symbols) <= m
    <3>1. \A s \in Symbols :
            /\ Terms(v, Loading)[s] \in Int
            /\ Terms(t, Loading)[s] \in Int
            /\ Terms(w, Loading)[s] \in Int
            /\ Terms(w, Loading)[s] * d
                 <= Terms(v, Loading)[s] * (d - n) + Terms(t, Loading)[s] * n
      BY <2>0, <2>2
    <3> QED
      BY ONLY <1>2a, <2>1, <3>1, SumBlended
  <2> QED
    BY <2>3, VolatilityIsSum
<1>5. ASSUME portfolio_beta(v) <= m, portfolio_beta(t) <= m
      PROVE  portfolio_beta(w) <= m + BetaGain
  <2> DEFINE h == [s \in Symbols |-> Terms(w, Beta)[s] - Gains[s]]
  <2>0. /\ \A s \in Symbols : /\ Terms(v, Beta)[s] = v[s] * Beta[s]
                             /\ Terms(v, Beta)[s] \in Int
        /\ \A s \in Symbols : /\ Terms(t, Beta)[s] = t[s] * Beta[s]
                             /\ Terms(t, Beta)[s] \in Int
        /\ \A s \in Symbols : /\ Terms(w, Beta)[s] = w[s] * Beta[s]
                             /\ Terms(w, Beta)[s] \in Int
        /\ \A s \in Symbols : /\ Gains[s] = (IF Beta[s] < 0 THEN -Beta[s] ELSE 0)
                             /\ Gains[s] \in Nat
    BY <1>2, TermsType, GainsType
  <2>1. Total(Terms(v, Beta), Symbols) <= m /\ Total(Terms(t, Beta), Symbols) <= m
    BY <1>5, Measures
  <2>2. \A s \in Symbols : /\ h[s] = Terms(w, Beta)[s] - Gains[s]
                          /\ h[s] \in Int
                          /\ Terms(w, Beta)[s] = h[s] + Gains[s]
                          /\ Gains[s] \in Int
    BY <2>0
  <2> HIDE DEF h
  <2>3. \A s \in Symbols :
          h[s] * d <= Terms(v, Beta)[s] * (d - n) + Terms(t, Beta)[s] * n
    <3> SUFFICES ASSUME NEW s \in Symbols
                 PROVE  h[s] * d <= (v[s] * Beta[s]) * (d - n) + (t[s] * Beta[s]) * n
      BY <2>0
    <3>1. Beta[s] \in Int
      BY <1>2
    <3>2. CASE Beta[s] < 0
      <4>1. h[s] = w[s] * Beta[s] - (-Beta[s])
        BY <2>0, <2>2, <3>2
      <4>2. (w[s] * Beta[s] - (-Beta[s])) * d
              <= (v[s] * Beta[s]) * (d - n) + (t[s] * Beta[s]) * n
        BY <1>1, <1>2, <3>1, <3>2, TermBlendedGains
      <4> QED
        BY <4>1, <4>2
    <3>3. CASE ~ (Beta[s] < 0)
      <4>1. h[s] = w[s] * Beta[s] /\ Beta[s] \in Nat
        BY <2>0, <2>2, <3>1, <3>3
      <4>2. (w[s] * Beta[s]) * d <= (v[s] * Beta[s]) * (d - n) + (t[s] * Beta[s]) * n
        BY <1>1, <1>2, <4>1, TermBlended
      <4> QED
        BY <4>1, <4>2
    <3> QED
      BY <3>2, <3>3
  <2>4. Total(h, Symbols) <= m
    <3>1. \A s \in Symbols :
            /\ Terms(v, Beta)[s] \in Int /\ Terms(t, Beta)[s] \in Int /\ h[s] \in Int
            /\ h[s] * d <= Terms(v, Beta)[s] * (d - n) + Terms(t, Beta)[s] * n
      BY <2>0, <2>2, <2>3
    <3> QED
      BY ONLY <1>2a, <2>1, <3>1, SumBlended
  <2>5. Total(Terms(w, Beta), Symbols) = Total(h, Symbols) + Total(Gains, Symbols)
    BY <1>2, <2>0, <2>2, SumPlus
  <2>6. Total(h, Symbols) \in Int /\ Total(Gains, Symbols) \in Int
    BY <1>2, <2>2, SumIsInt
  <2> QED
    BY <2>4, <2>5, <2>6, Measures, GainMeasure
<1>6. ASSUME NEW x, SectorExposure(v, x) <= m, SectorExposure(t, x) <= m
      PROVE  SectorExposure(w, x) <= m
  <2>0. /\ \A s \in Symbols : /\ InSector(v, x)[s] = (IF Sector[s] = x THEN v[s] ELSE 0)
                             /\ InSector(v, x)[s] \in Int
        /\ \A s \in Symbols : /\ InSector(t, x)[s] = (IF Sector[s] = x THEN t[s] ELSE 0)
                             /\ InSector(t, x)[s] \in Int
        /\ \A s \in Symbols : /\ InSector(w, x)[s] = (IF Sector[s] = x THEN w[s] ELSE 0)
                             /\ InSector(w, x)[s] \in Int
    BY <1>2, InSectorType
  <2>1. Total(InSector(v, x), Symbols) <= m /\ Total(InSector(t, x), Symbols) <= m
    BY <1>6, SectorMeasure
  <2>2. \A s \in Symbols :
          InSector(w, x)[s] * d <= InSector(v, x)[s] * (d - n) + InSector(t, x)[s] * n
    <3> SUFFICES ASSUME NEW s \in Symbols
                 PROVE  InSector(w, x)[s] * d
                          <= InSector(v, x)[s] * (d - n) + InSector(t, x)[s] * n
      OBVIOUS
    <3>1. CASE Sector[s] = x
      <4>1. InSector(v, x)[s] = v[s] /\ InSector(t, x)[s] = t[s] /\ InSector(w, x)[s] = w[s]
        BY <2>0, <3>1
      <4> QED
        BY <1>1, <4>1
    <3>2. CASE Sector[s] # x
      <4>1. InSector(v, x)[s] = 0 /\ InSector(t, x)[s] = 0 /\ InSector(w, x)[s] = 0
        BY <2>0, <3>2
      <4>2. 0 * d = 0 /\ 0 * (d - n) = 0 /\ 0 * n = 0
        BY <1>1
      <4> QED
        BY <4>1, <4>2
    <3> QED
      BY <3>1, <3>2
  <2>3. Total(InSector(w, x), Symbols) <= m
    <3>1. \A s \in Symbols :
            /\ InSector(v, x)[s] \in Int
            /\ InSector(t, x)[s] \in Int
            /\ InSector(w, x)[s] \in Int
            /\ InSector(w, x)[s] * d
                 <= InSector(v, x)[s] * (d - n) + InSector(t, x)[s] * n
      BY <2>0, <2>2
    <3> QED
      BY ONLY <1>2a, <2>1, <3>1, SumBlended
  <2> QED
    BY <2>3, SectorMeasure
<1> QED
  BY <1>3, <1>4, <1>5, <1>6

\* What is traded on the way is within the cap, but for rounding.
LEMMA BlendWithinCap ==
  ASSUME NEW v \in [Symbols -> Int], NEW t \in [Symbols -> Int]
  PROVE  Traded(v, Blend(v, t)) <= 2 * Policy.max_turnover + NumSymbols
<1> DEFINE n == 2 * Policy.max_turnover
           d == Traded(v, t)
           w == Blend(v, t)
<1>1. n \in Nat /\ d \in Nat /\ NumSymbols \in Nat
  BY PolicyType, RiskAssumption, TradedIsNat
<1>2. w = IF d <= n THEN t ELSE [s \in Symbols |-> v[s] + ((t[s] - v[s]) * n) \div d]
  BY DEF Blend
<1>3. d = Total(Moves(v, t), Symbols)
  BY TradedMeasure
<1>4. w \in [Symbols -> Int]
  BY BlendGoesPartOfTheWay DEF PartOfTheWay
<1> HIDE DEF n, d, w
<1>5. CASE d <= n
  <2>1. Traded(v, w) = d
    BY <1>2, <1>5 DEF d
  <2> QED
    BY <1>1, <1>5, <2>1 DEF n, w
<1>6. CASE ~ (d <= n)
  <2> DEFINE one == [s \in Symbols |-> 1]
             h == [s \in Symbols |-> Moves(v, w)[s] - 1]
  <2>1. d \in Nat \ {0}
    BY <1>1, <1>6
  <2>2. \A s \in Symbols : /\ Moves(v, w)[s] = Magnitude(w[s] - v[s])
                          /\ Moves(v, w)[s] \in Nat
    BY <1>4, TradedIsNat
  <2>3. \A s \in Symbols : /\ Moves(v, t)[s] = Magnitude(t[s] - v[s])
                          /\ Moves(v, t)[s] \in Nat
    BY TradedIsNat
  <2>4. \A s \in Symbols : /\ h[s] = Moves(v, w)[s] - 1
                          /\ h[s] \in Int
                          /\ one[s] = 1
                          /\ one[s] \in Int
                          /\ Moves(v, w)[s] = h[s] + one[s]
    BY <2>2
  <2> HIDE DEF one, h
  <2>5. ASSUME NEW s \in Symbols PROVE h[s] * d <= Moves(v, t)[s] * n
    <3> DEFINE a == t[s] - v[s]
               q == (a * n) \div d
    <3>1. a \in Int /\ a * n \in Int
      BY <1>1
    <3>2. w[s] - v[s] = q
      <4>1. w[s] = v[s] + q
        BY <1>2, <1>6
      <4>2. q \in Int
        BY <2>1, <3>1, RoundedDown
      <4> HIDE DEF q
      <4> QED
        BY <4>1, <4>2
    <3> HIDE DEF a
    <3>3. q \in Int /\ q * d <= a * n /\ a * n < q * d + d
      <4> DEFINE p == a * n
      <4>1. p \in Int
        BY <3>1
      <4> HIDE DEF p
      <4>2. p \div d \in Int /\ (p \div d) * d <= p /\ p < (p \div d) * d + d
        BY <2>1, <4>1, RoundedDown
      <4> QED
        BY <4>2 DEF p
    <3>4. h[s] = Magnitude(q) - 1 /\ Moves(v, t)[s] = Magnitude(a)
      BY <2>2, <2>3, <2>4, <3>2 DEF a
    <3> HIDE DEF q
    <3>5. CASE a >= 0
      <4>1. a * n \in Nat
        BY <1>1, <3>1, <3>5, ProductIsNat
      <4>2. SUFFICES ASSUME TRUE PROVE (Magnitude(q) - 1) * d <= a * n
        BY <3>1, <3>4, <3>5, MagnitudeFacts
      <4>3. q >= 0
        <5>1. SUFFICES ASSUME q + 1 <= 0 PROVE FALSE
          BY <3>3
        <5>2. (q + 1) * d <= 0 * d
          BY <2>1, <3>3, <5>1, ProductIsMonotone
        <5>3. (q + 1) * d = q * d + d /\ 0 * d = 0 /\ q * d \in Int
          BY <2>1, <3>3
        <5> QED
          BY <2>1, <3>3, <4>1, <5>2, <5>3
      <4>4. Magnitude(q) = q
        BY <3>3, <4>3, MagnitudeFacts
      <4>5. (q - 1) * d = q * d - d /\ q * d \in Int
        BY <2>1, <3>3
      <4> QED
        BY <2>1, <3>1, <3>3, <4>4, <4>5
    <3>6. CASE a < 0
      <4>1. Magnitude(a) = -a /\ (-a) * n = -(a * n)
        BY <1>1, <3>1, <3>6, MagnitudeFacts
      <4>2. q <= 0
        <5>1. SUFFICES ASSUME 1 <= q PROVE FALSE
          BY <3>3
        <5>2. 1 * d <= q * d
          BY <2>1, <3>3, <5>1, ProductIsMonotone
        <5>3. a * n <= 0 * n
          BY <1>1, <3>1, <3>6, ProductIsMonotone
        <5>4. 1 * d = d /\ 0 * n = 0 /\ q * d \in Int
          BY <1>1, <2>1, <3>3
        <5> QED
          BY <2>1, <3>1, <3>3, <5>2, <5>3, <5>4
      <4>3. Magnitude(q) = -q
        BY <3>3, <4>2 DEF Magnitude
      <4>4. (-q - 1) * d = -(q * d) - d /\ q * d \in Int
        BY <2>1, <3>3
      <4> QED
        BY <2>1, <3>1, <3>3, <3>4, <4>1, <4>3, <4>4
    <3> QED
      BY <3>1, <3>5, <3>6
  <2>6. Total(h, Symbols) <= n
    <3>1. n * Total(Moves(v, t), Symbols) <= n * d
      <4>1. n * d \in Int
        BY <1>1
      <4> QED
        BY <1>3, <4>1
    <3>2. n \in Int /\ IsFiniteSet(Symbols)
      BY <1>1, SymbolsAreFinite
    <3>3. \A s \in Symbols : /\ Moves(v, t)[s] \in Int
                            /\ h[s] \in Int
                            /\ h[s] * d <= Moves(v, t)[s] * n
      BY <2>3, <2>4, <2>5
    <3> QED
      BY ONLY <1>1, <2>1, <3>1, <3>2, <3>3, SumScaled
  <2>7. Total(one, Symbols) = NumSymbols
    BY <2>4, SymbolsAreFinite, SumOfOnes
  <2>8. Total(Moves(v, w), Symbols) = Total(h, Symbols) + Total(one, Symbols)
    BY <2>4, SymbolsAreFinite, SumPlus
  <2>9. Total(h, Symbols) \in Int
    BY <2>4, SymbolsAreFinite, SumIsInt
  <2> QED
    BY <1>1, <2>6, <2>7, <2>8, <2>9, TradedMeasure DEF n, w
<1> QED
  BY <1>5, <1>6

-----------------------------------------------------------------------------
(* The gate.                                                               *)

\* What the gate checks of a book, but for the safety-first floor.
Passes(w, blocked) ==
  /\ \A s \in Symbols : /\ ~ (w[s] < -Tolerance)
                        /\ ~ (w[s] > Policy.max_position_weight + Tolerance)
                        /\ w[s] # 0 => s \in Universe
                        /\ w[s] > Tolerance => s \notin blocked
  /\ \A c \in Sectors : ~ (SectorExposure(w, c) > Policy.max_sector_weight + Tolerance)
  /\ ~ (Gross(w) > Policy.max_gross_exposure + Tolerance)
  /\ ~ (WeightUnit - Gross(w) < Policy.min_cash_buffer - Tolerance)
  /\ ~ (portfolio_beta(w) > (Policy.max_portfolio_beta + Tolerance) * WeightUnit)
  /\ ~ (portfolio_volatility(w)
          > (Policy.max_annualized_volatility + Tolerance) * WeightUnit)

LEMMA GateLetsThrough ==
  ASSUME NEW w, NEW blocked, Passes(w, blocked)
  PROVE  verify(w, blocked) \subseteq {"SAFETY_FIRST_THRESHOLD"}
BY DEF Passes, verify

LEMMA GateHasChecked ==
  ASSUME NEW w, NEW blocked, verify(w, blocked) = {}
  PROVE  Passes(w, blocked)
<1>1. \A code : code \notin verify(w, blocked)
  OBVIOUS
<1>2. ASSUME NEW s \in Symbols
      PROVE  /\ ~ (w[s] < -Tolerance)
             /\ ~ (w[s] > Policy.max_position_weight + Tolerance)
             /\ w[s] # 0 => s \in Universe
             /\ w[s] > Tolerance => s \notin blocked
  <2>1. /\ "NO_SHORTING" \notin verify(w, blocked)
        /\ "MAX_POSITION_WEIGHT" \notin verify(w, blocked)
        /\ "UNIVERSE_WHITELIST" \notin verify(w, blocked)
        /\ "WASH_SALE_WINDOW" \notin verify(w, blocked)
    BY <1>1
  <2> QED
    BY <2>1 DEF verify
<1>3. ASSUME NEW c \in Sectors
      PROVE  ~ (SectorExposure(w, c) > Policy.max_sector_weight + Tolerance)
  <2>1. "MAX_SECTOR_WEIGHT" \notin verify(w, blocked)
    BY <1>1
  <2> QED
    BY <2>1 DEF verify
<1>4. /\ "NO_LEVERAGE" \notin verify(w, blocked)
      /\ "MIN_CASH_BUFFER" \notin verify(w, blocked)
      /\ "MAX_PORTFOLIO_BETA" \notin verify(w, blocked)
      /\ "MAX_VOLATILITY" \notin verify(w, blocked)
  BY <1>1
<1>5. /\ ~ (Gross(w) > Policy.max_gross_exposure + Tolerance)
      /\ ~ (WeightUnit - Gross(w) < Policy.min_cash_buffer - Tolerance)
  BY <1>4 DEF verify
<1>6. /\ ~ (portfolio_beta(w) > (Policy.max_portfolio_beta + Tolerance) * WeightUnit)
      /\ ~ (portfolio_volatility(w)
              > (Policy.max_annualized_volatility + Tolerance) * WeightUnit)
  BY <1>4 DEF verify
<1> QED
  BY <1>2, <1>3, <1>5, <1>6 DEF Passes

-----------------------------------------------------------------------------
(* The target and the weights of a cycle pass it.                          *)

Sectored(c) == SectorCapped(PositionCapped(LongOnly(Investable(c))))

Target(c, held) ==
  ScaledTowardCash(Sectored(c), Tightest(Scales(Sectored(c), c, held)))

\* What the repairs guarantee of a target.
LEMMA TargetRepaired ==
  ASSUME NEW c \in Contexts, NEW held \in [Symbols -> Int]
  PROVE  LET t == Target(c, held)
         IN  /\ t \in [Symbols -> Nat]
             /\ \A s \in Symbols :
                  /\ t[s] <= Policy.max_position_weight
                  /\ s \notin Universe \/ s \in c.blocked => t[s] = 0
             /\ \A x \in Sectors : SectorExposure(t, x) <= Policy.max_sector_weight
             /\ Gross(t) <= effective_exposure_ceiling
             /\ portfolio_beta(t) <= Policy.max_portfolio_beta * WeightUnit + BetaGain
             /\ portfolio_volatility(t) <= VolatilityCeiling(c, held)
<1> DEFINE v == PositionCapped(LongOnly(Investable(c)))
           w == SectorCapped(v)
           t == ScaledTowardCash(w, Tightest(Scales(w, c, held)))
<1>1. Target(c, held) = t
  BY DEF Target, Sectored
<1>2. /\ v \in [Symbols -> Nat]
      /\ \A s \in Symbols : /\ v[s] <= Policy.max_position_weight
                            /\ s \notin Universe \/ s \in c.blocked => v[s] = 0
  BY NamedType
<1> HIDE DEF v
<1>3. /\ w \in [Symbols -> Nat]
      /\ \A s \in Symbols : w[s] <= v[s]
      /\ \A x \in Sectors : SectorExposure(w, x) <= Policy.max_sector_weight
  BY <1>2, SectoredType
<1> HIDE DEF w
<1>4. /\ t \in [Symbols -> Nat]
      /\ \A s \in Symbols : t[s] <= w[s]
      /\ Gross(t) <= effective_exposure_ceiling
      /\ portfolio_beta(t) <= Policy.max_portfolio_beta * WeightUnit + BetaGain
      /\ portfolio_volatility(t) <= VolatilityCeiling(c, held)
      /\ \A x \in Sectors : SectorExposure(t, x) <= SectorExposure(w, x)
  BY <1>3, TargetMeasures
<1> HIDE DEF t
<1>5. ASSUME NEW s \in Symbols
      PROVE  /\ t[s] <= Policy.max_position_weight
             /\ s \notin Universe \/ s \in c.blocked => t[s] = 0
  <2>1. t[s] \in Nat /\ w[s] \in Nat /\ v[s] \in Nat /\ t[s] <= w[s] /\ w[s] <= v[s]
    BY <1>2, <1>3, <1>4
  <2> QED
    BY <1>2, <2>1, PolicyType
<1>6. ASSUME NEW x \in Sectors
      PROVE  SectorExposure(t, x) <= Policy.max_sector_weight
  <2>1. w \in [Symbols -> Int] /\ t \in [Symbols -> Int]
    BY <1>3, <1>4
  <2>2. SectorExposure(w, x) \in Int /\ SectorExposure(t, x) \in Int
    BY <2>1, MeasuresType
  <2> QED
    BY <1>3, <1>4, <2>2, PolicyType
<1> QED
  BY <1>1, <1>4, <1>5, <1>6

\* Products of limits with the unit, and the room there is for rounding.
LEMMA RoomForRounding ==
  /\ (Policy.max_portfolio_beta + Tolerance) * WeightUnit
       = Policy.max_portfolio_beta * WeightUnit + Tolerance * WeightUnit
  /\ (Policy.max_annualized_volatility + Tolerance) * WeightUnit
       = Policy.max_annualized_volatility * WeightUnit + Tolerance * WeightUnit
  /\ Policy.max_portfolio_beta * WeightUnit \in Nat
  /\ Policy.max_annualized_volatility * WeightUnit \in Nat
  /\ Tolerance * WeightUnit \in Nat
  /\ BetaGain \in Nat
  /\ BetaGain + BetaGain <= Tolerance * WeightUnit
<1>1. WeightUnit \in Nat /\ Tolerance \in Nat
  BY RiskAssumption
<1>2. BetaGain \in Nat
  <2>1. [s \in Symbols |-> 0] \in [Symbols -> Int]
    OBVIOUS
  <2> QED
    BY <2>1, MeasuresType
<1>3. /\ (Policy.max_portfolio_beta + Tolerance) * WeightUnit
           = Policy.max_portfolio_beta * WeightUnit + Tolerance * WeightUnit
      /\ (Policy.max_annualized_volatility + Tolerance) * WeightUnit
           = Policy.max_annualized_volatility * WeightUnit + Tolerance * WeightUnit
  BY <1>1, PolicyType
<1>4. /\ Policy.max_portfolio_beta * WeightUnit \in Nat
      /\ Policy.max_annualized_volatility * WeightUnit \in Nat
      /\ Tolerance * WeightUnit \in Nat
  BY <1>1, PolicyType, ProductIsNat
<1>5. BetaGain + BetaGain <= Tolerance * WeightUnit
  BY <1>2, ToleranceCoversRounding
<1> QED
  BY <1>2, <1>3, <1>4, <1>5

LEMMA TargetPasses ==
  ASSUME NEW c \in Contexts, NEW held \in [Symbols -> Int]
  PROVE  Passes(Target(c, held), c.blocked)
<1> DEFINE t == Target(c, held)
<1>1. /\ t \in [Symbols -> Nat] /\ t \in [Symbols -> Int]
      /\ \A s \in Symbols : /\ t[s] <= Policy.max_position_weight
                            /\ s \notin Universe \/ s \in c.blocked => t[s] = 0
      /\ \A x \in Sectors : SectorExposure(t, x) <= Policy.max_sector_weight
      /\ Gross(t) <= effective_exposure_ceiling
      /\ portfolio_beta(t) <= Policy.max_portfolio_beta * WeightUnit + BetaGain
      /\ portfolio_volatility(t) <= VolatilityCeiling(c, held)
  BY TargetRepaired
<1> HIDE DEF t
<1>2. /\ Gross(t) \in Int /\ portfolio_beta(t) \in Int /\ portfolio_volatility(t) \in Nat
      /\ \A x : SectorExposure(t, x) \in Int
  BY <1>1, MeasuresType
<1>3. Tolerance \in Nat /\ WeightUnit \in Nat
  BY RiskAssumption
<1>4. ASSUME NEW s \in Symbols
      PROVE  /\ ~ (t[s] < -Tolerance)
             /\ ~ (t[s] > Policy.max_position_weight + Tolerance)
             /\ t[s] # 0 => s \in Universe
             /\ t[s] > Tolerance => s \notin c.blocked
  BY <1>1, <1>3, PolicyType
<1>5. ASSUME NEW x \in Sectors
      PROVE  ~ (SectorExposure(t, x) > Policy.max_sector_weight + Tolerance)
  BY <1>1, <1>2, <1>3, PolicyType
<1>6. /\ ~ (Gross(t) > Policy.max_gross_exposure + Tolerance)
      /\ ~ (WeightUnit - Gross(t) < Policy.min_cash_buffer - Tolerance)
  BY <1>1, <1>2, <1>3, PolicyType, CeilingTypes
<1>7. ~ (portfolio_beta(t) > (Policy.max_portfolio_beta + Tolerance) * WeightUnit)
  BY <1>1, <1>2, RoomForRounding
<1>8. ~ (portfolio_volatility(t)
          > (Policy.max_annualized_volatility + Tolerance) * WeightUnit)
  BY <1>1, <1>2, RoomForRounding, CeilingTypes
<1> QED
  BY <1>4, <1>5, <1>6, <1>7, <1>8 DEF Passes, t

\* A book inside the policy that goes part of the way to a target stays inside.
LEMMA WeightsPass ==
  ASSUME NEW c \in Contexts, NEW v \in [Symbols -> Nat], Inside(v, c.blocked),
         NEW w \in [Symbols -> Nat], NEW n, NEW d,
         PartOfTheWay(w, v, Target(c, v), n, d)
  PROVE  Passes(w, c.blocked)
<1> DEFINE t == Target(c, v)
<1>0. v \in [Symbols -> Int] /\ w \in [Symbols -> Int]
  OBVIOUS
<1>1. /\ t \in [Symbols -> Nat] /\ t \in [Symbols -> Int]
      /\ \A s \in Symbols : /\ t[s] <= Policy.max_position_weight
                            /\ s \notin Universe \/ s \in c.blocked => t[s] = 0
      /\ \A x \in Sectors : SectorExposure(t, x) <= Policy.max_sector_weight
      /\ Gross(t) <= effective_exposure_ceiling
      /\ portfolio_beta(t) <= Policy.max_portfolio_beta * WeightUnit + BetaGain
      /\ portfolio_volatility(t) <= VolatilityCeiling(c, v)
  BY <1>0, TargetRepaired
<1>2. PartOfTheWay(w, v, t, n, d)
  OBVIOUS
<1> HIDE DEF t
<1>3. /\ Passes(v, c.blocked)
      /\ portfolio_beta(v) + BetaGain <= (Policy.max_portfolio_beta + Tolerance) * WeightUnit
  BY GateHasChecked DEF Inside
<1>4. /\ Gross(t) \in Int /\ portfolio_beta(t) \in Int /\ portfolio_volatility(t) \in Nat
      /\ \A x : SectorExposure(t, x) \in Int
  BY <1>1, MeasuresType
<1>5. /\ Gross(v) \in Int /\ portfolio_beta(v) \in Int /\ portfolio_volatility(v) \in Nat
      /\ \A x : SectorExposure(v, x) \in Int
  BY <1>0, MeasuresType
<1>6. /\ Gross(w) \in Int /\ portfolio_beta(w) \in Int /\ portfolio_volatility(w) \in Nat
      /\ \A x : SectorExposure(w, x) \in Int
  BY <1>0, MeasuresType
<1>7. Tolerance \in Nat /\ WeightUnit \in Nat
  BY RiskAssumption
<1>8. ASSUME NEW s \in Symbols
      PROVE  /\ ~ (w[s] < -Tolerance)
             /\ ~ (w[s] > Policy.max_position_weight + Tolerance)
             /\ w[s] # 0 => s \in Universe
             /\ w[s] > Tolerance => s \notin c.blocked
  <2>1. /\ w[s] \in Nat /\ v[s] \in Nat /\ t[s] \in Nat
        /\ v[s] \in Int /\ t[s] \in Int /\ w[s] \in Int
    BY <1>1
  <2>2. \A m \in Int : v[s] <= m /\ t[s] <= m => w[s] <= m
    <3>1. /\ n \in Nat /\ d \in Nat \ {0} /\ n <= d
          /\ w[s] * d <= v[s] * (d - n) + t[s] * n
          /\ v[s] * (d - n) + t[s] * n <= w[s] * d + d - 1
      BY <1>2 DEF PartOfTheWay
    <3> QED
      BY ONLY <2>1, <3>1, StaysBetween
  <2>3. w[s] <= Policy.max_position_weight + Tolerance
    <3>1. v[s] <= Policy.max_position_weight + Tolerance
      BY <1>3, <1>7, <2>1, PolicyType DEF Passes
    <3>2. t[s] <= Policy.max_position_weight + Tolerance
      BY <1>1, <1>7, <2>1, PolicyType
    <3> QED
      BY <1>7, <2>2, <3>1, <3>2, PolicyType
  <2>4. ASSUME s \notin Universe PROVE w[s] = 0
    <3>1. v[s] = 0 /\ t[s] = 0
      BY <1>1, <1>3, <2>4 DEF Passes
    <3>2. w[s] <= 0
      BY <2>2, <3>1
    <3> QED
      BY <2>1, <3>2
  <2>5. ASSUME s \in c.blocked PROVE w[s] <= Tolerance
    <3>1. v[s] <= Tolerance /\ t[s] <= Tolerance
      BY <1>1, <1>3, <1>7, <2>1, <2>5 DEF Passes
    <3> QED
      BY <1>7, <2>2, <3>1
  <2> QED
    BY <1>7, <2>1, <2>3, <2>4, <2>5, PolicyType
<1>9. ASSUME NEW x \in Sectors
      PROVE  ~ (SectorExposure(w, x) > Policy.max_sector_weight + Tolerance)
  <2> DEFINE m == Policy.max_sector_weight + Tolerance
  <2>1. m \in Int
    BY <1>7, PolicyType
  <2>2. SectorExposure(v, x) <= m /\ SectorExposure(t, x) <= m
    BY <1>1, <1>3, <1>4, <1>5, <1>7, PolicyType DEF Passes
  <2> HIDE DEF m
  <2>3. SectorExposure(w, x) <= m
    BY <1>1, <1>2, <2>1, <2>2, MeasuresBetween
  <2> QED
    BY <1>6, <2>1, <2>3 DEF m
<1>10. ~ (Gross(w) > Policy.max_gross_exposure + Tolerance)
  <2> DEFINE m == Policy.max_gross_exposure + Tolerance
  <2>1. m \in Int
    BY <1>7, PolicyType
  <2>2. Gross(v) <= m /\ Gross(t) <= m
    BY <1>0, <1>1, <1>3, <1>4, <1>5, <1>7, PolicyType, CeilingTypes DEF Passes
  <2> HIDE DEF m
  <2>3. Gross(w) <= m
    BY <1>1, <1>2, <2>1, <2>2, MeasuresBetween
  <2> QED
    BY <1>6, <2>1, <2>3 DEF m
<1>11. ~ (WeightUnit - Gross(w) < Policy.min_cash_buffer - Tolerance)
  <2> DEFINE m == WeightUnit - Policy.min_cash_buffer + Tolerance
  <2>1. m \in Int
    BY <1>7, PolicyType
  <2>2. Gross(v) <= m /\ Gross(t) <= m
    BY <1>0, <1>1, <1>3, <1>4, <1>5, <1>7, PolicyType, CeilingTypes DEF Passes
  <2> HIDE DEF m
  <2>3. Gross(w) <= m
    BY <1>1, <1>2, <2>1, <2>2, MeasuresBetween
  <2> QED
    BY <1>6, <1>7, <2>1, <2>3, PolicyType DEF m
<1>12. ~ (portfolio_beta(w) > (Policy.max_portfolio_beta + Tolerance) * WeightUnit)
  <2> DEFINE limit == (Policy.max_portfolio_beta + Tolerance) * WeightUnit
             m == limit - BetaGain
  <2>1. limit \in Int /\ BetaGain \in Nat
        /\ Policy.max_portfolio_beta * WeightUnit + BetaGain + BetaGain <= limit
    BY RoomForRounding
  <2> HIDE DEF limit
  <2>2. m \in Int
    BY <2>1
  <2>3. portfolio_beta(v) <= m /\ portfolio_beta(t) <= m
    BY <1>1, <1>3, <1>4, <1>5, <2>1, RoomForRounding DEF limit
  <2>4. portfolio_beta(w) <= m + BetaGain
    <3> HIDE DEF m
    <3> QED
      BY <1>1, <1>2, <2>2, <2>3, MeasuresBetween
  <2>5. ~ (portfolio_beta(w) > limit)
    BY <1>6, <2>1, <2>2, <2>4
  <2> QED
    BY <2>5 DEF limit
<1>13. ~ (portfolio_volatility(w)
            > (Policy.max_annualized_volatility + Tolerance) * WeightUnit)
  <2> DEFINE m == (Policy.max_annualized_volatility + Tolerance) * WeightUnit
  <2>1. m \in Int /\ Policy.max_annualized_volatility * WeightUnit <= m
    BY RoomForRounding
  <2>2. portfolio_volatility(v) <= m
    BY <1>3, <1>5, <2>1 DEF Passes
  <2>3. portfolio_volatility(t) <= m
    <3> HIDE DEF m
    <3> QED
      BY <1>0, <1>1, <1>4, <2>1, CeilingTypes, RoomForRounding
  <2> HIDE DEF m
  <2>4. portfolio_volatility(w) <= m
    BY <1>1, <1>2, <2>1, <2>2, <2>3, MeasuresBetween
  <2>5. ~ (portfolio_volatility(w) > m)
    BY <1>6, <2>1, <2>4
  <2> QED
    BY <2>5 DEF m
<1> QED
  BY <1>8, <1>9, <1>10, <1>11, <1>12, <1>13 DEF Passes

-----------------------------------------------------------------------------
(* The inductive invariant: books are paid for, and each verdict is right. *)

IInv ==
  /\ TypeOK
  /\ Gross(book) <= WeightUnit
  /\ RepairsStand
  /\ RejectedForCause
  /\ TurnoverHonoured
  /\ BreakerHoldsRisk

LEMMA BlendType ==
  ASSUME NEW v \in [Symbols -> Nat], NEW t \in [Symbols -> Nat]
  PROVE  /\ Blend(v, t) \in [Symbols -> Nat]
         /\ \E n, d : PartOfTheWay(Blend(v, t), v, t, n, d)
<1> DEFINE w == Blend(v, t)
<1>1. v \in [Symbols -> Int] /\ t \in [Symbols -> Int]
  OBVIOUS
<1>2. PICK n, d : PartOfTheWay(w, v, t, n, d)
  BY <1>1, BlendGoesPartOfTheWay
<1> HIDE DEF w
<1>3. w \in [Symbols -> Int]
  BY <1>2 DEF PartOfTheWay
<1>4. ASSUME NEW s \in Symbols PROVE w[s] \in Nat
  <2>1. w[s] \in Int /\ v[s] \in Nat /\ t[s] \in Nat /\ v[s] \in Int /\ t[s] \in Int
    BY <1>3
  <2>2. /\ n \in Nat /\ d \in Nat \ {0} /\ n <= d
        /\ w[s] * d <= v[s] * (d - n) + t[s] * n
        /\ v[s] * (d - n) + t[s] * n <= w[s] * d + d - 1
    BY <1>2 DEF PartOfTheWay
  <2>3. 0 \in Int
    OBVIOUS
  <2>4. 0 <= v[s] /\ 0 <= t[s] => 0 <= w[s]
    BY ONLY <2>1, <2>2, <2>3, StaysBetween
  <2> QED
    BY <2>1, <2>4
<1> QED
  BY <1>2, <1>3, <1>4 DEF w

\* Weights that add up to the unit at most are no more than it each.
LEMMA PaidForType ==
  ASSUME NEW w \in [Symbols -> Nat], Gross(w) <= WeightUnit
  PROVE  w \in [Symbols -> 0..WeightUnit]
<1>1. ASSUME NEW s \in Symbols PROVE w[s] \in 0..WeightUnit
  <2>1. w[s] <= Total(w, Symbols)
    BY SymbolsAreFinite, SumHasPart
  <2>2. Total(w, Symbols) \in Nat
    BY SymbolsAreFinite, SumIsNat
  <2> QED
    BY <2>1, <2>2, RiskAssumption, Measures
<1> QED
  BY <1>1

LEMMA InitIInv == Init => IInv
<1> SUFFICES ASSUME Init PROVE IInv
  OBVIOUS
<1>1. TypeOK
  BY RiskAssumption DEF Init, TypeOK, Decided
<1>2. Gross(book) <= WeightUnit
  BY BooksArePaidFor DEF Init
<1>3. ~ Decided
  BY DEF Init, Decided
<1> QED
  BY <1>1, <1>2, <1>3
  DEF IInv, RepairsStand, RejectedForCause, TurnoverHonoured, BreakerHoldsRisk, Approved

LEMMA CycleKeeps == IInv /\ Cycle => IInv'
<1> SUFFICES ASSUME IInv, Cycle PROVE IInv'
  OBVIOUS
<1> DEFINE t == Target(context, book)
           w == Blend(book, t)
<1>1. /\ verdict' = Assessment(context, book, t, w)
      /\ book' = verdict'.weights
      /\ UNCHANGED <<context, shocks>>
  BY TabulatedIs DEF Cycle, Target, Sectored
<1>2. /\ book \in [Symbols -> 0..WeightUnit] /\ context \in Contexts
      /\ shocks \in 0..MaxShocks /\ Gross(book) <= WeightUnit
  BY DEF IInv, TypeOK
<1>3. book \in [Symbols -> Nat] /\ book \in [Symbols -> Int] /\ WeightUnit \in Nat
  BY <1>2, RiskAssumption
<1>4. /\ t \in [Symbols -> Nat] /\ t \in [Symbols -> Int]
      /\ Gross(t) <= effective_exposure_ceiling
      /\ portfolio_volatility(t) <= VolatilityCeiling(context, book)
  BY <1>2, <1>3, TargetRepaired
<1>5. Passes(t, context.blocked)
  BY <1>2, <1>3, TargetPasses
<1>6. /\ w \in [Symbols -> Nat]
      /\ \E n, d : PartOfTheWay(w, book, t, n, d)
  BY <1>3, <1>4, BlendType
<1>7. \A n, d : /\ Inside(book, context.blocked)
                /\ PartOfTheWay(w, book, t, n, d)
                => Passes(w, context.blocked)
  BY <1>2, <1>3, <1>6, WeightsPass
<1>8. Traded(book, w) <= 2 * Policy.max_turnover + NumSymbols
  BY <1>3, <1>4, BlendWithinCap
<1> HIDE DEF t, w
<1>9. /\ verdict'.context = context /\ verdict'.from = book /\ verdict'.target = t
      /\ verdict'.decision \in {"APPROVED", "MODIFIED", "REJECTED"}
      /\ verdict'.decision # "REJECTED" => verdict'.weights = w
      /\ verdict'.weights \in {book, w}
      /\ \/ verdict'.violations = {"REBALANCE_CORRIDOR"}
         \/ verdict'.violations = verify(w, context.blocked)
  BY <1>1 DEF Assessment
<1>10. Gross(w) <= WeightUnit
  <2>1. w \in [Symbols -> Int]
    BY <1>6
  <2>2. Gross(t) \in Int /\ Gross(w) \in Int
    BY <1>4, <2>1, MeasuresType
  <2>3. Gross(t) <= WeightUnit
    BY <1>3, <1>4, <2>2, PolicyType, CeilingTypes
  <2> QED
    BY <1>2, <1>3, <1>4, <1>6, <2>3, MeasuresBetween
<1>11. TypeOK' /\ Gross(book)' <= WeightUnit
  <2>1. verdict'.weights \in [Symbols -> 0..WeightUnit] /\ Gross(verdict'.weights) <= WeightUnit
    BY <1>2, <1>6, <1>9, <1>10, PaidForType
  <2>2. Gross(book)' = Gross(verdict'.weights)
    BY <1>1 DEF Gross, OverSymbols
  <2> QED
    BY <1>1, <1>2, <1>9, <2>1, <2>2 DEF TypeOK
<1>12. RepairsStand'
  <2>1. verify(t, context.blocked) \subseteq {"SAFETY_FIRST_THRESHOLD"}
    BY <1>5, GateLetsThrough
  <2> QED
    BY <1>9, <2>1 DEF RepairsStand
<1>13. RejectedForCause'
  <2>1. ASSUME Inside(book, context.blocked)
        PROVE  verify(w, context.blocked) \subseteq {"SAFETY_FIRST_THRESHOLD"}
    BY <1>6, <1>7, <2>1, GateLetsThrough
  <2> QED
    BY <1>9, <2>1 DEF RejectedForCause
<1>14. TurnoverHonoured'
  <2>1. Traded(book, w) <= 2 * Policy.max_turnover + Tolerance
    <3>1. Traded(book, w) \in Nat
      BY <1>3, <1>6, TradedIsNat
    <3> QED
      BY <1>8, <3>1, PolicyType, RiskAssumption, ToleranceCoversRounding
  <2> QED
    BY <1>9, <2>1 DEF TurnoverHonoured, Approved
<1>15. BreakerHoldsRisk'
  <2>1. ASSUME context.tripped, portfolio_volatility(book) > 0
        PROVE  portfolio_volatility(w) <= portfolio_volatility(book)
    <3>1. /\ portfolio_volatility(t) \in Nat /\ portfolio_volatility(book) \in Nat
          /\ VolatilityCeiling(context, book) \in Nat
          /\ VolatilityCeiling(context, book) <= portfolio_volatility(book)
      BY <1>3, <1>4, <2>1, MeasuresType, CeilingTypes
    <3>2. portfolio_volatility(t) <= portfolio_volatility(book)
      BY <1>4, <3>1
    <3> QED
      BY <1>3, <1>4, <1>6, <3>1, <3>2, MeasuresBetween
  <2> QED
    BY <1>9, <2>1 DEF BreakerHoldsRisk, Approved
<1> QED
  BY <1>11, <1>12, <1>13, <1>14, <1>15 DEF IInv

\* The price of one symbol moves: the weights are what each holding is now
\* worth, out of what the whole portfolio is.
LEMMA MarketMoveKeeps ==
  ASSUME IInv, NEW s \in Symbols, MarketMove(s)
  PROVE  IInv'
<1>1. PICK f \in {<<1, 2>>, <<2, 1>>} :
        book' = [t \in Symbols |->
                  ((IF t = s THEN (book[s] * f[1]) \div f[2] ELSE book[t]) * WeightUnit)
                    \div (WeightUnit - book[s] + (book[s] * f[1]) \div f[2])]
  BY DEF MarketMove
<1> DEFINE worth == (book[s] * f[1]) \div f[2]
           total == WeightUnit - book[s] + worth
           held == [t \in Symbols |-> IF t = s THEN worth ELSE book[t]]
<1>2. /\ verdict' = NoVerdict /\ UNCHANGED context
      /\ shocks < MaxShocks /\ shocks' = shocks + 1
  BY DEF MarketMove
<1>3. /\ book \in [Symbols -> 0..WeightUnit] /\ context \in Contexts
      /\ shocks \in 0..MaxShocks /\ Gross(book) <= WeightUnit
      /\ WeightUnit \in Nat \ {0, 1} /\ MaxShocks \in Nat
  BY RiskAssumption DEF IInv, TypeOK
<1>4. worth \in Nat /\ (book[s] > 1 => worth > 0)
  <2>1. book[s] \in Nat
    BY <1>3
  <2>2. CASE f = <<1, 2>>
    <3>1. worth = book[s] \div 2
      BY <2>1, <2>2
    <3> QED
      BY <2>1, <3>1
  <2>3. CASE f = <<2, 1>>
    <3>1. worth = book[s] * 2
      BY <2>1, <2>3
    <3> QED
      BY <2>1, <3>1
  <2> QED
    BY <2>2, <2>3
<1> HIDE DEF worth
<1>5. total \in Nat \ {0}
  BY <1>3, <1>4
<1>6. /\ held \in [Symbols -> Nat]
      /\ book' = [t \in Symbols |-> (held[t] * WeightUnit) \div total]
  BY <1>1, <1>3, <1>4 DEF worth
<1>7. Total(held, Symbols) <= total
  <2>1. \A x \in Symbols : /\ book[x] \in Int /\ held[x] \in Int
                           /\ x # s => book[x] = held[x]
    BY <1>3, <1>6
  <2>2. held[s] = worth
    OBVIOUS
  <2> HIDE DEF held
  <2>3. Total(held, Symbols) = Total(book, Symbols) - book[s] + held[s]
    BY <2>1, SymbolsAreFinite, SumMoves
  <2>4. Total(book, Symbols) \in Int /\ Total(book, Symbols) <= WeightUnit
    BY <1>3, <2>1, SymbolsAreFinite, SumIsInt, Measures
  <2> QED
    BY <1>3, <1>4, <2>1, <2>2, <2>3, <2>4
<1> HIDE DEF total, held
<1>8. ASSUME NEW t \in Symbols
      PROVE  book'[t] \in Nat /\ book'[t] * total <= held[t] * WeightUnit
  <2>1. held[t] * WeightUnit \in Nat
    BY <1>3, <1>6, ProductIsNat
  <2> DEFINE p == held[t] * WeightUnit
  <2>2. book'[t] = p \div total /\ p \in Nat /\ p \in Int
    BY <1>6, <2>1
  <2> HIDE DEF p
  <2>3. book'[t] \in Nat /\ book'[t] * total <= p
    BY <1>5, <2>2, QuotientIsNat, RoundedDown
  <2> QED
    BY <2>3 DEF p
<1>9. book' \in [Symbols -> Nat]
  BY <1>6, <1>8
<1>10. Total(book', Symbols) <= WeightUnit
  <2>1. Total(held, Symbols) \in Nat
    BY <1>6, SymbolsAreFinite, SumIsNat
  <2>2. WeightUnit * Total(held, Symbols) <= WeightUnit * total
    <3>1. Total(held, Symbols) * WeightUnit <= total * WeightUnit
      BY <1>3, <1>5, <1>7, <2>1, ProductIsMonotone
    <3> QED
      BY <1>3, <1>5, <2>1, <3>1
  <2>3. /\ WeightUnit \in Nat /\ WeightUnit \in Int /\ IsFiniteSet(Symbols)
        /\ \A t \in Symbols : /\ held[t] \in Int /\ book'[t] \in Int
                              /\ book'[t] * total <= held[t] * WeightUnit
    BY <1>3, <1>6, <1>8, SymbolsAreFinite
  <2> QED
    BY ONLY <1>5, <2>2, <2>3, SumScaled
<1>11. Gross(book)' <= WeightUnit
  BY <1>10 DEF Gross, OverSymbols, Total
<1>12. book' \in [Symbols -> 0..WeightUnit]
  BY <1>9, <1>10, PaidForType, Measures
<1> QED
  BY <1>2, <1>3, <1>11, <1>12
  DEF IInv, TypeOK, Decided, RepairsStand, RejectedForCause, TurnoverHonoured,
      BreakerHoldsRisk, Approved

LEMMA ContextChangeKeeps == IInv /\ ContextChange => IInv'
<1> SUFFICES ASSUME IInv, ContextChange PROVE IInv'
  OBVIOUS
<1>1. /\ verdict' = NoVerdict /\ UNCHANGED book /\ context' \in Contexts
      /\ shocks < MaxShocks /\ shocks' = shocks + 1
  BY DEF ContextChange
<1>2. Gross(book)' = Gross(book)
  BY <1>1 DEF Gross, OverSymbols
<1> QED
  BY <1>1, <1>2, RiskAssumption
  DEF IInv, TypeOK, Decided, RepairsStand, RejectedForCause, TurnoverHonoured,
      BreakerHoldsRisk, Approved

LEMMA NextKeeps == IInv /\ [Next]_vars => IInv'
<1> SUFFICES ASSUME IInv, [Next]_vars PROVE IInv'
  OBVIOUS
<1>1. CASE Cycle
  BY <1>1, CycleKeeps
<1>2. CASE ContextChange
  BY <1>2, ContextChangeKeeps
<1>3. ASSUME NEW s \in Symbols, MarketMove(s) PROVE IInv'
  BY <1>3, MarketMoveKeeps
<1>4. CASE UNCHANGED vars
  <2>1. UNCHANGED <<book, context, verdict, shocks>>
    BY <1>4 DEF vars
  <2>2. Gross(book)' = Gross(book)
    BY <2>1 DEF Gross, OverSymbols
  <2> QED
    BY <2>1, <2>2
    DEF IInv, TypeOK, Decided, RepairsStand, RejectedForCause, TurnoverHonoured,
        BreakerHoldsRisk, Approved
<1> QED
  BY <1>1, <1>2, <1>3, <1>4 DEF Next

LEMMA AlwaysIInv == Spec => []IInv
BY InitIInv, NextKeeps, PTL DEF Spec

-----------------------------------------------------------------------------
(* The theorems.                                                           *)

\* Whatever the optimizer asks for and the market does, the book is long and
\* no weight is more than the portfolio.
THEOREM TypeCorrect == Spec => []TypeOK
<1>1. IInv => TypeOK
  BY DEF IInv
<1> QED
  BY <1>1, AlwaysIInv, PTL

\* What evaluate repairs, no later repair undoes: the target it arrives at, before
\* it is blended toward the book held, fails no check but the safety-first floor
\* (engine.py:13-14).
THEOREM NoRepairUndone == Spec => []RepairsStand
<1>1. IInv => RepairsStand
  BY DEF IInv
<1> QED
  BY <1>1, AlwaysIInv, PTL

\* From inside the policy, only the corridor and the safety-first floor stop a
\* cycle: no step towards a repaired target leads out of the policy.
THEOREM NeverStuckInside == Spec => []RejectedForCause
<1>1. IInv => RejectedForCause
  BY DEF IInv
<1> QED
  BY <1>1, AlwaysIInv, PTL

\* No approved book trades more than the cap on turnover and its rounding.
THEOREM TurnoverIsCapped == Spec => []TurnoverHonoured
<1>1. IInv => TurnoverHonoured
  BY DEF IInv
<1> QED
  BY <1>1, AlwaysIInv, PTL

\* Past the drawdown limit a book that carries risk never carries more after
\* a cycle.
THEOREM BreakerHolds == Spec => []BreakerHoldsRisk
<1>1. IInv => BreakerHoldsRisk
  BY DEF IInv
<1> QED
  BY <1>1, AlwaysIInv, PTL
=============================================================================
