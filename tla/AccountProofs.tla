---------------------------- MODULE AccountProofs ----------------------------
(***************************************************************************)
(* The money of an account and what is told of its record.                 *)
(*                                                                         *)
(* First, simulated execution: type correctness, no overdraft, no short    *)
(* position and the explained drift, for any number of symbols, any        *)
(* markets, books and cost model a sale can pay for.  Then the record: its *)
(* inductive invariant, and that the measures of src/cfa and of            *)
(* src/backtest/metrics.py tell what its holder had, for any returns above *)
(* minus one, any fee agreements and any number of periods; that options,  *)
(* bonds and bills are priced fairly; and that the optimizer of two names  *)
(* chooses efficiently.  The second part rests on Arithmetic: the          *)
(* fractions of Rational are the numbers they stand for.                   *)
(***************************************************************************)
EXTENDS SimulatedExecution, TrackRecord, Arithmetic
-----------------------------------------------------------------------------
(* What size_orders returns for any mandate, holdings, value and prices.   *)

\* A desired share count is a natural number.
LEMMA DesiredIsNat ==
  ASSUME NEW w \in Weights, NEW v \in Nat, NEW p \in Nat \ {0}
  PROVE  DesiredShares(w, v, p) \in Nat
<1>1. w \in Nat /\ WeightUnit \in Nat \ {0}
  BY SizingAssumption DEF Weights
<1>2. w * v \in Nat
  BY <1>1, ProductIsNat
<1>3. WeightUnit * p \in Nat \ {0}
  BY <1>1, ProductIsPositive
<1> QED
  BY <1>2, <1>3, QuotientIsNat DEF DesiredShares

\* Rounding towards zero never overshoots the target weight: the shares wanted
\* are worth no more than their part of the portfolio (base.py:275).
THEOREM DesiredWithinWeight ==
  ASSUME NEW w \in Weights, NEW v \in Nat, NEW p \in Nat \ {0}
  PROVE  DesiredShares(w, v, p) * p * WeightUnit <= w * v
<1> DEFINE a == w * v
           b == WeightUnit * p
           q == a \div b
<1>1. a \in Nat /\ b \in Nat \ {0}
  BY SizingAssumption, ProductIsNat, ProductIsPositive DEF Weights
<1>2. q \in Nat
  BY <1>1, QuotientIsNat
<1>3. q * b <= a
  <2> HIDE DEF a, b
  <2> QED
    BY <1>1
<1>4. q * p * WeightUnit = q * b
  <2> HIDE DEF q
  <2> QED
    BY <1>2, SizingAssumption
<1> QED
  BY <1>3, <1>4 DEF DesiredShares

\* What size_orders computes for one symbol: an order, when it makes one, takes
\* the holding to the desired shares.
LEMMA SizedShares ==
  ASSUME NEW m, m.targets \in Targets, NEW held \in [Symbols -> Int],
         NEW v \in Nat, NEW quoted \in [Symbols -> Nat], NEW s \in Symbols
  PROVE  LET q == SizedQuantity(m, held, v, quoted, s)
             d == IF s \in Priced(m, quoted)
                    THEN DesiredShares(m.targets[s], v, quoted[s])
                    ELSE 0
         IN  /\ q \in Int
             /\ d \in Nat
             /\ q # 0 => d = held[s] + q
<1>1. CASE s \in Priced(m, quoted)
  <2>1. PICK D \in SUBSET Symbols : m.targets \in [D -> Weights]
    BY DEF Targets
  <2>2. m.targets[s] \in Weights /\ quoted[s] \in Nat \ {0}
    BY <1>1, <2>1 DEF Priced, NoPrice
  <2>3. DesiredShares(m.targets[s], v, quoted[s]) \in Nat
    BY <2>2, DesiredIsNat
  <2> QED
    BY <1>1, <2>3 DEF SizedQuantity, ShareDelta
<1>2. CASE s \notin Priced(m, quoted)
  BY <1>2 DEF SizedQuantity
<1> QED
  BY <1>1, <1>2
-----------------------------------------------------------------------------
(* The inductive invariant.                                                *)

\* The mandate being worked is the approved book plus the exits.
MandateFits ==
  /\ mandate.targets \in Targets
  /\ \A s \in DOMAIN mandate.targets : mandate.targets[s] = approved[s]
  /\ \A s \in Symbols \ DOMAIN mandate.targets :
       approved[s] = 0 /\ position[s] * prices[s] = 0

\* The orders are those sized at the start, whatever was traded since.
SizedAtStart ==
  /\ sized = [s \in Symbols |->
                SizedQuantity(mandate, position, start, prices, s)]
  /\ SizingRejections(mandate, position, start, prices) \subseteq rejections

\* A symbol is traded in full or not at all, and not at all only with a word.
AllOrNothing ==
  \A s \in Symbols :
    /\ s \in todo => wposition[s] = position[s]
    /\ wposition[s] \in {position[s], position[s] + sized[s]}
    /\ s \notin todo => Rejected(s) \/ wposition[s] = position[s] + sized[s]

IInv ==
  /\ TypeOK
  /\ NeverOverdrawn
  /\ NeverShort
  /\ ValueConserved
  /\ pc = "idle" => todo = {}
  /\ pc = "working" => MandateFits /\ SizedAtStart /\ AllOrNothing
-----------------------------------------------------------------------------
(* Prices, commissions and mandates.                                       *)

LEMMA MagnitudeFacts ==
  ASSUME NEW n \in Int
  PROVE  /\ Magnitude(n) \in Nat
         /\ n >= 0 => Magnitude(n) = n
         /\ n < 0 => Magnitude(n) = -n
BY DEF Magnitude

LEMMA FillPriceIsPositive ==
  ASSUME NEW q \in Int, NEW p \in Nat \ {0}
  PROVE  FillPrice(q, p) \in Nat \ {0}
<1>1. p * SpreadBps \in Nat
  BY SimulatedAssumption, ProductIsNat
<1>2. 2 * BpsUnit \in Nat \ {0}
  BY SimulatedAssumption
<1>3. HalfSpread(p) \in Nat
  BY <1>1, <1>2, QuotientIsNat DEF HalfSpread
<1> QED
  BY <1>3 DEF FillPrice

LEMMA CommissionIsNat ==
  ASSUME NEW q \in Int
  PROVE  Commission(q) \in Nat
BY SimulatedAssumption, MagnitudeFacts, ProductIsNat DEF Commission

\* What a sale brings in covers its commission.
LEMMA SaleCovers ==
  ASSUME NEW q \in Int, q < 0, NEW closes \in Markets, NEW s \in Symbols,
         closes[s] # NoPrice
  PROVE  Commission(q) <= -(q * FillPrice(q, closes[s]))
<1> DEFINE F == FillPrice(q, closes[s])
           n == -q
<1>1. closes[s] \in Nat \ {0}
  BY SimulatedAssumption DEF NoPrice
<1>2. F \in Nat
  BY <1>1, FillPriceIsPositive
<1>3. CommissionPerShare <= F
  BY SellsPay DEF FillPrice
<1>4. CommissionPerShare \in Nat /\ n \in Nat
  BY SimulatedAssumption
<1>5. Commission(q) = CommissionPerShare * n
  BY DEF Commission, Magnitude
<1>6. -(q * F) = F * n
  <2> HIDE DEF F
  <2> QED
    BY <1>2
<1>7. CommissionPerShare * n <= F * n
  <2> HIDE DEF F, n
  <2> QED
    BY <1>2, <1>3, <1>4, ProductIsMonotone
<1> QED
  BY <1>5, <1>6, <1>7

\* What a fill pays above the close, or is paid below it, is a cost: each fill
\* is on the far side of the close or at it.
LEMMA SpreadIsPaid ==
  ASSUME NEW q \in Int \ {0}, NEW p \in Nat \ {0}
  PROVE  LET F == FillPrice(q, p)
         IN  Magnitude(q) * Magnitude(F - p) = q * F - q * p
<1> DEFINE h == HalfSpread(p)
           F == FillPrice(q, p)
<1>1. F \in Nat \ {0}
  BY FillPriceIsPositive
<1>2. h \in Nat
  <2>1. p * SpreadBps \in Nat /\ 2 * BpsUnit \in Nat \ {0}
    BY SimulatedAssumption, ProductIsNat
  <2> QED
    BY <2>1, QuotientIsNat DEF HalfSpread
<1>3. F = IF q > 0 THEN p + h ELSE IF p - h > 0 THEN p - h ELSE p
  <2> HIDE DEF h
  <2> QED
    BY <1>2 DEF FillPrice, h
<1> HIDE DEF h, F
<1>4. q > 0 => Magnitude(q) = q /\ Magnitude(F - p) = F - p
  BY <1>2, <1>3, MagnitudeFacts
<1>5. q < 0 => Magnitude(q) = -q /\ Magnitude(F - p) = p - F
  BY <1>1, <1>2, <1>3 DEF Magnitude
<1>6. q * (F - p) = q * F - q * p /\ (-q) * (p - F) = q * F - q * p
  BY <1>1
<1> QED
  BY <1>4, <1>5, <1>6 DEF F

LEMMA SymbolsAreFinite == IsFiniteSet(Symbols)
BY FS_Interval, SizingAssumption DEF Symbols

\* Account.total_value is a whole amount.
LEMMA ValueIsInt ==
  ASSUME NEW held \in [Symbols -> Int], NEW closes \in [Symbols -> Nat]
  PROVE  SumFunctionOnSet([s \in Symbols |-> held[s] * closes[s]], Symbols) \in Int
<1> DEFINE f == [s \in Symbols |-> held[s] * closes[s]]
<1>1. \A s \in Symbols : f[s] \in Int
  OBVIOUS
<1> HIDE DEF f
<1>2. Total(f, Symbols) \in Int
  BY <1>1, SymbolsAreFinite, SumIsInt
<1> QED
  BY <1>2 DEF Total, f

\* A fill moves the worth of the holdings by what the shares are worth.
LEMMA HoldingsMove ==
  ASSUME NEW held \in [Symbols -> Int], NEW closes \in [Symbols -> Nat],
         NEW s \in Symbols, NEW q \in Int
  PROVE  SumFunctionOnSet(
           [t \in Symbols |-> [held EXCEPT ![s] = @ + q][t] * closes[t]], Symbols)
         = SumFunctionOnSet([t \in Symbols |-> held[t] * closes[t]], Symbols)
             + q * closes[s]
<1> DEFINE moved == [held EXCEPT ![s] = @ + q]
           f == [t \in Symbols |-> held[t] * closes[t]]
           g == [t \in Symbols |-> moved[t] * closes[t]]
<1>1. moved \in [Symbols -> Int] /\ moved[s] = held[s] + q
  OBVIOUS
<1>2. \A t \in Symbols : f[t] \in Int /\ g[t] \in Int /\ (t # s => f[t] = g[t])
  <2>1. \A t \in Symbols : held[t] * closes[t] \in Int
    OBVIOUS
  <2>2. \A t \in Symbols : moved[t] * closes[t] \in Int
    <3> HIDE DEF moved
    <3> QED
      BY <1>1
  <2>3. \A t \in Symbols : t # s => moved[t] = held[t]
    OBVIOUS
  <2> HIDE DEF moved
  <2> QED
    BY <2>1, <2>2, <2>3
<1>3. g[s] = f[s] + q * closes[s]
  <2>1. (held[s] + q) * closes[s] = held[s] * closes[s] + q * closes[s]
    OBVIOUS
  <2> HIDE DEF moved
  <2> QED
    BY <1>1, <2>1
<1> HIDE DEF f, g
<1>4. Total(g, Symbols) = Total(f, Symbols) - f[s] + g[s]
  BY <1>2, SymbolsAreFinite, SumMoves
<1>5. Total(f, Symbols) \in Int /\ f[s] \in Int /\ q * closes[s] \in Int
  BY <1>2, SymbolsAreFinite, SumIsInt
<1>6. Total(g, Symbols) = Total(f, Symbols) + q * closes[s]
  BY <1>3, <1>4, <1>5
<1> QED
  BY <1>6 DEF Total, f, g

\* The part of a book a mandate mentions is a set of targets.
LEMMA BuiltTargets ==
  ASSUME NEW time, NEW v, NEW b \in WeightBooks, NEW current
  PROVE  LET m == BuildMandate(time, v, b, current)
         IN  /\ m.targets \in Targets
             /\ DOMAIN m.targets = Mentioned(b, current)
             /\ \A s \in DOMAIN m.targets : m.targets[s] = b[s]
<1>1. b \in [Symbols -> Weights]
  BY DEF WeightBooks
<1>2. Mentioned(b, current) \in SUBSET Symbols
  BY DEF Mentioned
<1>3. [s \in Mentioned(b, current) |-> b[s]] \in [Mentioned(b, current) -> Weights]
  BY <1>1, <1>2
<1>4. [s \in Mentioned(b, current) |-> b[s]] \in Targets
  BY <1>2, <1>3 DEF Targets
<1> QED
  BY <1>4 DEF BuildMandate
-----------------------------------------------------------------------------
(* The invariant holds initially and every action keeps it.                *)

LEMMA InitIInv == Init => IInv
<1> SUFFICES ASSUME Init PROVE IInv
  OBVIOUS
<1>1. TypeOK
  BY SimulatedAssumption DEF Init, TypeOK, Quiet
<1>2. NeverOverdrawn /\ NeverShort
  BY SimulatedAssumption DEF Init, NeverOverdrawn, NeverShort, Quiet
<1> QED
  BY <1>1, <1>2 DEF Init, IInv, ValueConserved

LEMMA NewSessionKeeps == IInv /\ NewSession => IInv'
<1> SUFFICES ASSUME IInv, NewSession PROVE IInv'
  OBVIOUS
<1> USE DEF IInv, NewSession, book, work, progress
<1>1. TypeOK'
  BY DEF TypeOK
<1>2. NeverOverdrawn' /\ NeverShort' /\ ValueConserved'
  BY DEF NeverOverdrawn, NeverShort, ValueConserved
<1> QED
  BY <1>1, <1>2

LEMMA RebalanceKeeps == IInv /\ Rebalance => IInv'
<1> SUFFICES ASSUME IInv, Rebalance PROVE IInv'
  OBVIOUS
<1> DEFINE value == TotalValue(cash, position)
           current == [s \in Symbols |-> position[s] * prices[s]]
           m == BuildMandate(session, value, approved, current)
<1>1. /\ pc = "idle"
      /\ value \in Nat \ {0}
      /\ mandate' = m
      /\ sized' = [s \in Symbols |-> SizedQuantity(m, position, value, prices, s)]
      /\ todo' = {s \in Symbols : sized'[s] # 0}
      /\ rejections' = SizingRejections(m, position, value, prices)
      /\ start' = value
      /\ wcash' = cash
      /\ wposition' = position
      /\ costs' = 0
      /\ pc' = "working"
      /\ UNCHANGED <<session, prices, approved, cash, position>>
  BY DEF Rebalance, offered, book
<1> HIDE DEF value
<1>2. TypeOK /\ approved \in WeightBooks /\ prices \in [Symbols -> Nat]
  BY SimulatedAssumption DEF IInv, TypeOK
<1>3. /\ m.targets \in Targets
      /\ DOMAIN m.targets = Mentioned(approved, current)
      /\ \A s \in DOMAIN m.targets : m.targets[s] = approved[s]
  BY <1>2, BuiltTargets
<1>4. MandateFits'
  BY <1>1, <1>3 DEF MandateFits, Mentioned
<1> HIDE DEF m, current
<1>5. \A s \in Symbols : SizedQuantity(m, position, value, prices, s) \in Int
  BY <1>1, <1>2, <1>3, SizedShares DEF TypeOK
<1>6. TypeOK'
  BY <1>1, <1>2, <1>3, <1>5 DEF TypeOK
<1>7. NeverOverdrawn' /\ NeverShort'
  BY <1>1 DEF IInv, NeverOverdrawn, NeverShort
<1>8. SizedAtStart'
  BY <1>1 DEF SizedAtStart
<1>9. AllOrNothing'
  <2> SUFFICES ASSUME NEW s \in Symbols
               PROVE  /\ s \in todo' => wposition'[s] = position'[s]
                      /\ wposition'[s] \in {position'[s], position'[s] + sized'[s]}
                      /\ s \notin todo' => wposition'[s] = position'[s] + sized'[s]
    BY DEF AllOrNothing
  <2>1. position[s] \in Int
    BY <1>2 DEF TypeOK
  <2> QED
    BY <1>1, <2>1
<1>10. ValueConserved'
  <2>1. TotalValue(wcash, wposition)' = value
    BY <1>1 DEF TotalValue, Holdings, value
  <2> QED
    BY <1>1, <2>1 DEF ValueConserved
<1> QED
  BY <1>1, <1>4, <1>6, <1>7, <1>8, <1>9, <1>10 DEF IInv

\* An order in line is for a priced symbol, and takes the holding to the
\* desired shares.
LEMMA OrderInLine ==
  ASSUME IInv, NEW s \in Symbols, InLine(s)
  PROVE  /\ sized[s] \in Int \ {0}
         /\ prices[s] \in Nat \ {0}
         /\ position[s] + sized[s] \in Nat
<1>1. /\ TypeOK /\ MandateFits /\ SizedAtStart
      /\ s \in todo /\ sized[s] # 0
  BY DEF IInv, InLine, TypeOK
<1>2. prices \in [Symbols -> Nat]
  BY <1>1, SimulatedAssumption DEF TypeOK
<1>3. sized[s] = SizedQuantity(mandate, position, start, prices, s)
  BY <1>1 DEF SizedAtStart
<1>4. s \in Priced(mandate, prices)
  BY <1>1, <1>3 DEF SizedQuantity
<1>5. prices[s] \in Nat \ {0}
  BY <1>2, <1>4 DEF Priced, NoPrice
<1>6. DesiredShares(mandate.targets[s], start, prices[s]) = position[s] + sized[s]
  BY <1>1, <1>2, <1>3, <1>4, SizedShares DEF TypeOK, MandateFits
<1>7. DesiredShares(mandate.targets[s], start, prices[s]) \in Nat
  BY <1>1, <1>2, <1>4, SizedShares DEF TypeOK, MandateFits
<1> QED
  BY <1>1, <1>5, <1>6, <1>7 DEF TypeOK

LEMMA FillOrderKeeps ==
  ASSUME IInv, NEW s \in Symbols, FillOrder(s)
  PROVE  IInv'
<1> DEFINE q == sized[s]
           F == FillPrice(q, prices[s])
<1>1. /\ InLine(s)
      /\ Affordable(s)
      /\ wposition' = [wposition EXCEPT ![s] = @ + q]
      /\ wcash' = wcash - q * F - Commission(q)
      /\ costs' = costs + Commission(q) + Magnitude(q) * Magnitude(F - prices[s])
      /\ todo' = todo \ {s}
      /\ UNCHANGED <<session, prices, approved, cash, position, pc,
                     mandate, sized, start, rejections>>
  BY DEF FillOrder, offered, book, work
<1>2. /\ q \in Int \ {0}
      /\ prices[s] \in Nat \ {0}
      /\ position[s] + q \in Nat
  BY <1>1, OrderInLine
<1>3. F \in Nat \ {0} /\ Commission(q) \in Nat
  BY <1>2, FillPriceIsPositive, CommissionIsNat
<1>4. TypeOK /\ NeverOverdrawn /\ NeverShort
  BY DEF IInv
<1>5. pc = "working" /\ s \in todo /\ AllOrNothing /\ MandateFits /\ SizedAtStart
  BY <1>1 DEF InLine, IInv
<1>6. wposition'[s] = position[s] + q /\ wposition[s] = position[s]
  BY <1>1, <1>4, <1>5 DEF TypeOK, AllOrNothing
<1>7. TypeOK'
  <2>1. q * F \in Int
    <3> HIDE DEF F, q
    <3> QED
      BY <1>2, <1>3
  <2>2. wcash' \in Int
    BY <1>1, <1>3, <1>4, <2>1 DEF TypeOK
  <2>3. Magnitude(q) \in Nat /\ Magnitude(F - prices[s]) \in Nat
    BY <1>2, <1>3, MagnitudeFacts
  <2>4. costs' \in Nat
    BY <1>1, <1>3, <1>4, <2>3, ProductIsNat DEF TypeOK
  <2>5. wposition' \in [Symbols -> Int]
    BY <1>1, <1>2, <1>4 DEF TypeOK
  <2> QED
    BY <1>1, <1>4, <2>2, <2>4, <2>5 DEF TypeOK
<1>8. NeverOverdrawn'
  <2>1. wcash \in Int /\ wcash >= 0 /\ cash >= 0
    BY <1>4 DEF TypeOK, NeverOverdrawn
  <2>2. CASE q > 0
    <3>1. q * F + Commission(q) <= wcash
      BY <1>1, <1>2, <2>2, MagnitudeFacts DEF Affordable, Notional
    <3> HIDE DEF q, F
    <3> QED
      BY <1>1, <1>2, <1>3, <2>1, <3>1 DEF NeverOverdrawn
  <2>3. CASE q < 0
    <3>1. Commission(q) <= -(q * F)
      BY <1>2, <1>4, <2>3, SaleCovers DEF TypeOK, NoPrice
    <3> HIDE DEF q, F
    <3> QED
      BY <1>1, <1>2, <1>3, <2>1, <3>1 DEF NeverOverdrawn
  <2> QED
    BY <1>2, <2>2, <2>3
<1>9. NeverShort'
  BY <1>1, <1>2, <1>4, <1>6 DEF TypeOK, NeverShort
<1>10. AllOrNothing'
  BY <1>1, <1>4, <1>5, <1>6 DEF TypeOK, AllOrNothing, Rejected
<1>11. MandateFits' /\ SizedAtStart'
  BY <1>1, <1>5 DEF MandateFits, SizedAtStart
<1>12. ValueConserved'
  <2> DEFINE H == SumFunctionOnSet([t \in Symbols |-> wposition[t] * prices[t]], Symbols)
             G == SumFunctionOnSet([t \in Symbols |-> wposition'[t] * prices[t]], Symbols)
  <2>1. prices \in [Symbols -> Nat] /\ wposition \in [Symbols -> Int]
    BY <1>4, SimulatedAssumption DEF TypeOK
  <2>2. G = H + q * prices[s]
    BY <1>1, <1>2, <2>1, HoldingsMove
  <2>3. H \in Int
    BY <2>1, ValueIsInt
  <2>4. Magnitude(q) * Magnitude(F - prices[s]) = q * F - q * prices[s]
    BY <1>2, SpreadIsPaid
  <2>5. wcash + H + costs = start
    BY <1>5 DEF IInv, ValueConserved, TotalValue, Holdings
  <2>6. q * F \in Int /\ q * prices[s] \in Int
    <3> HIDE DEF q, F
    <3> QED
      BY <1>2, <1>3
  <2>7. TotalValue(wcash, wposition)' = wcash' + G
    BY <1>1 DEF TotalValue, Holdings
  <2> DEFINE x == q * F
             y == q * prices[s]
             C == Commission(q)
  <2>8. wcash' = wcash - x - C /\ costs' = costs + C + (x - y)
    BY <1>1, <2>4
  <2>9. wcash \in Int /\ costs \in Nat /\ start \in Nat /\ C \in Nat
        /\ x \in Int /\ y \in Int
    BY <1>3, <1>4, <2>6 DEF TypeOK
  <2> HIDE DEF G, H, x, y, C
  <2>10. wcash' + G + costs' = start
    BY <2>2, <2>3, <2>5, <2>8, <2>9 DEF y
  <2> QED
    BY <1>1, <2>7, <2>10 DEF ValueConserved
<1> QED
  BY <1>1, <1>5, <1>7, <1>8, <1>9, <1>10, <1>11, <1>12 DEF IInv

LEMMA RejectForCashKeeps ==
  ASSUME IInv, NEW s \in Symbols, RejectForCash(s)
  PROVE  IInv'
<1> USE DEF RejectForCash, offered, book, work
<1>1. TypeOK'
  BY DEF IInv, TypeOK
<1>2. NeverOverdrawn' /\ NeverShort' /\ ValueConserved'
  BY DEF IInv, NeverOverdrawn, NeverShort, ValueConserved, TotalValue, Holdings
<1>3. pc = "working" /\ AllOrNothing /\ MandateFits /\ SizedAtStart
  BY DEF InLine, IInv
<1>4. Rejected(s)' /\ \A t \in Symbols : Rejected(t) => Rejected(t)'
  <2>1. /\ rejections \subseteq rejections'
        /\ <<s, "INSUFFICIENT_CASH">> \in rejections'
    OBVIOUS
  <2>2. <<s, "INSUFFICIENT_CASH">>[1] = s
    OBVIOUS
  <2>3. Rejected(s)'
    BY ONLY <2>1, <2>2 DEF Rejected
  <2>4. \A t \in Symbols : Rejected(t) => Rejected(t)'
    BY ONLY <2>1 DEF Rejected
  <2> QED
    BY ONLY <2>3, <2>4
<1>5. AllOrNothing'
  BY <1>3, <1>4 DEF AllOrNothing
<1>6. MandateFits' /\ SizedAtStart'
  BY <1>3 DEF MandateFits, SizedAtStart
<1> QED
  BY <1>1, <1>2, <1>3, <1>5, <1>6 DEF IInv

LEMMA AdoptKeeps == IInv /\ Adopt => IInv'
<1> SUFFICES ASSUME IInv, Adopt PROVE IInv'
  OBVIOUS
<1> USE DEF IInv, Adopt, offered, work, progress
<1>1. TypeOK'
  BY DEF TypeOK
<1>2. NeverOverdrawn' /\ NeverShort' /\ ValueConserved'
  BY DEF NeverOverdrawn, NeverShort, ValueConserved
<1> QED
  BY <1>1, <1>2

LEMMA NextKeeps == IInv /\ [Next]_vars => IInv'
<1> SUFFICES ASSUME IInv, [Next]_vars PROVE IInv'
  OBVIOUS
<1>1. CASE NewSession
  BY <1>1, NewSessionKeeps
<1>2. CASE Rebalance
  BY <1>2, RebalanceKeeps
<1>3. ASSUME NEW s \in Symbols, FillOrder(s) PROVE IInv'
  BY <1>3, FillOrderKeeps
<1>4. ASSUME NEW s \in Symbols, RejectForCash(s) PROVE IInv'
  BY <1>4, RejectForCashKeeps
<1>5. CASE Adopt
  BY <1>5, AdoptKeeps
<1>6. CASE UNCHANGED vars
  BY <1>6 DEF vars, offered, book, work, progress, IInv, TypeOK, NeverOverdrawn,
              NeverShort, ValueConserved, TotalValue, Holdings, MandateFits,
              SizedAtStart, AllOrNothing, Rejected
<1> QED
  BY <1>1, <1>2, <1>3, <1>4, <1>5, <1>6 DEF Next, Cycle, WorkOrder

LEMMA AlwaysIInv == Spec => []IInv
BY InitIInv, NextKeeps, PTL DEF Spec
-----------------------------------------------------------------------------
(* The theorems.                                                           *)

\* Account, mandate and report keep their types; no order is for zero shares.
THEOREM TypeCorrect == Spec => []TypeOK
<1>1. IInv => TypeOK
  BY DEF IInv
<1> QED
  BY <1>1, AlwaysIInv, PTL

\* No sequence of buys, sales and rejections overdraws cash, as long as a
\* share sells for its commission.
THEOREM CashStaysPositive == Spec => []NeverOverdrawn
<1>1. IInv => NeverOverdrawn
  BY DEF IInv
<1> QED
  BY <1>1, AlwaysIInv, PTL

\* No sequence of sessions sells a share that is not held.
THEOREM BookStaysLong == Spec => []NeverShort
<1>1. IInv => NeverShort
  BY DEF IInv
<1> QED
  BY <1>1, AlwaysIInv, PTL

\* Whatever was filled and whatever was rejected, cash and holdings are the
\* value the execution started from, less the spread and commission paid.
THEOREM MoneyIsConserved == Spec => []ValueConserved
<1>1. IInv => ValueConserved
  BY DEF IInv
<1> QED
  BY <1>1, AlwaysIInv, PTL

\* A priced symbol of the mandate with no rejection is at its target.
LEMMA UnrejectedAtTarget ==
  ASSUME IInv, pc = "working", todo = {}, NEW s \in DOMAIN mandate.targets,
         ~ Rejected(s)
  PROVE  wposition[s] = DesiredShares(mandate.targets[s], start, prices[s])
<1>1. TypeOK /\ MandateFits /\ SizedAtStart /\ AllOrNothing
  BY DEF IInv
<1>2. s \in Symbols
  BY <1>1 DEF MandateFits, Targets
<1>3. prices \in [Symbols -> Nat]
  BY <1>1, SimulatedAssumption DEF TypeOK
<1>4. \A r \in SizingRejections(mandate, position, start, prices) : r[1] # s
  BY <1>1 DEF SizedAtStart, Rejected
<1>5. s \in Priced(mandate, prices)
  <2>1. CASE s \notin Priced(mandate, prices)
    <3>1. <<s, "NO_PRICE">> \in SizingRejections(mandate, position, start, prices)
      BY <2>1 DEF SizingRejections
    <3> QED
      BY <1>4, <3>1
  <2> QED
    BY <2>1
<1>6. ~ BelowMinimum(ShareDelta(mandate, position, start, prices, s), prices[s])
  <2>1. CASE BelowMinimum(ShareDelta(mandate, position, start, prices, s), prices[s])
    <3>1. <<s, "BELOW_MIN_NOTIONAL">>
            \in SizingRejections(mandate, position, start, prices)
      BY <1>5, <2>1 DEF SizingRejections
    <3> QED
      BY <1>4, <3>1
  <2> QED
    BY <2>1
<1>7. sized[s] = ShareDelta(mandate, position, start, prices, s)
  BY <1>1, <1>2, <1>5, <1>6 DEF SizedAtStart, SizedQuantity
<1>8. wposition[s] = position[s] + sized[s]
  BY <1>1, <1>2 DEF AllOrNothing
<1>9. DesiredShares(mandate.targets[s], start, prices[s]) \in Nat
  BY <1>1, <1>2, <1>3, <1>5, SizedShares DEF TypeOK, MandateFits
<1> QED
  BY <1>1, <1>2, <1>7, <1>8, <1>9 DEF TypeOK, ShareDelta

\* The report names every symbol it leaves away from its target.
THEOREM DriftHasAReason == Spec => []DriftIsExplained
<1>1. IInv => DriftIsExplained
  BY UnrejectedAtTarget DEF DriftIsExplained, Executed
<1> QED
  BY <1>1, AlwaysIInv, PTL

\* Out of the mandate a symbol has nothing to sell, in it a target of zero.
LEMMA ExitsInvariant == IInv => ExitsAreSold
<1> SUFFICES ASSUME IInv, Executed, pc = "working", NEW s \in Symbols,
                    approved[s] = 0, prices[s] # NoPrice, ~ Rejected(s)
             PROVE  wposition[s] = 0
  BY DEF ExitsAreSold
<1>1. /\ TypeOK /\ MandateFits /\ SizedAtStart /\ AllOrNothing
      /\ todo = {}
  BY DEF IInv, Executed
<1>2. prices[s] \in Nat \ {0}
  BY <1>1, SimulatedAssumption DEF TypeOK, NoPrice
<1>3. CASE s \in DOMAIN mandate.targets
  <2>1. wposition[s] = DesiredShares(0, start, prices[s])
    BY <1>1, <1>3, UnrejectedAtTarget DEF MandateFits
  <2>2. WeightUnit * prices[s] \in Nat \ {0} /\ 0 * start = 0
    BY <1>1, <1>2, SizingAssumption, ProductIsPositive DEF TypeOK
  <2>3. 0 \div (WeightUnit * prices[s]) = 0
    <3> DEFINE b == WeightUnit * prices[s]
    <3>1. b \in Nat \ {0}
      BY <2>2
    <3> HIDE DEF b
    <3>2. 0 \div b = 0
      BY <3>1
    <3> QED
      BY <3>2 DEF b
  <2> QED
    BY <2>1, <2>2, <2>3 DEF DesiredShares
<1>4. CASE s \notin DOMAIN mandate.targets
  <2>1. position[s] * prices[s] = 0 /\ position[s] \in Int
    BY <1>1, <1>4 DEF MandateFits, TypeOK
  <2>2. position[s] = 0
    BY <1>2, <2>1
  <2>3. sized[s] = 0
    BY <1>1, <1>4 DEF SizedAtStart, SizedQuantity, Priced
  <2> QED
    BY <1>1, <2>2, <2>3 DEF AllOrNothing
<1> QED
  BY <1>3, <1>4

\* A position the approved book leaves out is sold in full or reported.
THEOREM NothingStranded == Spec => []ExitsAreSold
BY AlwaysIInv, ExitsInvariant, PTL

\* A symbol bought is at its start or at its whole-share target.
LEMMA CeilingInvariant == IInv => NeverAboveTarget
<1> SUFFICES ASSUME IInv, NEW s \in Symbols, pc = "working", sized[s] > 0
             PROVE  wposition[s] * prices[s] * WeightUnit <= approved[s] * start
  BY DEF NeverAboveTarget
<1> DEFINE d == DesiredShares(mandate.targets[s], start, prices[s])
<1>1. TypeOK /\ MandateFits /\ SizedAtStart /\ AllOrNothing /\ NeverShort
  BY DEF IInv
<1>2. prices \in [Symbols -> Nat] /\ start \in Nat /\ WeightUnit \in Nat
  BY <1>1, SimulatedAssumption, SizingAssumption DEF TypeOK
<1>3. s \in Priced(mandate, prices)
  BY <1>1 DEF SizedAtStart, SizedQuantity
<1>4. prices[s] \in Nat \ {0} /\ mandate.targets[s] = approved[s]
  BY <1>1, <1>2, <1>3 DEF MandateFits, Priced, NoPrice
<1>5. approved[s] \in Weights
  BY <1>1, SimulatedAssumption DEF TypeOK, WeightBooks
<1>6. d * prices[s] * WeightUnit <= approved[s] * start
  BY <1>2, <1>4, <1>5, DesiredWithinWeight
<1>7. d \in Nat /\ d = position[s] + sized[s]
  <2>1. /\ mandate.targets \in Targets /\ position \in [Symbols -> Int]
        /\ sized[s] = SizedQuantity(mandate, position, start, prices, s)
    BY <1>1 DEF TypeOK, MandateFits, SizedAtStart
  <2>2. sized[s] # 0
    OBVIOUS
  <2> HIDE DEF d
  <2> QED
    BY <1>2, <1>3, <2>1, <2>2, SizedShares DEF d
<1>8. wposition[s] \in Nat /\ wposition[s] <= d
  BY <1>1, <1>7 DEF TypeOK, AllOrNothing, NeverShort
<1>9. wposition[s] * (prices[s] * WeightUnit) <= d * (prices[s] * WeightUnit)
  <2>1. prices[s] * WeightUnit \in Nat
    BY <1>2, <1>4, ProductIsNat
  <2> HIDE DEF d
  <2> QED
    BY <1>7, <1>8, <2>1, ProductIsMonotone
<1>10. /\ wposition[s] * (prices[s] * WeightUnit) = wposition[s] * prices[s] * WeightUnit
       /\ d * (prices[s] * WeightUnit) = d * prices[s] * WeightUnit
  <2> HIDE DEF d
  <2> QED
    BY <1>2, <1>4, <1>7, <1>8
<1>11. approved[s] * start \in Nat /\ d * prices[s] * WeightUnit \in Nat
  <2> HIDE DEF d
  <2> QED
    BY <1>2, <1>4, <1>5, <1>7, ProductIsNat, SizingAssumption DEF Weights
<1>12. wposition[s] * prices[s] * WeightUnit \in Nat
  BY <1>2, <1>4, <1>8, ProductIsNat
<1> QED
  <2> DEFINE x == wposition[s] * prices[s] * WeightUnit
             y == d * prices[s] * WeightUnit
             z == approved[s] * start
  <2>1. x <= y /\ y <= z /\ x \in Nat /\ y \in Nat /\ z \in Nat
    BY <1>6, <1>9, <1>10, <1>11, <1>12
  <2> HIDE DEF x, y, z
  <2>2. x <= z
    BY <2>1
  <2> QED
    BY <2>2 DEF x, z

\* Whole shares, rejections and the order of the fills never take a bought
\* symbol past its target share of the value the order was sized from.
THEOREM TargetsAreCeilings == Spec => []NeverAboveTarget
BY AlwaysIInv, CeilingInvariant, PTL
-----------------------------------------------------------------------------
(* Fees.                                                                   *)

FundRecords ==
  [values : Seq(Rationals) \ {<<>>}, mark : Rationals, managed : Rationals, earned : Rationals]

LEMMA AgreementParts ==
  ASSUME NEW a \in Agreements
  PROVE  /\ a.management \in Rationals /\ a.incentive \in Rationals /\ a.hurdle \in Rationals
         /\ Zero \preceq a.incentive /\ Zero \preceq a.management
BY TrackRecordAssumption

\* The fees of a period and what they leave.
LEMMA FeesAreNumbers ==
  ASSUME NEW a \in Agreements, NEW b \in Rationals, NEW e \in Rationals, NEW m \in Rationals
  PROVE  LET fees == hedge_fund_fees(b, e, m, a)
         IN /\ fees.net \in Rationals /\ fees.management \in Rationals
            /\ fees.incentive \in Rationals /\ fees.mark \in Rationals
<1> DEFINE management == a.management ** (IF a.basis = "BEGINNING" THEN b ELSE e)
           base == IF a.net_of_management THEN e -- management ELSE e
           threshold == Larger(m, b ** (One ++ a.hurdle))
           incentive == a.incentive ** Larger(base -- threshold, Zero)
           net == e -- (management ++ incentive)
<1>1. management \in Rationals
  BY AgreementParts, Closed
<1>2. base \in Rationals
  BY <1>1, Closed
<1>3. threshold \in Rationals
  <2>1. One \in Rationals
    BY ZeroIs
  <2> QED
    BY <2>1, AgreementParts, Closed
<1>4. incentive \in Rationals
  <2>1. Zero \in Rationals
    BY ZeroIs
  <2> HIDE DEF base, threshold
  <2> QED
    BY <1>2, <1>3, <2>1, AgreementParts, Closed
<1>5. net \in Rationals
  <2> HIDE DEF management, incentive
  <2> QED
    BY <1>1, <1>4, Closed
<1>6. Larger(m, net) \in Rationals
  <2> HIDE DEF net
  <2> QED
    BY <1>5, Closed
<1>7. hedge_fund_fees(b, e, m, a)
        = [net |-> net, management |-> management, incentive |-> incentive, mark |-> Larger(m, net)]
  BY DEF hedge_fund_fees
<1> HIDE DEF net, incentive, management
<1> QED
  BY <1>1, <1>4, <1>5, <1>6, <1>7

\* The arithmetic of an incentive fee: with i / d the rate of it, b / d the value
\* before it, t / d its threshold, m / d the mark, g / d what was earned so far
\* and q / d, of which the mark knows nothing, what was managed.
LEMMA FeeIsCovered ==
  ASSUME NEW d \in Nat \ {0}, NEW i \in Nat, NEW b \in Int, NEW t \in Int, NEW m \in Int,
         NEW g \in Int, NEW q \in Int, m <= t, (d - i) * g <= i * (m + q - d),
         NEW x \in Nat, NEW n \in Int, x = IF b - t < 0 THEN 0 ELSE b - t,
         m * d <= n, b * d - i * x <= n
  PROVE  (d - i) * (g * d + i * x) <= i * (n + q * d - d * d)
<1>1. ((d - i) * g) * d <= (i * (m + q - d)) * d
  <2>1. (d - i) * g \in Int /\ i * (m + q - d) \in Int
    OBVIOUS
  <2> QED
    BY <2>1, ProductIsMonotone
<1>2. (d - i) * (g * d + i * x) = ((d - i) * g) * d + i * ((d - i) * x)
  OBVIOUS
<1>3. i * (m * d + (d - i) * x + q * d - d * d) = (i * (m + q - d)) * d + i * ((d - i) * x)
  OBVIOUS
<1>4. m * d + (d - i) * x <= n
  <2>1. CASE b - t < 0
    BY <2>1
  <2>2. CASE b - t >= 0
    <3>1. x = b - t
      BY <2>2
    <3>2. m * d <= t * d
      BY ProductIsMonotone
    <3>3. b * d - i * x = t * d + (d - i) * x
      BY <3>1
    <3> QED
      BY <3>2, <3>3
  <2> QED
    BY <2>1, <2>2
<1>5. i * (m * d + (d - i) * x + q * d - d * d) <= i * (n + q * d - d * d)
  <2> DEFINE u == m * d + (d - i) * x + q * d - d * d
             v == n + q * d - d * d
  <2>1. u \in Int /\ v \in Int /\ u <= v
    BY <1>4
  <2> HIDE DEF u, v
  <2>2. u * i <= v * i
    BY <2>1, ProductIsMonotone
  <2>3. i * u = u * i /\ i * v = v * i
    BY <2>1
  <2> QED
    BY <2>2, <2>3 DEF u, v
<1> QED
  BY <1>1, <1>2, <1>3, <1>5

LEMMA TakenTwice ==
  ASSUME NEW a \in Rationals, NEW b \in Rationals, NEW c \in Rationals
  PROVE  a -- (b ++ c) = (a -- b) -- c
<1>1. PICK d \in Nat \ {0} : Over(a, d) /\ Over(b, d) /\ Over(c, d)
  BY OverThree
<1>2. PICK n \in Int : Is(a, n, d)
  BY <1>1 DEF Over
<1>3. PICK m \in Int : Is(b, m, d)
  BY <1>1 DEF Over
<1>4. PICK k \in Int : Is(c, k, d)
  BY <1>1 DEF Over
<1>5. Is(b ++ c, m + k, d) /\ Is(a -- b, n - m, d)
  BY <1>2, <1>3, <1>4, PlusIs, DifferenceIs
<1>6. Is(a -- (b ++ c), n - (m + k), d) /\ Is((a -- b) -- c, (n - m) - k, d)
  BY <1>2, <1>4, <1>5, DifferenceIs
<1>7. n - (m + k) = (n - m) - k
  OBVIOUS
<1> QED
  BY <1>6, <1>7, IsOrder

\* What is taken after the base, and is not negative, may hold the mark back by
\* as much as it is.
LEMMA FeesAreCovered ==
  ASSUME NEW p \in Rationals, Zero \preceq p, NEW base \in Rationals, NEW threshold \in Rationals,
         NEW mark \in Rationals, mark \preceq threshold, NEW earned \in Rationals,
         NEW managed \in Rationals, NEW more \in Rationals, Zero \preceq more,
         (One -- p) ** earned \preceq p ** ((mark -- One) ++ managed),
         NEW fee, fee = p ** Larger(base -- threshold, Zero),
         NEW later, later = Larger(mark, (base -- fee) -- more)
  PROVE  (One -- p) ** (earned ++ fee) \preceq p ** ((later -- One) ++ (managed ++ more))
<1>1. PICK d \in Nat \ {0} :
        /\ Over(p, d) /\ Over(base, d) /\ Over(threshold, d) /\ Over(mark, d) /\ Over(earned, d)
        /\ Over(managed, d) /\ Over(more, d)
  <2>1. PICK e \in Nat \ {0} :
          /\ Over(p, e) /\ Over(base, e) /\ Over(threshold, e) /\ Over(mark, e) /\ Over(earned, e)
          /\ Over(managed, e)
    BY OverSix
  <2> QED
    BY <2>1, OverMore
<1>2. PICK i \in Int : Is(p, i, d)
  BY <1>1 DEF Over
<1>3. PICK b \in Int : Is(base, b, d)
  BY <1>1 DEF Over
<1>4. PICK t \in Int : Is(threshold, t, d)
  BY <1>1 DEF Over
<1>5. PICK m \in Int : Is(mark, m, d)
  BY <1>1 DEF Over
<1>6. PICK g \in Int : Is(earned, g, d)
  BY <1>1 DEF Over
<1>23. PICK q \in Int : Is(managed, q, d)
  BY <1>1 DEF Over
<1>24. PICK u \in Int : Is(more, u, d)
  BY <1>1 DEF Over
<1> DEFINE x == IF b - t < 0 THEN 0 ELSE b - t
           w == b * d - i * x
           y == w - u * d
           n == IF m * d < y THEN y ELSE m * d
<1>7. i \in Nat /\ m <= t /\ u \in Nat
  <2>1. i >= 0
    BY <1>2, PositiveIs
  <2>2. m <= t
    BY <1>4, <1>5, IsOrder
  <2>3. u >= 0
    BY <1>24, PositiveIs
  <2> QED
    BY <2>1, <2>2, <2>3
<1>8. Is(Zero, 0, d) /\ Is(One, d, d) /\ Is(One, d * d, d * d) /\ d * d \in Nat \ {0}
  <2>1. d * d \in Nat \ {0}
    BY ProductIsPositive
  <2> QED
    BY <2>1, ZeroIs
<1>9. (d - i) * g <= i * (m + q - d)
  <2>1. Is(One -- p, d - i, d) /\ Is(mark -- One, m - d, d)
    BY <1>2, <1>5, <1>8, DifferenceIs
  <2>2. Is((mark -- One) ++ managed, (m - d) + q, d)
    BY <2>1, <1>23, PlusIs
  <2>3. Is((One -- p) ** earned, (d - i) * g, d * d)
    BY <2>1, <1>6, TimesIs
  <2>4. Is(p ** ((mark -- One) ++ managed), i * ((m - d) + q), d * d)
    BY <2>2, <1>2, TimesIs
  <2>5. (d - i) * g <= i * ((m - d) + q)
    BY <2>3, <2>4, IsOrder
  <2>6. (m - d) + q = m + q - d
    OBVIOUS
  <2> QED
    BY <2>5, <2>6
<1>10. x \in Nat /\ Is(Larger(base -- threshold, Zero), x, d)
  <2>1. Is(base -- threshold, b - t, d)
    BY <1>3, <1>4, DifferenceIs
  <2>2. Is(Larger(base -- threshold, Zero), IF b - t < 0 THEN 0 ELSE b - t, d)
    BY <2>1, <1>8, LargerIs
  <2> QED
    BY <2>2
<1> HIDE DEF x
<1>11. Is(fee, i * x, d * d)
  BY <1>2, <1>10, TimesIs
<1>12. /\ Is(earned, g * d, d * d) /\ Is(base, b * d, d * d) /\ Is(mark, m * d, d * d)
       /\ Is(managed, q * d, d * d) /\ Is(more, u * d, d * d)
  BY <1>3, <1>5, <1>6, <1>23, <1>24, IsScaled
<1>13. Is(base -- fee, w, d * d)
  BY <1>11, <1>12, DifferenceIs
<1>25. Is((base -- fee) -- more, y, d * d)
  <2> HIDE DEF w
  <2> QED
    BY <1>12, <1>13, DifferenceIs
<1>14. Is(later, n, d * d)
  BY <1>12, <1>25, LargerIs
<1>15. w \in Int /\ m * d \in Int /\ u * d \in Nat
  BY <1>7, <1>10
<1> HIDE DEF w
<1>16. n \in Int /\ m * d <= n + u * d /\ w <= n + u * d
  BY <1>15
<1> DEFINE dd == d * d
           s == n + u * d
<1> HIDE DEF n
<1>17. Is((later -- One) ++ (managed ++ more), (n - dd) + (q * d + u * d), dd)
  <2>1. Is(later -- One, n - dd, dd)
    BY <1>8, <1>14, DifferenceIs
  <2>2. Is(managed ++ more, q * d + u * d, dd)
    BY <1>12, PlusIs
  <2> QED
    BY <2>1, <2>2, PlusIs
<1>18. Is(earned ++ fee, g * d + i * x, dd)
  BY <1>11, <1>12, PlusIs
<1>19. Is(One -- p, d - i, d)
  BY <1>2, <1>8, DifferenceIs
<1>20. Is((One -- p) ** (earned ++ fee), (d - i) * (g * d + i * x), d * dd)
  BY <1>18, <1>19, TimesIs
<1>21. Is(p ** ((later -- One) ++ (managed ++ more)), i * ((n - dd) + (q * d + u * d)), d * dd)
  BY <1>2, <1>17, TimesIs
<1>22. (d - i) * (g * d + i * x) <= i * ((n - dd) + (q * d + u * d))
  <2>1. x = IF b - t < 0 THEN 0 ELSE b - t
    BY DEF x
  <2>2. s \in Int /\ m * d <= s /\ b * d - i * x <= s
    BY <1>15, <1>16 DEF w
  <2>3. s + q * d - dd = (n - dd) + (q * d + u * d)
    BY <1>8, <1>15, <1>16
  <2> HIDE DEF s
  <2>4. (d - i) * (g * d + i * x) <= i * (s + q * d - d * d)
    BY <1>7, <1>9, <1>10, <2>1, <2>2, FeeIsCovered
  <2> QED
    BY <2>3, <2>4
<1> QED
  BY <1>20, <1>21, <1>22, IsOrder
-----------------------------------------------------------------------------
(* The inductive invariant of a record.                                    *)

\* The returns of stock and market are numbers above minus one, one of each for
\* every period.
SeriesFit ==
  /\ stock \in Seq(Rationals) /\ market \in Seq(Rationals)
  /\ Len(market) = Len(stock)
  /\ \A i \in DOMAIN stock : Minus(One) \prec stock[i] /\ Minus(One) \prec market[i]

\* Every report is a blend of the return and of the report before.
ReportsBlend ==
  /\ appraised \in Seq(Rationals) /\ Len(appraised) = Len(stock)
  /\ \A i \in DOMAIN stock :
       i > 1 => appraised[i] = (One -- smoothing) ** stock[i] ++ smoothing ** appraised[i - 1]

FundsFit == funds \in [Agreements -> FundRecords]

\* What FeesAreEarned says of one fund.
Uncounted(fund, a) == IF a.net_of_management THEN Zero ELSE fund.managed
Earned(fund, a) ==
  /\ \A i \in DOMAIN fund.values : fund.values[i] \preceq fund.mark
  /\ (One -- a.incentive) ** fund.earned
       \preceq a.incentive ** ((fund.mark -- One) ++ Uncounted(fund, a))

LEMMA FeesAreEarnedBy == FeesAreEarned <=> \A a \in Agreements : Earned(funds[a], a)
BY DEF FeesAreEarned, Earned, Uncounted

RecordInv == SeriesFit /\ ReportsBlend /\ FundsFit /\ FeesAreEarned

LEMMA ConstantsAreNumbers ==
  /\ Zero \in Rationals /\ One \in Rationals /\ smoothing \in Rationals /\ rf \in Rationals
  /\ One -- smoothing \in Rationals
<1>1. Zero \in Rationals /\ One \in Rationals
  <2>1. 1 \in Nat \ {0}
    OBVIOUS
  <2> QED
    BY <2>1, ZeroIs
<1>2. smoothing \in Rationals /\ rf \in Rationals
  BY TrackRecordAssumption
<1> QED
  BY <1>1, <1>2, Closed

LEMMA RecordStarts == RecordInit => RecordInv
<1> SUFFICES ASSUME RecordInit PROVE RecordInv
  OBVIOUS
<1>1. /\ stock = <<>> /\ market = <<>> /\ appraised = <<>>
      /\ funds = [a \in Agreements |-> [values |-> <<One>>, mark |-> One, managed |-> Zero, earned |-> Zero]]
  BY DEF RecordInit
<1>2. One \in Rationals /\ Zero \in Rationals
  BY ConstantsAreNumbers
<1>3. SeriesFit /\ ReportsBlend
  BY <1>1 DEF SeriesFit, ReportsBlend
<1>4. FundsFit
  <2>1. <<One>> \in Seq(Rationals) /\ <<One>> # <<>>
    BY <1>2
  <2> QED
    BY <1>1, <1>2, <2>1 DEF FundsFit, FundRecords
<1>5. FeesAreEarned
  <2> SUFFICES ASSUME NEW a \in Agreements PROVE Earned(funds[a], a)
    BY FeesAreEarnedBy
  <2>1. /\ funds[a].mark = One /\ funds[a].earned = Zero /\ funds[a].values = <<One>>
        /\ Uncounted(funds[a], a) = Zero /\ a.incentive \in Rationals
    BY <1>1, AgreementParts DEF Uncounted
  <2>2. One \preceq One
    BY <1>2, Transitive
  <2>3. \A i \in DOMAIN <<One>> : <<One>>[i] = One
    OBVIOUS
  <2>4. (One -- a.incentive) ** Zero \preceq a.incentive ** ((One -- One) ++ Zero)
    <3> DEFINE p == a.incentive
    <3>1. PICK n \in Int, m \in Int, d \in Nat \ {0} : Is(p, n, d) /\ Is(One, m, d)
      BY <1>2, <2>1, IsCommon
    <3> HIDE DEF p
    <3>2. Is(One, d, d) /\ Is(Zero, 0, d)
      BY ZeroIs
    <3>3. Is(One -- p, d - n, d) /\ Is(One -- One, d - d, d)
      BY <3>1, <3>2, DifferenceIs
    <3>6. Is((One -- One) ++ Zero, (d - d) + 0, d)
      BY <3>2, <3>3, PlusIs
    <3>4. Is((One -- p) ** Zero, (d - n) * 0, d * d) /\ Is(p ** ((One -- One) ++ Zero), n * ((d - d) + 0), d * d)
      BY <3>1, <3>2, <3>3, <3>6, TimesIs
    <3>5. (d - n) * 0 <= n * ((d - d) + 0)
      BY <3>1
    <3> QED
      BY <3>4, <3>5, IsOrder DEF p
  <2> QED
    BY <2>1, <2>2, <2>3, <2>4 DEF Earned
<1> QED
  BY <1>3, <1>4, <1>5 DEF RecordInv

\* A return, and what the appraiser makes of it.
LEMMA SeriesGrow ==
  ASSUME SeriesFit, ReportsBlend, NEW move \in Moves, Period(move)
  PROVE  SeriesFit' /\ ReportsBlend'
<1>1. /\ stock' = Append(stock, move[1]) /\ market' = Append(market, move[2])
      /\ appraised' = Append(appraised, Report(move[1]))
  BY DEF Period
<1>2. /\ move[1] \in Rationals /\ move[2] \in Rationals
      /\ Minus(One) \prec move[1] /\ Minus(One) \prec move[2]
  BY TrackRecordAssumption DEF Names
<1>3. /\ stock \in Seq(Rationals) /\ market \in Seq(Rationals) /\ appraised \in Seq(Rationals)
      /\ Len(market) = Len(stock) /\ Len(appraised) = Len(stock)
  BY DEF SeriesFit, ReportsBlend
<1>4. Report(move[1]) \in Rationals
  <2>1. CASE appraised = <<>>
    BY <1>2, <2>1 DEF Report
  <2>2. CASE appraised # <<>>
    <3>1. appraised[Len(appraised)] \in Rationals
      BY <1>3, <2>2
    <3>2. (One -- smoothing) ** move[1] \in Rationals /\ smoothing ** appraised[Len(appraised)] \in Rationals
      BY <1>2, <3>1, ConstantsAreNumbers, Closed
    <3> QED
      BY <2>2, <3>2, Closed DEF Report
  <2> QED
    BY <2>1, <2>2
<1> DEFINE n == Len(stock)
<1>5. /\ stock' \in Seq(Rationals) /\ market' \in Seq(Rationals) /\ appraised' \in Seq(Rationals)
      /\ Len(stock') = n + 1 /\ Len(market') = n + 1 /\ Len(appraised') = n + 1
      /\ \A i \in 1..n : stock'[i] = stock[i] /\ market'[i] = market[i] /\ appraised'[i] = appraised[i]
      /\ stock'[n + 1] = move[1] /\ market'[n + 1] = move[2] /\ appraised'[n + 1] = Report(move[1])
      /\ n \in Nat
  BY <1>1, <1>2, <1>3, <1>4
<1>6. SeriesFit'
  <2>1. ASSUME NEW i \in DOMAIN stock' PROVE Minus(One) \prec stock'[i] /\ Minus(One) \prec market'[i]
    <3>1. CASE i = n + 1
      BY <1>2, <1>5, <3>1
    <3>2. CASE i \in 1..n
      BY <1>3, <1>5, <3>2 DEF SeriesFit
    <3>3. i \in 1..(n + 1)
      BY <1>5
    <3> QED
      BY <1>5, <3>1, <3>2, <3>3
  <2> QED
    BY <1>5, <2>1 DEF SeriesFit
<1>7. ReportsBlend'
  <2>1. ASSUME NEW i \in DOMAIN stock', i > 1
        PROVE  appraised'[i] = (One -- smoothing) ** stock'[i] ++ smoothing ** appraised'[i - 1]
    <3>1. CASE i = n + 1
      <4>1. appraised # <<>> /\ appraised[Len(appraised)] = appraised'[i - 1]
        BY <1>3, <1>5, <2>1, <3>1
      <4> QED
        BY <1>5, <3>1, <4>1 DEF Report
    <3>2. CASE i \in 1..n
      <4>1. i - 1 \in 1..n
        BY <2>1, <3>2
      <4>2. appraised[i] = (One -- smoothing) ** stock[i] ++ smoothing ** appraised[i - 1]
        BY <1>3, <2>1, <3>2 DEF ReportsBlend
      <4> QED
        BY <1>5, <3>2, <4>1, <4>2
    <3>3. i \in 1..(n + 1)
      BY <1>5
    <3> QED
      BY <1>5, <3>1, <3>2, <3>3
  <2> QED
    BY <1>5, <2>1 DEF ReportsBlend
<1> QED
  BY <1>6, <1>7

\* A period of one fund.
LEMMA FundStep ==
  ASSUME NEW a \in Agreements, NEW r \in Rationals, Minus(One) \prec r, NEW fund \in FundRecords
  PROVE  LET later == FundAfter(fund, r, a)
         IN later \in FundRecords /\ (Earned(fund, a) => Earned(later, a))
<1> DEFINE b == fund.values[Len(fund.values)]
           e == b ** (One ++ r)
           fees == hedge_fund_fees(b, e, fund.mark, a)
           later == FundAfter(fund, r, a)
<1>1. CASE b \preceq Zero
  BY <1>1 DEF FundAfter
<1>2. CASE ~ (b \preceq Zero)
  <2>1. later = [values |-> Append(fund.values, fees.net), mark |-> fees.mark,
                 managed |-> fund.managed ++ fees.management,
                 earned |-> fund.earned ++ fees.incentive]
    BY <1>2 DEF FundAfter
  <2>2. fund.values \in Seq(Rationals) /\ fund.mark \in Rationals /\ fund.earned \in Rationals
        /\ fund.managed \in Rationals /\ fund.values # <<>>
    BY DEF FundRecords
  <2>3. b \in Rationals
    BY <2>2
  <2>4. e \in Rationals /\ Zero \preceq b /\ Zero \preceq e
    <3> HIDE DEF b
    <3>1. Zero \prec b
      BY <1>2, <2>3, ConstantsAreNumbers, Transitive
    <3>2. Zero \prec One ++ r /\ One ++ r \in Rationals
      BY AboveMinusOne
    <3>3. Zero \prec e /\ e \in Rationals
      BY <2>3, <3>1, <3>2, PositiveProduct, Closed
    <3> HIDE DEF e
    <3> QED
      BY <2>3, <3>1, <3>3, ConstantsAreNumbers, Transitive
  <2>5. /\ fees.net \in Rationals /\ fees.management \in Rationals
        /\ fees.incentive \in Rationals /\ fees.mark \in Rationals
    <3> HIDE DEF b, e
    <3> QED
      BY <2>2, <2>3, <2>4, FeesAreNumbers
  <2>6. later \in FundRecords
    <3>1. fund.earned ++ fees.incentive \in Rationals /\ fund.managed ++ fees.management \in Rationals
      <4> HIDE DEF fees
      <4> QED
        BY <2>2, <2>5, Closed
    <3> HIDE DEF fees
    <3>2. Append(fund.values, fees.net) \in Seq(Rationals) \ {<<>>}
      BY <2>2, <2>5
    <3> QED
      BY <2>1, <2>5, <3>1, <3>2 DEF FundRecords
  <2>7. ASSUME Earned(fund, a) PROVE Earned(later, a)
    <3> DEFINE net == a.net_of_management
               management == a.management ** (IF a.basis = "BEGINNING" THEN b ELSE e)
               base == IF net THEN e -- management ELSE e
               threshold == Larger(fund.mark, b ** (One ++ a.hurdle))
               fee == a.incentive ** Larger(base -- threshold, Zero)
               more == IF net THEN Zero ELSE management
               left == (base -- fee) -- more
    <3>1. fees = [net |-> e -- (management ++ fee), management |-> management, incentive |-> fee,
                  mark |-> Larger(fund.mark, e -- (management ++ fee))]
      BY DEF hedge_fund_fees
    <3> HIDE DEF b, e, fees
    <3>2. management \in Rationals /\ Zero \preceq management
      <4> DEFINE charged == IF a.basis = "BEGINNING" THEN b ELSE e
      <4>1. charged \in Rationals /\ Zero \preceq charged
        BY <2>3, <2>4
      <4>2. management = a.management ** charged
        OBVIOUS
      <4> HIDE DEF charged, management
      <4>3. a.management \in Rationals /\ Zero \preceq a.management
        BY AgreementParts
      <4>4. a.management ** charged \in Rationals /\ Zero \preceq a.management ** charged
        BY ONLY <4>1, <4>3, NoLessThanNothing, Closed
      <4> QED
        BY <4>2, <4>4
    <3>3. base \in Rationals /\ threshold \in Rationals /\ fund.mark \preceq threshold
      <4>1. b ** (One ++ a.hurdle) \in Rationals
        BY <2>3, AgreementParts, ConstantsAreNumbers, Closed
      <4> QED
        BY <2>2, <2>4, <3>2, <4>1, Closed, LargerIsLarger
    <3>4. more \in Rationals /\ Zero \preceq more
      <4>1. Zero \preceq Zero
        BY ConstantsAreNumbers, Transitive
      <4> QED
        BY <3>2, <4>1, ConstantsAreNumbers
    <3> HIDE DEF management, threshold
    <3>5. fee \in Rationals
      <4> HIDE DEF base
      <4> QED
        BY <3>3, AgreementParts, ConstantsAreNumbers, Closed
    <3>6. e -- (management ++ fee) = left
      <4> HIDE DEF fee
      <4>1. e -- (management ++ fee) = (e -- management) -- fee
        BY <2>4, <3>2, <3>5, TakenTwice
      <4>2. management ++ fee = fee ++ management
        BY <3>2, <3>5, PlusLaws
      <4>3. e -- (fee ++ management) = (e -- fee) -- management
        BY <2>4, <3>2, <3>5, TakenTwice
      <4>4. (e -- management) -- fee \in Rationals
        BY <2>4, <3>2, <3>5, Closed
      <4>5. ((e -- management) -- fee) -- Zero = (e -- management) -- fee
        BY <4>4, PlusLaws
      <4>6. CASE net
        BY <4>1, <4>5, <4>6
      <4>7. CASE ~ net
        BY <4>2, <4>3, <4>7
      <4> QED
        BY <4>6, <4>7
    <3>7. left \in Rationals
      <4> HIDE DEF base, fee, more
      <4> QED
        BY <3>3, <3>4, <3>5, Closed
    <3>8. /\ later.earned = fund.earned ++ fee /\ later.mark = Larger(fund.mark, left)
          /\ later.managed = fund.managed ++ management /\ later.values = Append(fund.values, left)
      <4> HIDE DEF fee, left
      <4> QED
        BY <2>1, <3>1, <3>6
    <3> DEFINE uncounted == Uncounted(fund, a)
    <3>9. uncounted \in Rationals /\ Uncounted(later, a) = uncounted ++ more
      <4>1. CASE net
        <5>1. Zero ++ Zero = Zero
          BY ConstantsAreNumbers, PlusLaws
        <5> QED
          BY <4>1, <5>1, ConstantsAreNumbers DEF Uncounted
      <4>2. CASE ~ net
        BY <2>2, <3>8, <4>2 DEF Uncounted
      <4> QED
        BY <4>1, <4>2
    <3>10. (One -- a.incentive) ** fund.earned \preceq a.incentive ** ((fund.mark -- One) ++ uncounted)
      BY <2>7 DEF Earned
    <3> HIDE DEF base, more, later, uncounted
    <3>11. (One -- a.incentive) ** (fund.earned ++ fee)
             \preceq a.incentive ** ((Larger(fund.mark, left) -- One) ++ (uncounted ++ more))
      <4> DEFINE next == Larger(fund.mark, left)
      <4>1. a.incentive \in Rationals /\ Zero \preceq a.incentive
        BY AgreementParts
      <4>2. fee = a.incentive ** Larger(base -- threshold, Zero)
            /\ next = Larger(fund.mark, (base -- fee) -- more)
        OBVIOUS
      <4>3. fund.mark \in Rationals /\ fund.earned \in Rationals
        BY <2>2
      <4> HIDE DEF fee, left, next
      <4>4. (One -- a.incentive) ** (fund.earned ++ fee)
              \preceq a.incentive ** ((next -- One) ++ (uncounted ++ more))
        BY ONLY <3>3, <3>4, <3>9, <3>10, <4>1, <4>2, <4>3, FeesAreCovered
      <4> QED
        BY <4>4 DEF next
    <3> HIDE DEF fee, left
    <3>12. fund.mark \preceq later.mark /\ left \preceq later.mark /\ later.mark \in Rationals
      <4>1. fund.mark \in Rationals /\ later.mark = Larger(fund.mark, left)
        BY <2>2, <3>8
      <4>2. Larger(fund.mark, left) \in {fund.mark, left}
        BY DEF Larger
      <4> QED
        BY ONLY <3>7, <4>1, <4>2, LargerIsLarger
    <3>13. ASSUME NEW i \in DOMAIN later.values PROVE later.values[i] \preceq later.mark
      <4>1. CASE i = Len(fund.values) + 1
        <5>1. later.values[i] = left
          BY <2>2, <3>8, <4>1
        <5> QED
          BY <3>12, <5>1
      <4>2. CASE i \in 1..Len(fund.values)
        <5>1. later.values[i] = fund.values[i] /\ fund.values[i] \in Rationals
              /\ fund.values[i] \preceq fund.mark
          BY <2>2, <2>7, <3>8, <4>2 DEF Earned
        <5> QED
          BY <2>2, <3>12, <5>1, Transitive
      <4>3. i \in 1..(Len(fund.values) + 1) /\ Len(fund.values) \in Nat
        BY <2>2, <3>8
      <4> QED
        BY <4>1, <4>2, <4>3
    <3> QED
      BY <3>8, <3>9, <3>11, <3>13 DEF Earned
  <2> QED
    BY <2>6, <2>7
<1> QED
  BY <1>1, <1>2

LEMMA FundsGrow ==
  ASSUME FundsFit, FeesAreEarned, NEW move \in Moves, Period(move)
  PROVE  FundsFit' /\ FeesAreEarned'
<1>1. /\ funds' = [a \in Agreements |-> FundAfter(funds[a], move[1], a)]
      /\ move[1] \in Rationals /\ Minus(One) \prec move[1]
  BY TrackRecordAssumption DEF Period, Names
<1>2. ASSUME NEW a \in Agreements
      PROVE  funds[a] \in FundRecords /\ funds'[a] = FundAfter(funds[a], move[1], a)
  BY <1>1 DEF FundsFit
<1>3. FundsFit'
  <2>1. ASSUME NEW a \in Agreements PROVE FundAfter(funds[a], move[1], a) \in FundRecords
    BY <1>1, <1>2, FundStep
  <2> QED
    BY <1>1, <2>1 DEF FundsFit
<1>4. FeesAreEarned'
  <2>1. ASSUME NEW a \in Agreements PROVE Earned(funds'[a], a)
    <3>1. Earned(funds[a], a)
      BY FeesAreEarnedBy
    <3> QED
      BY <1>1, <1>2, <3>1, FundStep
  <2> QED
    BY <2>1 DEF FeesAreEarned, Earned, Uncounted
<1> QED
  BY <1>3, <1>4

LEMMA RecordContinues == RecordInv /\ [NextPeriod]_record => RecordInv'
<1> SUFFICES ASSUME RecordInv, [NextPeriod]_record PROVE RecordInv'
  OBVIOUS
<1>1. CASE NextPeriod
  <2>1. PICK move \in Moves : Period(move)
    BY <1>1 DEF NextPeriod
  <2> QED
    BY <2>1, SeriesGrow, FundsGrow DEF RecordInv
<1>2. CASE UNCHANGED record
  BY <1>2 DEF record, RecordInv, SeriesFit, ReportsBlend, FundsFit, FeesAreEarned
<1> QED
  BY <1>1, <1>2

THEOREM RecordHolds == RecordSpec => []RecordInv
<1>1. RecordInv /\ [NextPeriod]_record => RecordInv'
  BY RecordContinues
<1> QED
  BY <1>1, RecordStarts, PTL DEF RecordSpec

THEOREM FeesHold == RecordSpec => []FeesAreEarned
<1>1. RecordInv => FeesAreEarned
  BY DEF RecordInv
<1> QED
  BY <1>1, RecordHolds, PTL
-----------------------------------------------------------------------------
(* The curve of a record.                                                  *)

LEMMA GrowthIs ==
  ASSUME NEW x \in Seq(Rationals), NEW p,
         PartialProducts(p, [i \in 1..Len(x) |-> One ++ x[i]]),
         NEW k \in 0..Len(x)
  PROVE  Growth(SubSeq(x, 1, k)) = p[k] /\ p[k] \in Rationals
<1> DEFINE n == Len(x)
           f == [i \in 1..n |-> One ++ x[i]]
           y == SubSeq(x, 1, k)
           g == [i \in 1..k |-> One ++ x[i]]
<1>1. n \in Nat /\ \A i \in 1..n : x[i] \in Rationals
  OBVIOUS
<1>2. \A i \in 1..n : One ++ x[i] \in Rationals
  BY <1>1, ConstantsAreNumbers, Closed
<1>3. f \in [1..n -> Rationals] /\ g \in [1..k -> Rationals] /\ k \in Nat
  BY <1>1, <1>2
<1>4. Len(f) = n /\ Len(g) = k /\ g \in Seq(Rationals) /\ Listed(g) = g
  <2> HIDE DEF f, g
  <2> QED
    BY <1>1, <1>3, FunctionIsSequence
<1>5. Len(y) = k /\ [i \in 1..Len(y) |-> One ++ y[i]] = g
  <2>1. Len(y) = k /\ \A i \in 1..k : y[i] = x[i]
    BY <1>1
  <2> QED
    BY <2>1
<1>6. Growth(y) = Product(g)
  BY <1>4, <1>5 DEF Growth
<1>7. p \in [0..n -> Rationals] /\ p[0] = One /\ \A j \in 1..n : p[j] = p[j - 1] ** f[j]
  <2> HIDE DEF f
  <2> QED
    BY <1>4 DEF PartialProducts, f
<1> DEFINE q == [j \in 0..k |-> p[j]]
<1>8. PartialProducts(q, g)
  <2>1. q \in [0..k -> Rationals]
    BY <1>1, <1>7
  <2>2. q[0] = One
    BY <1>3, <1>7
  <2>3. ASSUME NEW j \in 1..k PROVE q[j] = q[j - 1] ** g[j]
    <3>1. j \in 1..n /\ j \in 0..k /\ j - 1 \in 0..k
      BY <1>1, <1>3
    <3>2. f[j] = g[j]
      BY <3>1
    <3> QED
      BY <1>7, <3>1, <3>2
  <2> HIDE DEF q, g
  <2> QED
    BY <1>4, <2>1, <2>2, <2>3 DEF PartialProducts
<1>9. Product(g) = q[k]
  <2> HIDE DEF q, g
  <2> QED
    BY <1>4, <1>8, ProductIsLast
<1> QED
  BY <1>3, <1>6, <1>7, <1>9, SMTT(40)

LEMMA CurveParts ==
  ASSUME NEW x \in Seq(Rationals), \A i \in DOMAIN x : Minus(One) \prec x[i]
  PROVE  LET c == CurveOf(x)
             n == Len(x)
         IN /\ c \in Seq(Rationals) /\ Len(c) = n + 1 /\ c[1] = One /\ c[n + 1] = Growth(x)
            /\ \A i \in 1..(n + 1) : c[i] \in Rationals /\ Zero \prec c[i]
            /\ \A i \in 1..n : c[i + 1] = c[i] ** (One ++ x[i])
<1> DEFINE n == Len(x)
           f == [i \in 1..n |-> One ++ x[i]]
           c == [i \in 1..(n + 1) |-> Growth(SubSeq(x, 1, i - 1))]
<1>1. n \in Nat /\ \A i \in 1..n : x[i] \in Rationals /\ Minus(One) \prec x[i]
  OBVIOUS
<1>2. \A i \in 1..n : f[i] \in Rationals /\ Zero \prec f[i]
  BY <1>1, AboveMinusOne
<1>3. f \in Seq(Rationals) /\ Len(f) = n
  <2>1. f \in [1..n -> Rationals]
    BY <1>2
  <2> HIDE DEF f
  <2> QED
    BY <1>1, <2>1, FunctionIsSequence
<1>4. PICK p : PartialProducts(p, f)
  <2> HIDE DEF f
  <2> QED
    BY <1>3, PartialProductsExist
<1>5. p \in [0..n -> Rationals] /\ p[0] = One /\ \A k \in 1..n : p[k] = p[k - 1] ** f[k]
  <2> HIDE DEF f
  <2> QED
    BY <1>3, <1>4 DEF PartialProducts
<1>6. \A k \in 0..n : Growth(SubSeq(x, 1, k)) = p[k]
  BY <1>4, GrowthIs
<1>7. \A i \in 1..(n + 1) : c[i] = p[i - 1] /\ i - 1 \in 0..n
  BY <1>1, <1>6
<1>8. \A k \in 0..n : Zero \prec p[k]
  <2> DEFINE B == {k \in 0..n : ~ (Zero \prec p[k])}
  <2>1. ASSUME B # {} PROVE FALSE
    <3>1. B \in SUBSET Nat
      OBVIOUS
    <3>2. PICK k \in B : \A m \in B : k <= m
      <4> HIDE DEF B
      <4> QED
        BY <2>1, <3>1, SmallestNat
    <3>3. k \in 0..n /\ ~ (Zero \prec p[k])
      OBVIOUS
    <3>4. k # 0
      <4>1. Zero \prec One
        <5>1. Is(One, 1, 1)
          BY IsWhole DEF One
        <5> QED
          BY <5>1, PositiveIs
      <4> QED
        BY <1>5, <3>3, <4>1
    <3>5. k - 1 \in 0..n /\ k \in 1..n /\ ~ (k <= k - 1)
      BY <3>3, <3>4
    <3>6. k - 1 \notin B
      <4> HIDE DEF B
      <4> QED
        BY <3>2, <3>5
    <3>7. Zero \prec p[k - 1]
      BY <3>5, <3>6
    <3> HIDE DEF f
    <3>8. Zero \prec p[k - 1] ** f[k]
      BY <1>2, <1>5, <3>5, <3>7, PositiveProduct
    <3> QED
      BY <1>5, <3>3, <3>5, <3>8
  <2> QED
    BY <2>1
<1>9. c \in [1..(n + 1) -> Rationals]
  BY <1>5, <1>7
<1>10. c \in Seq(Rationals) /\ Len(c) = n + 1 /\ CurveOf(x) = c
  <2>1. CurveOf(x) = Listed(c)
    BY DEF CurveOf
  <2>2. n + 1 \in Nat
    BY <1>1
  <2> HIDE DEF c
  <2> QED
    BY <1>9, <2>1, <2>2, FunctionIsSequence
<1>11. c[1] = One
  BY <1>1, <1>5, <1>7
<1>12. c[n + 1] = Growth(x)
  <2>1. SubSeq(x, 1, n) = x
    BY <1>1
  <2>2. n + 1 \in 1..(n + 1) /\ (n + 1) - 1 = n
    BY <1>1
  <2> QED
    BY <2>1, <2>2
<1>13. \A i \in 1..(n + 1) : c[i] \in Rationals /\ Zero \prec c[i]
  BY <1>5, <1>7, <1>8
<1>14. \A i \in 1..n : c[i + 1] = c[i] ** (One ++ x[i])
  <2>1. ASSUME NEW i \in 1..n PROVE c[i + 1] = c[i] ** (One ++ x[i])
    <3>1. i \in 1..(n + 1) /\ i + 1 \in 1..(n + 1) /\ (i + 1) - 1 = i
      BY <1>1
    <3>2. c[i + 1] = p[i] /\ c[i] = p[i - 1]
      BY <1>7, <3>1
    <3> QED
      BY <1>5, <3>2
  <2> QED
    BY <2>1
<1> HIDE DEF c
<1> QED
  BY <1>10, <1>11, <1>12, <1>13, <1>14
-----------------------------------------------------------------------------
(* What a holder had.                                                      *)

LEMMA ReturnGivenBack ==
  ASSUME NEW a \in Rationals, NEW r \in Rationals, Zero \prec a
  PROVE  ((a ** (One ++ r)) // a) -- One = r
<1>1. PICK n \in Int, m \in Int, d \in Nat \ {0} : Is(a, n, d) /\ Is(r, m, d)
  BY IsCommon
<1>2. n \in Nat \ {0}
  BY <1>1, PositiveIs
<1>3. Is(One, d, d)
  BY ZeroIs
<1>4. Is(One ++ r, d + m, d)
  BY <1>1, <1>3, PlusIs
<1>5. Is(a ** (One ++ r), n * (d + m), d * d)
  BY <1>1, <1>4, TimesIs
<1> DEFINE i == (n * (d + m)) * d
           j == (d * d) * n
<1>6. Is((a ** (One ++ r)) // a, i, j)
  <2> DEFINE u == n * (d + m)
             v == d * d
             w == a ** (One ++ r)
  <2>1. Is(w, u, v) /\ Is(a, n, d) /\ n > 0
    BY <1>1, <1>2, <1>5
  <2> HIDE DEF u, v, w
  <2>2. Is(w // a, u * d, v * n)
    BY <2>1, QuotientIs
  <2> QED
    BY <2>2 DEF u, v, w
<1>7. j \in Nat \ {0} /\ i \in Int
  BY <1>2, ProductIsPositive
<1>8. (i - j) * d = m * j
  <2>1. (n * (d + m)) * d - (d * d) * n = m * (d * n)
    OBVIOUS
  <2>2. (m * (d * n)) * d = m * ((d * d) * n)
    OBVIOUS
  <2> QED
    BY <2>1, <2>2
<1> HIDE DEF i, j
<1>9. Is(((a ** (One ++ r)) // a) -- One, i - j, j)
  <2>1. Is(One, j, j)
    BY <1>7, ZeroIs
  <2> QED
    BY <1>6, <2>1, DifferenceIs
<1> QED
  BY <1>1, <1>8, <1>9, IsSame

LEMMA HeldForOne ==
  ASSUME NEW a \in Rationals
  PROVE  ((a -- One) ++ Zero) // One = a -- One
<1>1. PICK n \in Int, d \in Nat \ {0} : Is(a, n, d)
  BY IsItself, RationalParts
<1>2. Is(One, d, d) /\ Is(Zero, 0, d) /\ Is(One, 1, 1)
  BY ZeroIs, IsWhole DEF One
<1>3. Is(a -- One, n - d, d)
  BY <1>1, <1>2, DifferenceIs
<1>4. Is((a -- One) ++ Zero, (n - d) + 0, d)
  BY <1>2, <1>3, PlusIs
<1>5. Is(((a -- One) ++ Zero) // One, ((n - d) + 0) * 1, d * 1)
  <2>1. 1 > 0
    OBVIOUS
  <2> QED
    BY <1>2, <1>4, <2>1, QuotientIs
<1>6. ((n - d) + 0) * 1 = n - d /\ d * 1 = d
  OBVIOUS
<1> QED
  BY <1>3, <1>5, <1>6, IsOrder

LEMMA Unblended ==
  ASSUME NEW s \in Rationals, s \prec One, NEW r \in Rationals, NEW q \in Rationals
  PROVE  (((One -- s) ** r ++ s ** q) -- s ** q) // (One -- s) = r
<1>1. PICK d \in Nat \ {0} : Over(s, d) /\ Over(r, d) /\ Over(q, d)
  BY OverThree
<1>2. PICK n \in Int : Is(s, n, d)
  BY <1>1 DEF Over
<1>3. PICK m \in Int : Is(r, m, d)
  BY <1>1 DEF Over
<1>4. PICK k \in Int : Is(q, k, d)
  BY <1>1 DEF Over
<1>5. Is(One, d, d)
  BY ZeroIs
<1>6. Is(One -- s, d - n, d) /\ d - n > 0
  BY <1>2, <1>5, DifferenceIs, IsOrder
<1>7. Is((One -- s) ** r, (d - n) * m, d * d) /\ Is(s ** q, n * k, d * d)
  BY <1>2, <1>3, <1>4, <1>6, TimesIs
<1> DEFINE u == (d - n) * m
           v == n * k
           e == d * d
<1> HIDE DEF u, v, e
<1>8. Is(((One -- s) ** r ++ s ** q) -- s ** q, (u + v) - v, e)
  BY <1>7, PlusIs, DifferenceIs DEF u, v, e
<1>9. Is((((One -- s) ** r ++ s ** q) -- s ** q) // (One -- s), ((u + v) - v) * d, e * (d - n))
  BY <1>6, <1>8, QuotientIs
<1>10. (((u + v) - v) * d) * d = m * (e * (d - n))
  <2>1. u \in Int /\ v \in Int
    BY DEF u, v
  <2>2. (u + v) - v = u
    BY <2>1
  <2>3. (((d - n) * m) * d) * d = m * ((d * d) * (d - n))
    OBVIOUS
  <2> QED
    BY <2>2, <2>3 DEF u, e
<1> QED
  BY <1>3, <1>9, <1>10, IsSame

\* The periodic returns of a curve are the returns it was made of.
LEMMA ReturnsOfCurve ==
  ASSUME NEW x \in Seq(Rationals), \A i \in DOMAIN x : Minus(One) \prec x[i]
  PROVE  periodic_returns(CurveOf(x)) = x
<1> DEFINE c == CurveOf(x)
           n == Len(x)
           f == [i \in 1..(Len(c) - 1) |-> c[i + 1] // c[i] -- One]
<1>1. /\ c \in Seq(Rationals) /\ Len(c) = n + 1
      /\ \A i \in 1..(n + 1) : c[i] \in Rationals /\ Zero \prec c[i]
      /\ \A i \in 1..n : c[i + 1] = c[i] ** (One ++ x[i])
  BY CurveParts
<1>2. n \in Nat /\ \A i \in 1..n : x[i] \in Rationals
  OBVIOUS
<1> HIDE DEF c
<1>3. Len(c) - 1 = n
  BY <1>1, <1>2
<1>4. \A i \in 1..n : f[i] = x[i]
  <2>1. ASSUME NEW i \in 1..n PROVE c[i + 1] // c[i] -- One = x[i]
    <3>1. i \in 1..(n + 1)
      BY <1>2
    <3> QED
      BY <1>1, <1>2, <3>1, ReturnGivenBack
  <2> QED
    BY <1>3, <2>1
<1>5. f = x
  <2>1. f = [i \in 1..n |-> f[i]]
    BY <1>3
  <2>2. f \in [1..n -> Rationals]
    BY <1>2, <1>4, <2>1
  <2> HIDE DEF f
  <2> QED
    BY <1>2, <1>4, <2>2, SameSequence
<1>6. ~ \E i \in 1..(Len(c) - 1) : c[i] \preceq Zero
  <2>1. ASSUME NEW i \in 1..n PROVE ~ (c[i] \preceq Zero)
    <3>1. i \in 1..(n + 1)
      BY <1>2
    <3>2. Zero \in Rationals /\ c[i] \in Rationals /\ Zero \prec c[i]
      BY <1>1, <3>1, ConstantsAreNumbers
    <3> QED
      BY <3>2, Transitive
  <2> QED
    BY <1>3, <2>1
<1>7. Listed(f) = f
  <2>1. f \in Seq(Rationals)
    BY <1>5
  <2> HIDE DEF f
  <2> QED
    BY <2>1, ListedIsItself
<1> QED
  BY <1>5, <1>6, <1>7 DEF periodic_returns, c

LEMMA LinkedIsGrowth ==
  ASSUME SeriesFit
  PROVE  LET curve == CurveOf(stock)
         IN /\ time_weighted_return(stock) = holding_period_return(One, curve[Years + 1], Zero)
            /\ Years >= 1 => geometric_mean_return(stock) = curve[Years + 1]
<1>1. stock \in Seq(Rationals) /\ \A i \in DOMAIN stock : Minus(One) \prec stock[i]
  BY DEF SeriesFit
<1> DEFINE c == CurveOf(stock)
           n == Len(stock)
<1>2. c[n + 1] = Growth(stock) /\ n + 1 \in 1..(n + 1) /\ c[n + 1] \in Rationals
  <2>1. n + 1 \in 1..(n + 1)
    BY <1>1
  <2> QED
    BY <1>1, <2>1, CurveParts
<1>3. time_weighted_return(stock) = holding_period_return(One, c[n + 1], Zero)
  <2> HIDE DEF c, n
  <2> QED
    BY <1>2, HeldForOne DEF time_weighted_return, holding_period_return
<1>4. ASSUME n >= 1 PROVE geometric_mean_return(stock) = c[n + 1]
  <2>1. stock # <<>>
    BY <1>4
  <2>2. ASSUME NEW i \in DOMAIN stock PROVE ~ (stock[i] \preceq Minus(One))
    <3>1. stock[i] \in Rationals /\ Minus(One) \in Rationals /\ Minus(One) \prec stock[i]
      BY <1>1, ConstantsAreNumbers, Closed
    <3> QED
      BY <3>1, Transitive
  <2> QED
    BY <1>2, <2>1, <2>2 DEF geometric_mean_return
<1> QED
  BY <1>3, <1>4 DEF Years

\* Unsmoothed, the reports are the returns.
LEMMA ReportsUnsmoothed ==
  ASSUME SeriesFit, ReportsBlend, Years >= 2
  PROVE  unsmooth_returns(appraised, smoothing) = Tail(stock)
<1> DEFINE n == Len(stock)
           f == [t \in 1..(Len(appraised) - 1) |->
                   (appraised[t + 1] -- smoothing ** appraised[t]) // (One -- smoothing)]
<1>1. stock \in Seq(Rationals) /\ appraised \in Seq(Rationals) /\ Len(appraised) = n /\ n >= 2 /\ n \in Nat
  BY DEF SeriesFit, ReportsBlend, Years
<1>2. smoothing \in Rationals /\ smoothing \prec One /\ Minus(One) \prec smoothing
      /\ One \in Rationals /\ Minus(One) \in Rationals
  BY TrackRecordAssumption, ConstantsAreNumbers, Closed
<1>3. ~ (One \preceq smoothing) /\ ~ (smoothing \preceq Minus(One))
  BY <1>2, Transitive
<1>4. unsmooth_returns(appraised, smoothing) = Listed(f)
  BY <1>1, <1>3 DEF unsmooth_returns
<1>5. \A t \in 1..(n - 1) : f[t] = stock[t + 1]
  <2>1. ASSUME NEW t \in 1..(n - 1)
        PROVE  (appraised[t + 1] -- smoothing ** appraised[t]) // (One -- smoothing) = stock[t + 1]
    <3>1. t + 1 \in 1..n /\ t \in 1..n /\ t + 1 > 1 /\ (t + 1) - 1 = t
      BY <1>1
    <3>2. appraised[t + 1] = (One -- smoothing) ** stock[t + 1] ++ smoothing ** appraised[t]
      BY <1>1, <3>1 DEF ReportsBlend
    <3>3. stock[t + 1] \in Rationals /\ appraised[t] \in Rationals
      BY <1>1, <3>1
    <3> QED
      BY <1>2, <3>2, <3>3, Unblended
  <2> QED
    BY <1>1, <2>1
<1>6. f \in [1..(n - 1) -> Rationals] /\ n - 1 \in Nat
  <2>1. \A t \in 1..(n - 1) : stock[t + 1] \in Rationals
    BY <1>1
  <2> QED
    BY <1>1, <1>5, <2>1
<1>7. Listed(f) = f /\ Len(f) = n - 1
  <2> HIDE DEF f
  <2> QED
    BY <1>6, FunctionIsSequence
<1>8. f = Tail(stock)
  <2>1. Tail(stock) \in Seq(Rationals) /\ Len(Tail(stock)) = n - 1
        /\ \A t \in 1..(n - 1) : Tail(stock)[t] = stock[t + 1]
    BY <1>1
  <2>2. n - 1 \in Nat /\ \A t \in 1..(n - 1) : f[t] = Tail(stock)[t]
    BY <1>1, <1>5, <2>1
  <2> HIDE DEF f
  <2> QED
    BY <1>6, <2>1, <2>2, SameSequence
<1> QED
  BY <1>4, <1>7, <1>8
-----------------------------------------------------------------------------
(* The drawdown.                                                           *)

Peaks(peak, c) ==
  /\ peak \in [1..Len(c) -> Rationals] /\ peak[1] = c[1]
  /\ \A k \in 2..Len(c) : peak[k] = Larger(peak[k - 1], c[k])
Worsts(worst, peak, c) ==
  /\ worst \in [0..Len(c) -> Rationals] /\ worst[0] = Zero
  /\ \A k \in 1..Len(c) : worst[k] = Larger(worst[k - 1], (peak[k] -- c[k]) // peak[k])

LEMMA PeaksExist ==
  ASSUME NEW c \in Seq(Rationals), c # <<>>
  PROVE  \E peak : Peaks(peak, c)
<1> DEFINE n == Len(c)
           G == [p \in Rationals \X (1..n) |-> IF p[2] = 1 THEN c[1] ELSE Larger(p[1], c[p[2]])]
<1>1. n \in Nat /\ n # 0 /\ \A k \in 1..n : c[k] \in Rationals
  OBVIOUS
<1>2. G \in [Rationals \X (1..n) -> Rationals] /\ c[1] \in Rationals
  <2>1. ASSUME NEW p \in Rationals \X (1..n)
        PROVE  (IF p[2] = 1 THEN c[1] ELSE Larger(p[1], c[p[2]])) \in Rationals
    BY <1>1, Closed
  <2> QED
    BY <1>1, <2>1
<1>3. PICK t : Continues(t, Rationals, c[1], n, G)
  <2> HIDE DEF G, n
  <2> QED
    BY <1>1, <1>2, ContinuationsExist
<1> DEFINE peak == [k \in 1..n |-> t[k]]
<1>4. ASSUME NEW k \in 1..n PROVE t[k] = IF k = 1 THEN c[1] ELSE Larger(t[k - 1], c[k])
  <2>1. k - 1 \in 0..n
    BY <1>1
  <2>2. t[k - 1] \in Rationals /\ t[k] = G[<<t[k - 1], k>>]
    BY <1>3, <2>1 DEF Continues
  <2> QED
    BY <2>2
<1>5. peak \in [1..n -> Rationals]
  BY <1>1, <1>3 DEF Continues
<1>6. peak[1] = c[1]
  BY <1>1, <1>4
<1>7. ASSUME NEW k \in 2..n PROVE peak[k] = Larger(peak[k - 1], c[k])
  <2>1. k \in 1..n /\ k - 1 \in 1..n /\ k # 1
    BY <1>1
  <2> QED
    BY <1>4, <2>1
<1> HIDE DEF peak
<1> QED
  BY <1>5, <1>6, <1>7 DEF Peaks

LEMMA PeaksArePositive ==
  ASSUME NEW c \in Seq(Rationals), c # <<>>, \A i \in 1..Len(c) : Zero \prec c[i],
         NEW peak, Peaks(peak, c)
  PROVE  \A k \in 1..Len(c) :
           /\ Zero \prec peak[k]
           /\ \A i \in 1..k : c[i] \preceq peak[k]
           /\ \E i \in 1..k : peak[k] = c[i]
<1> DEFINE n == Len(c)
           Good(k) == /\ Zero \prec peak[k]
                      /\ \A i \in 1..k : c[i] \preceq peak[k]
                      /\ \E i \in 1..k : peak[k] = c[i]
           B == {k \in 1..n : ~ Good(k)}
<1>1. /\ n \in Nat /\ n # 0 /\ \A k \in 1..n : c[k] \in Rationals /\ peak[k] \in Rationals
      /\ peak[1] = c[1] /\ \A k \in 2..n : peak[k] = Larger(peak[k - 1], c[k])
  BY DEF Peaks
<1>2. ASSUME B # {} PROVE FALSE
  <2>1. B \in SUBSET Nat
    OBVIOUS
  <2>2. PICK k \in B : \A m \in B : k <= m
    <3> HIDE DEF B
    <3> QED
      BY <1>2, <2>1, SmallestNat
  <2>3. k \in 1..n /\ ~ Good(k)
    <3> HIDE DEF Good
    <3> QED
      OBVIOUS
  <2>4. CASE k = 1
    <3>1. c[1] \preceq c[1] /\ Zero \prec c[1] /\ 1 \in 1..n /\ \A i \in 1..1 : i = 1
      BY <1>1, Transitive
    <3> QED
      BY <1>1, <2>3, <2>4, <3>1
  <2>5. CASE k # 1
    <3>1. k - 1 \in 1..n /\ k \in 2..n /\ ~ (k <= k - 1)
      BY <2>3, <2>5
    <3>2. k - 1 \notin B
      <4> HIDE DEF B
      <4> QED
        BY <2>2, <3>1
    <3>3. Good(k - 1)
      <4> HIDE DEF Good
      <4> QED
        BY <3>1, <3>2
    <3> DEFINE x == peak[k - 1]
               y == c[k]
               z == peak[k]
    <3>4. x \in Rationals /\ y \in Rationals /\ z = Larger(x, y) /\ Zero \prec y /\ Zero \prec x
      BY <1>1, <2>3, <3>1, <3>3
    <3>5. x \preceq z /\ y \preceq z /\ z \in Rationals /\ (z = x \/ z = y)
      <4> HIDE DEF x, y, z
      <4>1. x \preceq Larger(x, y) /\ y \preceq Larger(x, y) /\ Larger(x, y) \in Rationals
        BY <3>4, Closed, LargerIsLarger
      <4> QED
        BY <3>4, <4>1 DEF Larger
    <3>6. Zero \prec z
      BY <3>4, <3>5
    <3>7. ASSUME NEW i \in 1..k PROVE c[i] \preceq z
      <4>1. CASE i = k
        BY <3>5, <4>1
      <4>2. CASE i # k
        <5>1. i \in 1..(k - 1) /\ i \in 1..n
          BY <2>3, <4>2
        <5>2. c[i] \preceq x /\ c[i] \in Rationals
          BY <1>1, <3>3, <5>1
        <5> HIDE DEF x, z
        <5> QED
          BY <3>4, <3>5, <5>2, Transitive
      <4> QED
        BY <4>1, <4>2
    <3>8. \E i \in 1..k : z = c[i]
      <4>1. CASE z = y
        BY <2>3, <4>1
      <4>2. CASE z = x
        <5>1. PICK i \in 1..(k - 1) : x = c[i]
          BY <3>3
        <5>2. i \in 1..k
          BY <2>3
        <5> QED
          BY <4>2, <5>1, <5>2
      <4> QED
        BY <3>5, <4>1, <4>2
    <3> QED
      BY <2>3, <3>6, <3>7, <3>8
  <2> QED
    BY <2>4, <2>5
<1>3. \A k \in 1..n : Good(k)
  <2> HIDE DEF Good
  <2> QED
    BY <1>2
<1> QED
  BY <1>3

LEMMA WorstsExist ==
  ASSUME NEW c \in Seq(Rationals), NEW peak \in [1..Len(c) -> Rationals],
         \A k \in 1..Len(c) : Zero \prec peak[k]
  PROVE  \E worst : Worsts(worst, peak, c)
<1> DEFINE n == Len(c)
           G == [p \in Rationals \X (1..n) |->
                   Larger(p[1], (peak[p[2]] -- c[p[2]]) // peak[p[2]])]
<1>1. n \in Nat /\ Zero \in Rationals /\ \A k \in 1..n : c[k] \in Rationals /\ peak[k] \in Rationals
  BY ConstantsAreNumbers
<1>2. \A k \in 1..n : (peak[k] -- c[k]) // peak[k] \in Rationals
  <2>1. ASSUME NEW k \in 1..n PROVE (peak[k] -- c[k]) // peak[k] \in Rationals
    <3>1. peak[k] # Zero
      BY <1>1, Transitive
    <3>2. peak[k] -- c[k] \in Rationals
      BY <1>1, Closed
    <3> QED
      BY <1>1, <3>1, <3>2, Closed
  <2> QED
    BY <2>1
<1>3. G \in [Rationals \X (1..n) -> Rationals]
  <2>1. ASSUME NEW p \in Rationals \X (1..n)
        PROVE  Larger(p[1], (peak[p[2]] -- c[p[2]]) // peak[p[2]]) \in Rationals
    <3>1. p[1] \in Rationals /\ p[2] \in 1..n
      OBVIOUS
    <3> QED
      BY <1>2, <3>1, Closed
  <2> QED
    BY <2>1
<1>4. PICK t : Continues(t, Rationals, Zero, n, G)
  <2> HIDE DEF G, n
  <2> QED
    BY <1>1, <1>3, ContinuationsExist
<1>5. ASSUME NEW k \in 1..n PROVE t[k] = Larger(t[k - 1], (peak[k] -- c[k]) // peak[k])
  <2>1. k - 1 \in 0..n
    BY <1>1
  <2>2. t[k - 1] \in Rationals /\ t[k] = G[<<t[k - 1], k>>]
    BY <1>4, <2>1 DEF Continues
  <2> QED
    BY <2>2
<1>6. Worsts(t, peak, c)
  BY <1>4, <1>5 DEF Worsts, Continues
<1> QED
  BY <1>6

LEMMA WorstIsReached ==
  ASSUME NEW c \in Seq(Rationals), NEW peak \in [1..Len(c) -> Rationals],
         \A k \in 1..Len(c) : Zero \prec peak[k], NEW worst, Worsts(worst, peak, c)
  PROVE  \A k \in 0..Len(c) :
           /\ \A j \in 1..k : (peak[j] -- c[j]) // peak[j] \preceq worst[k]
           /\ worst[k] = Zero \/ \E j \in 1..k : worst[k] = (peak[j] -- c[j]) // peak[j]
<1> DEFINE n == Len(c)
           e == [j \in 1..n |-> (peak[j] -- c[j]) // peak[j]]
           Good(k) == /\ \A j \in 1..k : e[j] \preceq worst[k]
                      /\ worst[k] = Zero \/ \E j \in 1..k : worst[k] = e[j]
           B == {k \in 0..n : ~ Good(k)}
<1>1. /\ n \in Nat /\ Zero \in Rationals /\ \A k \in 1..n : c[k] \in Rationals /\ peak[k] \in Rationals
      /\ \A k \in 0..n : worst[k] \in Rationals
      /\ worst[0] = Zero /\ \A k \in 1..n : worst[k] = Larger(worst[k - 1], e[k])
  <2>1. /\ n \in Nat /\ Zero \in Rationals /\ \A k \in 1..n : c[k] \in Rationals /\ peak[k] \in Rationals
        /\ \A k \in 0..n : worst[k] \in Rationals
    <3>1. n \in Nat /\ Zero \in Rationals
      BY ConstantsAreNumbers
    <3>2. \A k \in 1..n : c[k] \in Rationals /\ peak[k] \in Rationals
      OBVIOUS
    <3>3. \A k \in 0..n : worst[k] \in Rationals
      BY DEF Worsts
    <3> QED
      BY <3>1, <3>2, <3>3
  <2>2. \A k \in 1..n : e[k] = (peak[k] -- c[k]) // peak[k]
    OBVIOUS
  <2>3. worst[0] = Zero /\ \A k \in 1..n : worst[k] = Larger(worst[k - 1], (peak[k] -- c[k]) // peak[k])
    BY DEF Worsts
  <2> HIDE DEF e
  <2> QED
    BY <2>1, <2>2, <2>3
<1>2. \A k \in 1..n : e[k] \in Rationals
  <2>1. ASSUME NEW k \in 1..n PROVE (peak[k] -- c[k]) // peak[k] \in Rationals
    <3>1. peak[k] # Zero
      BY <1>1, Transitive
    <3>2. peak[k] -- c[k] \in Rationals
      BY <1>1, Closed
    <3> QED
      BY <1>1, <3>1, <3>2, Closed
  <2> QED
    BY <2>1
<1>3. ASSUME B # {} PROVE FALSE
  <2>1. B \in SUBSET Nat
    OBVIOUS
  <2>2. PICK k \in B : \A m \in B : k <= m
    <3> HIDE DEF B
    <3> QED
      BY <1>3, <2>1, SmallestNat
  <2>3. k \in 0..n /\ ~ Good(k)
    <3> HIDE DEF Good
    <3> QED
      OBVIOUS
  <2>4. k # 0
    BY <1>1, <2>3
  <2>5. k - 1 \in 0..n /\ k \in 1..n /\ ~ (k <= k - 1)
    BY <2>3, <2>4
  <2>6. k - 1 \notin B
    <3> HIDE DEF B
    <3> QED
      BY <2>2, <2>5
  <2>7. Good(k - 1)
    <3> HIDE DEF Good
    <3> QED
      BY <2>5, <2>6
  <2> HIDE DEF e
  <2> DEFINE x == worst[k - 1]
             y == e[k]
             z == worst[k]
  <2>8. x \in Rationals /\ y \in Rationals /\ z = Larger(x, y) /\ z \in Rationals
    BY <1>1, <1>2, <2>5
  <2>9. x \preceq z /\ y \preceq z /\ (z = x \/ z = y)
    <3> HIDE DEF x, y, z
    <3>1. x \preceq Larger(x, y) /\ y \preceq Larger(x, y)
      BY <2>8, LargerIsLarger
    <3> QED
      BY <2>8, <3>1 DEF Larger
  <2>10. ASSUME NEW j \in 1..k PROVE e[j] \preceq z
    <3>1. CASE j = k
      BY <2>9, <3>1
    <3>2. CASE j # k
      <4>1. j \in 1..(k - 1) /\ j \in 1..n
        BY <2>5, <3>2
      <4>2. e[j] \preceq x /\ e[j] \in Rationals
        BY <1>2, <2>7, <4>1
      <4> HIDE DEF x, z
      <4> QED
        BY <2>8, <2>9, <4>2, Transitive
    <3> QED
      BY <3>1, <3>2
  <2>11. z = Zero \/ \E j \in 1..k : z = e[j]
    <3>1. CASE z = y
      BY <2>5, <3>1
    <3>2. CASE z = x
      <4>1. \A j \in 1..(k - 1) : j \in 1..k
        BY <2>5
      <4> QED
        BY <2>7, <3>2, <4>1
    <3> QED
      BY <2>9, <3>1, <3>2
  <2> QED
    BY <2>3, <2>10, <2>11
<1>4. \A k \in 0..n : Good(k)
  <2> HIDE DEF Good
  <2> QED
    BY <1>3
<1> QED
  <2>1. ASSUME NEW k \in 0..n
        PROVE  /\ \A j \in 1..k : (peak[j] -- c[j]) // peak[j] \preceq worst[k]
               /\ worst[k] = Zero \/ \E j \in 1..k : worst[k] = (peak[j] -- c[j]) // peak[j]
    <3>1. \A j \in 1..k : e[j] = (peak[j] -- c[j]) // peak[j]
      BY <1>1
    <3>2. Good(k)
      BY <1>4
    <3> HIDE DEF e
    <3> QED
      BY <3>1, <3>2
  <2> QED
    BY <2>1

LEMMA DrawdownIsWorst ==
  ASSUME NEW c \in Seq(Rationals), c # <<>>, \A i \in 1..Len(c) : Zero \prec c[i]
  PROVE  \E peak, worst : /\ Peaks(peak, c) /\ Worsts(worst, peak, c)
                          /\ max_drawdown(c) = worst[Len(c)]
<1> DEFINE n == Len(c)
           P(f) == f = [i \in DOMAIN c |-> IF i = 1 THEN c[1] ELSE Larger(f[i - 1], c[i])]
           peak == CHOOSE f : P(f)
           decline(i) == IF Zero \prec peak[i] THEN (peak[i] -- c[i]) // peak[i] ELSE Zero
           W(f) == f = [i \in 0..n |-> IF i = 0 THEN Zero ELSE Larger(f[i - 1], decline(i))]
           worst == CHOOSE f : W(f)
<1>1. n \in Nat /\ n # 0 /\ DOMAIN c = 1..n
  OBVIOUS
<1>2. max_drawdown(c) = worst[n]
  BY DEF max_drawdown
<1>3. PICK p : Peaks(p, c)
  BY PeaksExist
<1>4. P(p)
  <2>1. p \in [1..n -> Rationals] /\ p[1] = c[1] /\ \A k \in 2..n : p[k] = Larger(p[k - 1], c[k])
    BY <1>3 DEF Peaks
  <2>2. \A k \in 1..n : p[k] = IF k = 1 THEN c[1] ELSE Larger(p[k - 1], c[k])
    <3>1. \A k \in 1..n : k = 1 \/ k \in 2..n
      BY <1>1
    <3> QED
      BY <2>1, <3>1
  <2>3. p = [k \in 1..n |-> p[k]]
    BY <2>1
  <2> QED
    BY <1>1, <2>2, <2>3
<1>5. P(peak)
  <2> HIDE DEF P
  <2> QED
    BY <1>4
<1> HIDE DEF peak
<1>6. /\ peak = [i \in 1..n |-> peak[i]]
      /\ \A k \in 1..n : peak[k] = IF k = 1 THEN c[1] ELSE Larger(peak[k - 1], c[k])
  <2> DEFINE w == [i \in 1..n |-> IF i = 1 THEN c[1] ELSE Larger(peak[i - 1], c[i])]
  <2>1. peak = w
    BY <1>1, <1>5
  <2>2. w = [i \in 1..n |-> w[i]] /\ \A i \in 1..n : w[i] = IF i = 1 THEN c[1] ELSE Larger(peak[i - 1], c[i])
    OBVIOUS
  <2> HIDE DEF w
  <2> QED
    BY <2>1, <2>2
<1>7. \A k \in 1..n : peak[k] = p[k]
  <2> DEFINE t == [k \in 0..n |-> IF k = 0 THEN c[1] ELSE peak[k]]
             u == [k \in 0..n |-> IF k = 0 THEN c[1] ELSE p[k]]
  <2>1. t[0] = u[0]
    BY <1>1
  <2>2. ASSUME NEW k \in 1..n, t[k - 1] = u[k - 1] PROVE t[k] = u[k]
    <3>1. t[k] = peak[k] /\ u[k] = p[k]
      BY <1>1
    <3>2. CASE k = 1
      BY <1>6, <1>3, <3>1, <3>2 DEF Peaks
    <3>3. CASE k # 1
      <4>1. t[k - 1] = peak[k - 1] /\ u[k - 1] = p[k - 1] /\ k \in 2..n
        BY <1>1, <3>3
      <4>2. p[k] = Larger(p[k - 1], c[k])
        BY <1>3, <4>1 DEF Peaks
      <4> HIDE DEF t, u
      <4> QED
        BY <1>6, <2>2, <3>1, <3>3, <4>1, <4>2
    <3> QED
      BY <3>2, <3>3
  <2>3. \A k \in 0..n : t[k] = u[k]
    <3>1. n \in Nat /\ t[0] = u[0]
      BY <1>1, <2>1
    <3>2. \A k \in 1..n : t[k - 1] = u[k - 1] => t[k] = u[k]
      <4> HIDE DEF t, u, n
      <4> QED
        BY <2>2
    <3> HIDE DEF t, u, n
    <3> QED
      BY ONLY <3>1, <3>2, ContinuationsAgree, SMTT(40)
  <2>4. \A k \in 1..n : t[k] = peak[k] /\ u[k] = p[k] /\ k \in 0..n
    BY <1>1
  <2> HIDE DEF t, u
  <2> QED
    BY <2>3, <2>4
<1>8. peak = p
  <2>1. p = [k \in 1..n |-> p[k]]
    BY <1>3 DEF Peaks
  <2> QED
    BY <1>6, <1>7, <2>1
<1>9. Peaks(peak, c) /\ peak \in [1..n -> Rationals] /\ \A k \in 1..n : Zero \prec peak[k]
  BY <1>3, <1>8, PeaksArePositive DEF Peaks
<1>10. PICK v : Worsts(v, peak, c)
  BY <1>9, WorstsExist
<1>11. \A k \in 1..n : decline(k) = (peak[k] -- c[k]) // peak[k]
  BY <1>9
<1> HIDE DEF decline
<1>12. W(v)
  <2>1. v \in [0..n -> Rationals] /\ v[0] = Zero
        /\ \A k \in 1..n : v[k] = Larger(v[k - 1], decline(k))
    BY <1>10, <1>11 DEF Worsts
  <2>2. \A k \in 0..n : v[k] = IF k = 0 THEN Zero ELSE Larger(v[k - 1], decline(k))
    <3>1. \A k \in 0..n : k = 0 \/ k \in 1..n
      BY <1>1
    <3> QED
      BY <2>1, <3>1
  <2>3. v = [k \in 0..n |-> v[k]]
    BY <2>1
  <2> QED
    BY <2>2, <2>3
<1>13. W(worst)
  <2> HIDE DEF W
  <2> QED
    BY <1>12
<1> HIDE DEF worst
<1>14. /\ worst = [i \in 0..n |-> worst[i]]
       /\ \A k \in 0..n : worst[k] = IF k = 0 THEN Zero ELSE Larger(worst[k - 1], decline(k))
  <2> DEFINE w == [i \in 0..n |-> IF i = 0 THEN Zero ELSE Larger(worst[i - 1], decline(i))]
  <2>1. worst = w
    BY <1>13
  <2>2. w = [i \in 0..n |-> w[i]] /\ \A i \in 0..n : w[i] = IF i = 0 THEN Zero ELSE Larger(worst[i - 1], decline(i))
    OBVIOUS
  <2> HIDE DEF w
  <2> QED
    BY <2>1, <2>2
<1>15. \A k \in 0..n : worst[k] = v[k]
  <2>1. worst[0] = v[0]
    <3>1. v[0] = Zero
      BY <1>10 DEF Worsts
    <3>2. 0 \in 0..n
      BY <1>1
    <3>3. worst[0] = Zero
      BY <1>14, <3>2
    <3> QED
      BY <3>1, <3>3
  <2>2. ASSUME NEW k \in 1..n, worst[k - 1] = v[k - 1] PROVE worst[k] = v[k]
    <3>1. k \in 0..n /\ k # 0
      BY <1>1
    <3>2. v[k] = Larger(v[k - 1], decline(k))
      BY <1>10, <1>11 DEF Worsts
    <3> QED
      BY <1>14, <2>2, <3>1, <3>2
  <2>3. \A k \in 1..n : worst[k - 1] = v[k - 1] => worst[k] = v[k]
    BY <2>2
  <2>4. n \in Nat
    BY <1>1
  <2> HIDE DEF n
  <2>5. ASSUME NEW t, NEW u, t[0] = u[0], \A k \in 1..n : t[k - 1] = u[k - 1] => t[k] = u[k]
        PROVE  \A k \in 0..n : t[k] = u[k]
    BY ONLY <2>4, <2>5, ContinuationsAgree, SMTT(40)
  <2> QED
    BY ONLY <2>1, <2>3, <2>5
<1>16. n \in 0..n
  BY <1>1
<1>17. max_drawdown(c) = v[n]
  BY <1>2, <1>15, <1>16
<1> HIDE DEF n
<1> QED
  BY <1>9, <1>10, <1>17 DEF n

LEMMA DeeperFall ==
  ASSUME NEW x \in Rationals, NEW p \in Rationals, NEW y \in Rationals,
         Zero \prec x, Zero \prec y, x \preceq p
  PROVE  (x -- y) // x \preceq (p -- y) // p
<1>1. PICK d \in Nat \ {0} : Over(x, d) /\ Over(p, d) /\ Over(y, d)
  BY OverThree
<1>2. PICK i \in Int : Is(x, i, d)
  BY <1>1 DEF Over
<1>3. PICK j \in Int : Is(p, j, d)
  BY <1>1 DEF Over
<1>4. PICK k \in Int : Is(y, k, d)
  BY <1>1 DEF Over
<1>5. i > 0 /\ k > 0 /\ i <= j
  BY <1>2, <1>3, <1>4, PositiveIs, IsOrder
<1>6. Is(x -- y, i - k, d) /\ Is(p -- y, j - k, d)
  BY <1>2, <1>3, <1>4, DifferenceIs
<1>7. Is((x -- y) // x, (i - k) * d, d * i) /\ Is((p -- y) // p, (j - k) * d, d * j)
  <2>1. j > 0
    BY <1>5
  <2> QED
    BY <1>2, <1>3, <1>5, <1>6, <2>1, QuotientIs
<1> DEFINE u == (i - k) * d
           v == d * i
           w == (j - k) * d
           z == d * j
<1>8. u \in Int /\ w \in Int /\ v \in Nat \ {0} /\ z \in Nat \ {0}
  BY <1>5, ProductIsPositive
<1>9. u * z <= w * v
  <2>1. w * v - u * z = (k * (d * d)) * (j - i)
    OBVIOUS
  <2>2. k * (d * d) \in Nat /\ j - i \in Nat
    <3>1. d * d \in Nat /\ k \in Nat
      BY <1>5
    <3> HIDE DEF u, v, w, z
    <3> QED
      BY <1>5, <3>1, ProductIsNat
  <2>3. (k * (d * d)) * (j - i) \in Nat
    <3> DEFINE a == k * (d * d)
               b == j - i
    <3> HIDE DEF a, b
    <3> QED
      BY <2>2, ProductIsNat DEF a, b
  <2> DEFINE r == w * v
             s == u * z
             q == (k * (d * d)) * (j - i)
  <2>4. r - s = q /\ q \in Nat /\ r \in Int /\ s \in Int
    BY <2>1, <2>3, <1>8
  <2> HIDE DEF r, s, q
  <2>5. s <= r
    BY <2>4
  <2> QED
    BY <2>5 DEF r, s
<1> HIDE DEF u, v, w, z
<1>10. Is((x -- y) // x, u * z, v * z) /\ Is((p -- y) // p, w * v, z * v)
  BY <1>7, <1>8, IsScaled DEF u, v, w, z
<1>11. v * z = z * v
  BY <1>8
<1> QED
  BY <1>9, <1>10, <1>11, IsOrder

\* The drawdown is a fall somebody had, and nobody had a deeper one.
LEMMA DrawdownIsHad ==
  ASSUME NEW c \in Seq(Rationals), c # <<>>, \A i \in 1..Len(c) : Zero \prec c[i]
  PROVE  /\ \A i, j \in DOMAIN c : i <= j => (c[i] -- c[j]) // c[i] \preceq max_drawdown(c)
         /\ \E i, j \in DOMAIN c : i <= j /\ (c[i] -- c[j]) // c[i] = max_drawdown(c)
<1> DEFINE n == Len(c)
<1>0. \E peak, worst : Peaks(peak, c) /\ Worsts(worst, peak, c) /\ max_drawdown(c) = worst[n]
  BY DrawdownIsWorst
<1>1. PICK peak, worst : Peaks(peak, c) /\ Worsts(worst, peak, c) /\ max_drawdown(c) = worst[n]
  BY <1>0
<1>2. n \in Nat /\ n # 0 /\ DOMAIN c = 1..n /\ \A k \in 1..n : c[k] \in Rationals
  OBVIOUS
<1>3. \A k \in 1..n : /\ Zero \prec peak[k]
                      /\ \A i \in 1..k : c[i] \preceq peak[k]
                      /\ \E i \in 1..k : peak[k] = c[i]
  BY <1>1, PeaksArePositive
<1>4. peak \in [1..n -> Rationals]
  BY <1>1 DEF Peaks
<1>5. /\ \A j \in 1..n : (peak[j] -- c[j]) // peak[j] \preceq worst[n]
      /\ worst[n] = Zero \/ \E j \in 1..n : worst[n] = (peak[j] -- c[j]) // peak[j]
  <2>1. n \in 0..n
    BY <1>2
  <2> QED
    <3>1. /\ c \in Seq(Rationals) /\ peak \in [1..Len(c) -> Rationals] /\ Worsts(worst, peak, c)
          /\ \A k \in 1..Len(c) : Zero \prec peak[k]
      BY <1>1, <1>3, <1>4
    <3>2. \A k \in 0..Len(c) :
            /\ \A j \in 1..k : (peak[j] -- c[j]) // peak[j] \preceq worst[k]
            /\ worst[k] = Zero \/ \E j \in 1..k : worst[k] = (peak[j] -- c[j]) // peak[j]
      BY ONLY <3>1, WorstIsReached
    <3> QED
      BY <2>1, <3>2
<1>6. worst[n] \in Rationals
  <2>1. n \in 0..n
    BY <1>2
  <2> QED
    BY <1>1, <2>1 DEF Worsts
<1> HIDE DEF n
<1>7. ASSUME NEW i \in 1..n, NEW j \in 1..n, i <= j
      PROVE  (c[i] -- c[j]) // c[i] \preceq worst[n]
  <2>1. c[i] \preceq peak[j] /\ peak[j] \in Rationals /\ c[i] \in Rationals /\ c[j] \in Rationals
    <3>1. i \in 1..j
      BY <1>2, <1>7
    <3> QED
      BY <1>2, <1>3, <1>4, <3>1
  <2>2. Zero \prec c[i] /\ Zero \prec c[j] /\ Zero \prec peak[j]
    BY <1>3 DEF n
  <2>3. (c[i] -- c[j]) // c[i] \preceq (peak[j] -- c[j]) // peak[j]
    BY <2>1, <2>2, DeeperFall
  <2>4. (c[i] -- c[j]) // c[i] \in Rationals /\ (peak[j] -- c[j]) // peak[j] \in Rationals
    <3>1. c[i] # Zero /\ peak[j] # Zero
      BY <2>1, <2>2, ConstantsAreNumbers, Transitive
    <3>2. c[i] -- c[j] \in Rationals /\ peak[j] -- c[j] \in Rationals
      BY <2>1, Closed
    <3> QED
      BY <2>1, <3>1, <3>2, Closed
  <2>5. (peak[j] -- c[j]) // peak[j] \preceq worst[n]
    BY <1>5
  <2> QED
    BY <1>6, <2>3, <2>4, <2>5, Transitive
<1>8. \E i, j \in 1..n : i <= j /\ (c[i] -- c[j]) // c[i] = worst[n]
  <2>1. CASE worst[n] = Zero
    <3>1. (c[1] -- c[1]) // c[1] = Zero /\ 1 \in 1..n
      <4>1. 1 \in 1..n
        BY <1>2
      <4>2. c[1] \in Rationals /\ Zero \prec c[1]
        BY <1>2, <4>1 DEF n
      <4>3. PICK k \in Int, d \in Nat \ {0} : Is(c[1], k, d)
        BY <4>2, IsItself, RationalParts
      <4>4. k > 0
        BY <4>2, <4>3, PositiveIs
      <4>5. Is((c[1] -- c[1]) // c[1], (k - k) * d, d * k)
        BY <4>3, <4>4, DifferenceIs, QuotientIs
      <4>6. (k - k) * d = 0
        OBVIOUS
      <4>7. Is((c[1] -- c[1]) // c[1], 0, d * k)
        BY <4>5, <4>6
      <4> QED
        BY <4>1, <4>7, PositiveIs
    <3> QED
      BY <2>1, <3>1, <1>2
  <2>2. ASSUME NEW j \in 1..n, worst[n] = (peak[j] -- c[j]) // peak[j]
        PROVE  \E i \in 1..n : i <= j /\ (c[i] -- c[j]) // c[i] = worst[n]
    <3>1. PICK i \in 1..j : peak[j] = c[i]
      BY <1>3
    <3>2. i \in 1..n /\ i <= j
      BY <1>2
    <3> QED
      BY <2>2, <3>1, <3>2
  <2> QED
    BY <1>5, <2>1, <2>2
<1> QED
  BY <1>1, <1>2, <1>7, <1>8
-----------------------------------------------------------------------------
(* Deviations from the mean.                                               *)

LEMMA MeanIsNumber ==
  ASSUME NEW n \in Nat \ {0}, NEW x \in [1..n -> Rationals]
  PROVE  /\ arithmetic_mean_return(x) \in Rationals
         /\ Deviations(x) = [i \in 1..n |-> x[i] -- arithmetic_mean_return(x)]
         /\ Deviations(x) \in [1..n -> Rationals]
<1> DEFINE mean == arithmetic_mean_return(x)
           f == [i \in 1..n |-> x[i] -- mean]
<1>1. x \in Seq(Rationals) /\ Len(x) = n
  BY FunctionIsSequence
<1>2. Sum(x) \in Rationals
  <2>1. PICK t : PartialSums(t, x)
    BY <1>1, PartialSumsExist
  <2> QED
    BY <1>1, <2>1, SumIsLast
<1>3. mean \in Rationals
  <2>1. PICK i \in Int, d \in Nat \ {0} : Is(Sum(x), i, d)
    BY <1>2, IsItself, RationalParts
  <2> QED
    BY <1>1, <2>1, ShareIs DEF arithmetic_mean_return
<1> HIDE DEF mean
<1>4. f \in [1..n -> Rationals]
  BY <1>3, Closed
<1>5. Deviations(x) = Listed(f)
  BY <1>1 DEF Deviations, mean
<1>6. Listed(f) = f
  <2> HIDE DEF f
  <2> QED
    BY <1>4, FunctionIsSequence
<1>7. Deviations(x) = f /\ mean \in Rationals /\ f \in [1..n -> Rationals]
  BY <1>3, <1>4, <1>5, <1>6
<1> QED
  BY <1>7 DEF mean

\* Falling short of the mean is part of deviating from it.
LEMMA ShortfallIsPart ==
  ASSUME NEW n \in Nat \ {0, 1}, NEW x \in [1..n -> Rationals]
  PROVE  downside_deviation(x, arithmetic_mean_return(x)) \preceq sample_variance(x)
<1> DEFINE mean == arithmetic_mean_return(x)
           dev == Deviations(x)
           shortfall(r) == IF r \prec mean THEN Square(r -- mean) ELSE Zero
           f == [i \in 1..n |-> shortfall(x[i])]
           g == [i \in 1..n |-> dev[i] ** dev[i]]
<1>1. /\ mean \in Rationals /\ dev \in [1..n -> Rationals]
      /\ \A i \in 1..n : dev[i] = x[i] -- mean
      /\ Len(x) = n /\ Len(dev) = n
  <2>1. n \in Nat \ {0} /\ n \in Nat
    OBVIOUS
  <2>2. mean \in Rationals /\ dev = [i \in 1..n |-> x[i] -- mean] /\ dev \in [1..n -> Rationals]
    BY <2>1, MeanIsNumber
  <2> HIDE DEF mean, dev
  <2>3. Len(x) = n /\ Len(dev) = n
    BY <2>1, <2>2, FunctionIsSequence
  <2> QED
    BY <2>2, <2>3
<1> HIDE DEF mean, dev
<1>2. \A i \in 1..n : f[i] \in Rationals /\ g[i] \in Rationals /\ f[i] \preceq g[i]
  <2>1. ASSUME NEW i \in 1..n
        PROVE  shortfall(x[i]) \in Rationals /\ dev[i] ** dev[i] \in Rationals
               /\ shortfall(x[i]) \preceq dev[i] ** dev[i]
    <3>1. dev[i] \in Rationals /\ dev[i] = x[i] -- mean
      BY <1>1
    <3>2. Zero \preceq dev[i] ** dev[i] /\ dev[i] ** dev[i] \in Rationals
      BY <3>1, SquareIsPositive
    <3>3. dev[i] ** dev[i] \preceq dev[i] ** dev[i] /\ Zero \in Rationals
      BY <3>2, ConstantsAreNumbers, Transitive
    <3>4. shortfall(x[i]) = dev[i] ** dev[i] \/ shortfall(x[i]) = Zero
      BY <3>1 DEF Square
    <3> HIDE DEF shortfall
    <3> QED
      BY <3>2, <3>3, <3>4
  <2> QED
    BY <2>1
<1>3. f \in [1..n -> Rationals] /\ g \in [1..n -> Rationals] /\ n \in Nat
  BY <1>2
<1>4. downside_deviation(x, mean) = Sum(f) // Whole(n - 1)
  <2>1. DOMAIN x = 1..n
    OBVIOUS
  <2> QED
    BY <1>1, <2>1 DEF downside_deviation
<1>5. sample_variance(x) = Sum(g) // Whole(n - 1)
  BY <1>1 DEF sample_variance, covariance, Dot, dev
<1> HIDE DEF f, g
<1>6. Sum(f) \preceq Sum(g) /\ Sum(f) \in Rationals /\ Sum(g) \in Rationals
  BY <1>2, <1>3, SumInOrder
<1>7. Sum(f) // Whole(n - 1) \preceq Sum(g) // Whole(n - 1)
  <2>1. n - 1 \in Nat \ {0}
    OBVIOUS
  <2> QED
    BY <1>6, <2>1, ShareInOrder
<1> QED
  BY <1>4, <1>5, <1>7 DEF mean
-----------------------------------------------------------------------------
\* The quotient of two numbers over one denominator.
LEMMA QuotientOver ==
  ASSUME NEW a, NEW b, NEW n, NEW m, NEW d, Is(a, n, d), Is(b, m, d), m > 0
  PROVE  Is(a // b, n, m) /\ a // b \in Rationals
<1>1. Is(a // b, n * d, d * m) /\ a // b \in Rationals
  BY QuotientIs
<1>2. n \in Int /\ m \in Nat \ {0} /\ d \in Nat \ {0}
  BY DEF Is
<1>3. (n * d) * m = n * (d * m)
  BY <1>2
<1> QED
  BY <1>1, <1>2, <1>3, IsAlso

LEMMA LaggedIs ==
  ASSUME NEW n \in Nat \ {0}, NEW x \in [1..n -> Rationals], NEW d \in Nat \ {0}, NEW c \in [1..n -> Int],
         \A k \in 1..n : Is(x[k], c[k], d)
  PROVE  Is(Sum([t \in 1..(n - 1) |-> x[t + 1] ** x[t]]),
            Total([t \in 1..(n - 1) |-> c[t + 1] * c[t]], 1..(n - 1)), d * d)
<1> DEFINE s == [t \in 1..(n - 1) |-> x[t + 1] ** x[t]]
           l == [t \in 1..(n - 1) |-> c[t + 1] * c[t]]
<1>1. d * d \in Nat \ {0}
  BY ProductIsPositive
<1>2. ASSUME NEW t \in 1..(n - 1) PROVE Is(s[t], l[t], d * d) /\ s[t] \in Rationals
  <2>1. t \in 1..n /\ t + 1 \in 1..n
    OBVIOUS
  <2>2. Is(x[t], c[t], d) /\ Is(x[t + 1], c[t + 1], d)
    BY <2>1
  <2> QED
    BY <2>2, TimesIs
<1>3. s \in [1..(n - 1) -> Rationals] /\ n - 1 \in Nat
  BY <1>2
<1> HIDE DEF s, l
<1>4. Is(Sum(s), Total(l, 1..(n - 1)), d * d)
  BY <1>1, <1>2, <1>3, SumIs
<1> QED
  BY <1>4 DEF s, l

LEMMA LagIsShare ==
  ASSUME NEW x \in Seq(Rationals)
  PROVE  LET lag == first_order_autocorrelation(x)
         IN lag # Undefined => Minus(One) \prec lag /\ lag \prec One
<1> DEFINE lag == first_order_autocorrelation(x)
           n == Len(x)
           v == Deviations(x)
<1> SUFFICES ASSUME lag # Undefined PROVE Minus(One) \prec lag /\ lag \prec One
  OBVIOUS
<1>1. n \in Nat /\ n >= 3 /\ x \in [1..n -> Rationals]
  <2>1. ~ (Len(x) < 3)
    BY DEF first_order_autocorrelation
  <2> QED
    BY <2>1
<1>2. n \in Nat \ {0} /\ v \in [1..n -> Rationals]
  BY <1>1, MeanIsNumber
<1>3. Len(v) = n
  BY <1>2
<1>4. Dot(v, v) # Zero /\ lag = Sum([t \in 1..(n - 1) |-> v[t + 1] ** v[t]]) // Dot(v, v)
  <2>1. ~ (Len(x) < 3)
    BY <1>1
  <2> QED
    BY <2>1, <1>3 DEF first_order_autocorrelation
<1> HIDE DEF n, v, lag
<1>5. PICK d \in Nat \ {0}, c \in [1..n -> Int], e \in [1..n -> Int] :
        \A k \in 1..n : Is(v[k], c[k], d) /\ Is(v[k], e[k], d)
  BY <1>2, TwoSeriesOver
<1> DEFINE sq == [k \in 1..n |-> c[k] * c[k]]
           l == [t \in 1..(n - 1) |-> c[t + 1] * c[t]]
           S == Total(sq, 1..n)
           L == Total(l, 1..(n - 1))
<1>6. Is(Dot(v, v), S, d * d)
  BY <1>2, <1>5, DotIs
<1>7. Is(Sum([t \in 1..(n - 1) |-> v[t + 1] ** v[t]]), L, d * d)
  BY <1>2, <1>5, LaggedIs
<1>8. S # 0
  BY <1>4, <1>6, PositiveIs
<1>9. \A s \in {-1, 1} : s * L < S
  <2> TAKE s \in {-1, 1}
  <2>1. \A k \in 1..n : sq[k] = c[k] * c[k]
    OBVIOUS
  <2>2. \A k \in 1..(n - 1) : l[k] = c[k + 1] * c[k]
    OBVIOUS
  <2> HIDE DEF sq, l
  <2> QED
    BY <1>2, <1>8, <2>1, <2>2, LagIsLess
<1> HIDE DEF S, L
<1>10. L \in Int /\ S \in Int
  BY <1>6, <1>7 DEF Is
<1>11. L < S /\ -L < S
  <2>1. 1 * L < S /\ (-1) * L < S
    BY <1>9
  <2> QED
    BY <1>10, <2>1
<1>12. S > 0
  BY <1>10, <1>11
<1>13. Is(lag, L, S)
  BY <1>4, <1>6, <1>7, <1>12, QuotientOver
<1>14. Is(One, S, S) /\ Is(Minus(One), -S, S)
  <2>1. S \in Nat \ {0}
    BY <1>10, <1>12
  <2> QED
    BY <2>1, ZeroIs, MinusIs
<1>15. -S < L
  BY <1>10, <1>11
<1> QED
  BY <1>11, <1>13, <1>14, <1>15, IsOrder
-----------------------------------------------------------------------------
(* Powers.                                                                 *)

\* The powers of a number, one after the other.
PowersOf(t, a, n) ==
  /\ t \in [0..n -> Rationals] /\ t[0] = One
  /\ \A k \in 1..n : t[k] = t[k - 1] ** a

LEMMA PowersExist ==
  ASSUME NEW a \in Rationals, NEW n \in Nat
  PROVE  \E t : PowersOf(t, a, n)
<1> DEFINE s == [i \in 1..n |-> a]
<1>1. s \in Seq(Rationals) /\ Len(s) = n /\ \A i \in 1..n : s[i] = a
  <2>1. s \in [1..n -> Rationals] /\ \A i \in 1..n : s[i] = a
    OBVIOUS
  <2> HIDE DEF s
  <2> QED
    BY <2>1, FunctionIsSequence
<1> HIDE DEF s
<1>2. PICK t : PartialProducts(t, s)
  BY <1>1, PartialProductsExist
<1> QED
  BY <1>1, <1>2 DEF PowersOf, PartialProducts

LEMMA PowerIs ==
  ASSUME NEW a \in Rationals, NEW n \in Nat, NEW t, PowersOf(t, a, n), NEW k \in 0..n
  PROVE  Power(a, k) = t[k] /\ Power(a, k) \in Rationals
<1> DEFINE s == [i \in 1..k |-> a]
           q == [j \in 0..k |-> t[j]]
<1>1. s \in Seq(Rationals) /\ Len(s) = k /\ \A i \in 1..k : s[i] = a
  <2>1. s \in [1..k -> Rationals] /\ (\A i \in 1..k : s[i] = a) /\ k \in Nat
    OBVIOUS
  <2> HIDE DEF s
  <2> QED
    BY <2>1, FunctionIsSequence
<1>2. PartialProducts(q, s)
  <2>1. q \in [0..k -> Rationals] /\ q[0] = One
    BY DEF PowersOf
  <2>2. ASSUME NEW j \in 1..k PROVE q[j] = q[j - 1] ** s[j]
    <3>1. j \in 1..n /\ j \in 0..k /\ j - 1 \in 0..k
      OBVIOUS
    <3> QED
      BY <1>1, <3>1 DEF PowersOf
  <2> HIDE DEF q, s
  <2> QED
    BY <1>1, <2>1, <2>2 DEF PartialProducts
<1>3. Product(s) = q[k] /\ Product(s) \in Rationals
  <2> HIDE DEF q, s
  <2> QED
    BY <1>1, <1>2, ProductIsLast
<1> QED
  BY <1>3 DEF Power

LEMMA PowersArePositive ==
  ASSUME NEW a \in Rationals, Zero \prec a, NEW n \in Nat
  PROVE  \A k \in 0..n : Power(a, k) \in Rationals /\ Zero \prec Power(a, k)
<1>1. PICK t : PowersOf(t, a, n)
  BY PowersExist
<1> DEFINE B == {k \in 0..n : ~ (Zero \prec t[k])}
<1>2. t \in [0..n -> Rationals] /\ t[0] = One /\ \A k \in 1..n : t[k] = t[k - 1] ** a
  BY <1>1 DEF PowersOf
<1>3. ASSUME B # {} PROVE FALSE
  <2>1. B \in SUBSET Nat
    OBVIOUS
  <2>2. PICK k \in B : \A m \in B : k <= m
    <3> HIDE DEF B
    <3> QED
      BY <1>3, <2>1, SmallestNat
  <2>3. k \in 0..n /\ ~ (Zero \prec t[k])
    OBVIOUS
  <2>4. CASE k = 0
    <3>1. Zero \prec One
      <4>1. Is(One, 1, 1)
        BY ZeroIs
      <4> QED
        BY <4>1, PositiveIs
    <3> QED
      BY <1>2, <2>3, <2>4, <3>1
  <2>5. CASE k # 0
    <3>1. k \in 1..n /\ k - 1 \in 0..n
      BY <2>3, <2>5
    <3>2. k - 1 \notin B
      <4> HIDE DEF B
      <4> QED
        BY <2>2, <3>1
    <3>3. Zero \prec t[k - 1] /\ t[k - 1] \in Rationals
      BY <1>2, <3>1, <3>2
    <3> QED
      BY <1>2, <2>3, <3>1, <3>3, PositiveProduct
  <2> QED
    BY <2>4, <2>5
<1>4. ASSUME NEW k \in 0..n PROVE Power(a, k) \in Rationals /\ Zero \prec Power(a, k)
  <2>1. k \notin B
    BY <1>3
  <2>2. Zero \prec t[k]
    BY <2>1
  <2> QED
    BY <1>1, <2>2, PowerIs
<1> QED
  BY <1>4

LEMMA PowerSplits ==
  ASSUME NEW a \in Rationals, NEW n \in Nat, NEW l \in 0..n
  PROVE  Power(a, n) = Power(a, l) ** Power(a, n - l)
<1>1. PICK t : PowersOf(t, a, n)
  BY PowersExist
<1>2. t \in [0..n -> Rationals] /\ t[0] = One /\ \A k \in 1..n : t[k] = t[k - 1] ** a
  BY <1>1 DEF PowersOf
<1> DEFINE m == n - l
           u == [j \in 0..m |-> t[l + j]]
           v == [j \in 0..m |-> t[l] ** t[j]]
<1>3. m \in Nat /\ l \in Nat
  OBVIOUS
<1>4. u[0] = v[0]
  <2>1. 0 \in 0..m /\ l + 0 = l /\ t[l] \in Rationals
    BY <1>2
  <2>2. t[l] ** One = t[l]
    BY <2>1, TimesLaws
  <2> QED
    BY <1>2, <2>1, <2>2
<1>5. ASSUME NEW k \in 1..m, u[k - 1] = v[k - 1] PROVE u[k] = v[k]
  <2>1. k \in 0..m /\ k - 1 \in 0..m /\ l + k \in 1..n /\ (l + k) - 1 = l + (k - 1) /\ k \in 1..n
        /\ l + k \in 0..n /\ k - 1 \in 0..n /\ l + (k - 1) \in 0..n
    BY <1>3
  <2>2. t[l + k] = t[l + (k - 1)] ** a /\ t[k] = t[k - 1] ** a
    BY <1>2, <2>1
  <2>3. t[l + (k - 1)] = t[l] ** t[k - 1]
    BY <1>5, <2>1
  <2>4. (t[l] ** t[k - 1]) ** a = t[l] ** (t[k - 1] ** a)
    BY <1>2, <2>1, TimesLaws
  <2> QED
    BY <2>1, <2>2, <2>3, <2>4
<1>6. \A k \in 0..m : u[k] = v[k]
  <2> HIDE DEF u, v, m
  <2> QED
    BY <1>3, <1>4, <1>5, ContinuationsAgree, SMTT(40)
<1>7. t[n] = t[l] ** t[m]
  <2>1. m \in 0..m /\ l + m = n
    BY <1>3
  <2>2. u[m] = v[m]
    BY <1>6, <2>1
  <2> QED
    BY <2>1, <2>2
<1>8. Power(a, n) = t[n] /\ Power(a, l) = t[l] /\ Power(a, m) = t[m]
  <2>1. n \in 0..n /\ m \in 0..n
    BY <1>3
  <2> QED
    BY <1>1, <2>1, PowerIs
<1> QED
  BY <1>7, <1>8

LEMMA NoneIsOne ==
  ASSUME NEW a \in Rationals
  PROVE  Power(a, 0) = One
<1>1. PICK t : PowersOf(t, a, 0)
  BY PowersExist
<1>2. 0 \in 0..0 /\ 0 \in Nat
  OBVIOUS
<1>3. Power(a, 0) = t[0]
  BY <1>1, <1>2, PowerIs
<1> QED
  BY <1>1, <1>3 DEF PowersOf
-----------------------------------------------------------------------------
(* What is paid in and out.                                                *)

LEMMA PaidBack ==
  ASSUME NEW a \in Rationals, NEW b \in Rationals, Zero \prec a, Zero \prec b
  PROVE  /\ Minus(One) // One \in Rationals /\ Minus(One) // a \in Rationals
         /\ (a ** b ++ b) // (a ** b) \in Rationals
         /\ (Minus(One) // One ++ Minus(One) // a) ++ (a ** b ++ b) // (a ** b) = Zero
         /\ Zero \prec a ** b ++ b
<1>1. PICK n \in Int, m \in Int, d \in Nat \ {0} : Is(a, n, d) /\ Is(b, m, d)
  BY IsCommon
<1>2. n > 0 /\ m > 0
  BY <1>1, PositiveIs
<1>3. n * m \in Nat \ {0} /\ d * d \in Nat \ {0} /\ n \in Nat \ {0} /\ m \in Nat \ {0}
  BY <1>2, ProductIsPositive
<1>4. Is(One, d, d) /\ Is(Minus(One), -d, d)
  BY ZeroIs, MinusIs
<1>5. Is(Minus(One) // One, -d, d) /\ Is(Minus(One) // a, -d, n)
  BY <1>1, <1>2, <1>4, QuotientOver
<1>6. Is(a ** b, n * m, d * d)
  BY <1>1, TimesIs
<1>7. Is(b, m * d, d * d)
  BY <1>1, IsScaled
<1>8. Is(a ** b ++ b, n * m + m * d, d * d)
  BY <1>6, <1>7, PlusIs
<1>9. Is((a ** b ++ b) // (a ** b), n * m + m * d, n * m)
  <2>1. n * m > 0
    BY <1>3
  <2> QED
    BY <1>6, <1>8, <2>1, QuotientOver
<1>10. Is(Minus(One) // One, -(n * m), n * m) /\ Is(Minus(One) // a, -(d * m), n * m)
  <2>1. -d * (n * m) = -(n * m) * d /\ -d * (n * m) = -(d * m) * n
    OBVIOUS
  <2>2. -(n * m) \in Int /\ -(d * m) \in Int
    OBVIOUS
  <2> QED
    BY <1>3, <1>5, <2>1, <2>2, IsAlso
<1>11. Is((Minus(One) // One ++ Minus(One) // a) ++ (a ** b ++ b) // (a ** b),
          (-(n * m) + -(d * m)) + (n * m + m * d), n * m)
  BY <1>9, <1>10, PlusIs
<1>12. (-(n * m) + -(d * m)) + (n * m + m * d) = 0
  OBVIOUS
<1>13. n * m + m * d > 0
  <2>1. m * d \in Nat \ {0}
    BY <1>3, ProductIsPositive
  <2> QED
    BY <1>3, <2>1
<1> QED
  BY <1>5, <1>8, <1>9, <1>11, <1>12, <1>13, PositiveIs, ZenonT(40) DEF Is

LEMMA ContributionsEarn ==
  ASSUME NEW r \in Rationals, Minus(One) \prec r, Years \in Nat \ {0}, NEW later \in 0..(Years - 1)
  PROVE  money_weighted_return(Contributions(r, later), r)
<1> DEFINE g == One ++ r
           y == Years
           out == Power(g, y) ++ Power(g, y - later)
           flows == Contributions(r, later)
           s == [i \in 1..3 |-> flows[i].amount // Power(g, flows[i].year)]
<1>1. g \in Rationals /\ Zero \prec g /\ y \in Nat \ {0}
  BY AboveMinusOne
<1> HIDE DEF g
<1>2. /\ Len(flows) = 3 /\ DOMAIN flows = 1..3
      /\ flows[1] = [year |-> 0, amount |-> Minus(One)]
      /\ flows[2] = [year |-> later, amount |-> Minus(One)]
      /\ flows[3] = [year |-> y, amount |-> out]
  BY DEF Contributions, g
<1>3. /\ flows[1].year = 0 /\ flows[1].amount = Minus(One)
      /\ flows[2].year = later /\ flows[2].amount = Minus(One)
      /\ flows[3].year = y /\ flows[3].amount = out
  BY <1>2
<1> HIDE DEF flows, y
<1> DEFINE a == Power(g, later)
           b == Power(g, y - later)
<1>4. a \in Rationals /\ b \in Rationals /\ Zero \prec a /\ Zero \prec b /\ Power(g, y) = a ** b
      /\ Power(g, 0) = One
  <2>1. later \in 0..y /\ y - later \in 0..y /\ y \in Nat
    BY <1>1 DEF y
  <2> QED
    BY <1>1, <2>1, PowersArePositive, PowerSplits, NoneIsOne
<1>5. /\ s[1] = Minus(One) // One /\ s[2] = Minus(One) // a /\ s[3] = (a ** b ++ b) // (a ** b)
  BY <1>3, <1>4
<1> HIDE DEF a, b
<1>6. /\ s[1] \in Rationals /\ s[2] \in Rationals /\ s[3] \in Rationals
      /\ (s[1] ++ s[2]) ++ s[3] = Zero /\ Zero \prec a ** b ++ b
  <2> HIDE DEF s
  <2> QED
    BY <1>4, <1>5, PaidBack
<1>7. s \in Seq(Rationals) /\ Len(s) = 3
  <2>1. s = [i \in 1..3 |-> s[i]]
    OBVIOUS
  <2> HIDE DEF s
  <2>2. \A i \in 1..3 : i = 1 \/ i = 2 \/ i = 3
    OBVIOUS
  <2>3. s \in [1..3 -> Rationals]
    BY <1>6, <2>1, <2>2
  <2> QED
    BY <2>3, FunctionIsSequence
<1>8. npv(flows, r) = Sum(s)
  BY <1>2 DEF npv, g
<1>9. npv(flows, r) = Zero
  <2> HIDE DEF s
  <2> QED
    BY <1>6, <1>7, <1>8, SumOfThree
<1>10. Minus(One) \prec Zero
  <2>1. Is(Minus(One), -1, 1)
    BY ZeroIs, MinusIs
  <2> QED
    BY <2>1, PositiveIs
<1>11. \E i, j \in DOMAIN flows : flows[i].amount \prec Zero /\ Zero \prec flows[j].amount
  <2>1. 1 \in DOMAIN flows /\ 3 \in DOMAIN flows /\ flows[3].amount = a ** b ++ b
    BY <1>2, <1>3, <1>4 DEF b
  <2> QED
    BY <1>3, <1>6, <1>10, <2>1
<1>12. \E i \in DOMAIN flows : flows[i].year > 0
  <2>1. 3 \in DOMAIN flows /\ y > 0
    BY <1>1, <1>2
  <2> QED
    BY <1>3, <2>1
<1> QED
  BY <1>2, <1>9, <1>11, <1>12 DEF money_weighted_return, flows
-----------------------------------------------------------------------------
LEMMA ReturnsHold == SeriesFit /\ ReportsBlend => ReturnsAreThoseHad
<1> SUFFICES ASSUME SeriesFit, ReportsBlend PROVE ReturnsAreThoseHad
  OBVIOUS
<1> DEFINE curve == CurveOf(stock)
           n == Years
<1>1. stock \in Seq(Rationals) /\ \A i \in DOMAIN stock : Minus(One) \prec stock[i] /\ stock[i] \in Rationals
  BY DEF SeriesFit
<1>2. appraised \in Seq(Rationals)
  BY DEF ReportsBlend
<1>3. n \in Nat /\ n = Len(stock) /\ DOMAIN stock = 1..n
  BY <1>1 DEF Years
<1>4. curve \in Seq(Rationals) /\ curve # <<>> /\ \A i \in 1..Len(curve) : Zero \prec curve[i]
  <2>1. curve \in Seq(Rationals) /\ Len(curve) = n + 1 /\ \A i \in 1..(n + 1) : Zero \prec curve[i]
    BY <1>1, <1>3, CurveParts
  <2>2. Len(curve) # 0
    BY <1>3, <2>1
  <2> HIDE DEF curve
  <2> QED
    BY <2>1, <2>2
<1>5. periodic_returns(curve) = stock
  BY <1>1, ReturnsOfCurve
<1>6. /\ time_weighted_return(stock) = holding_period_return(One, curve[Years + 1], Zero)
      /\ Years >= 1 => geometric_mean_return(stock) = curve[Years + 1]
  BY LinkedIsGrowth
<1>7. /\ \A i, j \in DOMAIN curve : i <= j => (curve[i] -- curve[j]) // curve[i] \preceq max_drawdown(curve)
      /\ \E i, j \in DOMAIN curve : i <= j /\ (curve[i] -- curve[j]) // curve[i] = max_drawdown(curve)
  <2> HIDE DEF curve
  <2> QED
    BY <1>4, DrawdownIsHad
<1>8. Years >= 2 => unsmooth_returns(appraised, smoothing) = Tail(stock)
  BY ReportsUnsmoothed
<1>9. Years >= 2 => downside_deviation(stock, arithmetic_mean_return(stock)) \preceq sample_variance(stock)
  <2> SUFFICES ASSUME n >= 2
               PROVE  downside_deviation(stock, arithmetic_mean_return(stock)) \preceq sample_variance(stock)
    OBVIOUS
  <2>1. n \in Nat \ {0, 1} /\ stock \in [1..n -> Rationals]
    BY <1>1, <1>3
  <2> HIDE DEF n
  <2> QED
    BY <2>1, ShortfallIsPart
<1>10. LET lag == first_order_autocorrelation(appraised)
       IN lag # Undefined => Minus(One) \prec lag /\ lag \prec One
  BY <1>2, LagIsShare
<1>11. \A r \in {stock[i] : i \in DOMAIN stock} :
         (\A i \in DOMAIN stock : stock[i] = r) =>
            \A later \in 0..(Years - 1) : money_weighted_return(Contributions(r, later), r)
  <2> TAKE r \in {stock[i] : i \in DOMAIN stock}
  <2>1. PICK i \in DOMAIN stock : r = stock[i]
    OBVIOUS
  <2>2. r \in Rationals /\ Minus(One) \prec r /\ Years \in Nat \ {0}
    BY <1>1, <1>3, <2>1
  <2> QED
    BY <2>2, ContributionsEarn
<1> QED
  BY <1>5, <1>6, <1>7, <1>8, <1>9, <1>10, <1>11 DEF ReturnsAreThoseHad
-----------------------------------------------------------------------------
(* Means and deviations.                                                   *)

LEMMA DeviationsIs ==
  ASSUME NEW n \in Nat \ {0}, NEW x \in [1..n -> Rationals], NEW d \in Nat \ {0}, NEW c,
         \A k \in 1..n : Is(x[k], c[k], d)
  PROVE  /\ Is(arithmetic_mean_return(x), Total(c, 1..n), d * n)
         /\ \A k \in 1..n : Is(Deviations(x)[k], c[k] * n - Total(c, 1..n), d * n)
<1> DEFINE T == Total(c, 1..n)
           mean == arithmetic_mean_return(x)
<1>1. Is(Sum(x), T, d) /\ n \in Nat
  BY SumIs
<1>2. Len(x) = n
  OBVIOUS
<1>3. Is(mean, T, d * n)
  <2>1. Is(Sum(x) // Whole(n), T, d * n)
    BY <1>1, ShareIs
  <2> QED
    BY <1>2, <2>1 DEF arithmetic_mean_return
<1>4. ASSUME NEW k \in 1..n PROVE Is(Deviations(x)[k], c[k] * n - T, d * n)
  <2>1. Deviations(x)[k] = x[k] -- mean
    BY MeanIsNumber
  <2>2. Is(x[k], c[k] * n, d * n)
    BY IsScaled
  <2> HIDE DEF T, mean
  <2>3. Is(x[k] -- mean, c[k] * n - T, d * n)
    BY <1>3, <2>2, DifferenceIs
  <2> QED
    BY <2>1, <2>3
<1> QED
  BY <1>3, <1>4

LEMMA SeriesIs ==
  ASSUME NEW n \in Nat, NEW x \in [1..n -> Rationals]
  PROVE  \E d \in Nat \ {0}, c \in [1..n -> Int] : \A k \in 1..n : Is(x[k], c[k], d)
<1>1. PICK d \in Nat \ {0}, c \in [1..n -> Int], e \in [1..n -> Int] :
        \A k \in 1..n : Is(x[k], c[k], d) /\ Is(x[k], e[k], d)
  BY TwoSeriesOver
<1> QED
  BY <1>1

\* A series less the same number everywhere.
LEMMA DeviationsShift ==
  ASSUME NEW n \in Nat \ {0}, NEW x \in [1..n -> Rationals], NEW s \in Rationals,
         NEW z \in [1..n -> Rationals], \A k \in 1..n : z[k] = x[k] -- s
  PROVE  arithmetic_mean_return(z) = arithmetic_mean_return(x) -- s /\ Deviations(z) = Deviations(x)
<1>1. PICK d \in Nat \ {0} : (\A k \in 1..n : Over(x[k], d)) /\ (\A a : Over(a, s[2]) => Over(a, d))
  <2> DEFINE e == s[2]
  <2>1. e \in Nat \ {0} /\ n \in Nat
    BY RationalParts
  <2> HIDE DEF e
  <2>2. \E d \in Nat \ {0} : (\A k \in 1..n : Over(x[k], d)) /\ (\A a : Over(a, e) => Over(a, d))
    <3>1. x \in [1..n -> Rationals]
      OBVIOUS
    <3> QED
      BY ONLY <2>1, <3>1, SeriesOver, ZenonT(40)
  <2> QED
    BY <2>2 DEF e
<1>2. PICK r \in Int : Is(s, r, d)
  <2>1. Over(s, d)
    BY <1>1, OverOwn
  <2> QED
    BY <2>1 DEF Over
<1> DEFINE c == [k \in 1..n |-> CHOOSE i \in Int : Is(x[k], i, d)]
           e == [k \in 1..n |-> c[k] - r]
<1>3. \A k \in 1..n : c[k] \in Int /\ Is(x[k], c[k], d)
  BY <1>1 DEF Over
<1>4. \A k \in 1..n : e[k] = c[k] - r
  OBVIOUS
<1> HIDE DEF c, e
<1>5. \A k \in 1..n : Is(z[k], e[k], d)
  BY <1>2, <1>3, <1>4, DifferenceIs
<1> DEFINE C == Total(c, 1..n)
           E == Total(e, 1..n)
<1>6. E = C - n * r /\ C \in Int
  <2>1. n \in Nat /\ r \in Int
    OBVIOUS
  <2>2. \A k \in 1..n : c[k] \in Int /\ e[k] = c[k] - r
    BY <1>3, <1>4
  <2>3. Total(e, 1..n) = Total(c, 1..n) - n * r /\ Total(c, 1..n) \in Int
    BY ONLY <2>1, <2>2, TotalShifts
  <2> QED
    BY <2>3
<1>7. /\ Is(arithmetic_mean_return(x), C, d * n)
      /\ \A k \in 1..n : Is(Deviations(x)[k], c[k] * n - C, d * n)
  BY <1>3, DeviationsIs
<1>8. /\ Is(arithmetic_mean_return(z), E, d * n)
      /\ \A k \in 1..n : Is(Deviations(z)[k], e[k] * n - E, d * n)
  BY <1>5, DeviationsIs
<1> HIDE DEF C, E
<1>9. arithmetic_mean_return(z) = arithmetic_mean_return(x) -- s
  <2>1. Is(s, r * n, d * n)
    BY <1>2, IsScaled
  <2>2. Is(arithmetic_mean_return(x) -- s, C - r * n, d * n)
    BY <1>7, <2>1, DifferenceIs
  <2>3. E = C - r * n
    BY <1>6
  <2> QED
    BY <1>8, <2>2, <2>3, IsOrder
<1>10. ASSUME NEW k \in 1..n PROVE Deviations(z)[k] = Deviations(x)[k]
  <2>1. e[k] * n - E = c[k] * n - C
    BY <1>3, <1>4, <1>6
  <2> QED
    BY <1>7, <1>8, <2>1, IsOrder
<1>11. Deviations(z) \in [1..n -> Rationals] /\ Deviations(x) \in [1..n -> Rationals]
  BY MeanIsNumber
<1> QED
  BY <1>9, <1>10, <1>11

\* Half of a series.
LEMMA DeviationsHalf ==
  ASSUME NEW n \in Nat \ {0}, NEW x \in [1..n -> Rationals],
         NEW z \in [1..n -> Rationals], \A k \in 1..n : z[k] = x[k] // Whole(2)
  PROVE  /\ arithmetic_mean_return(z) = arithmetic_mean_return(x) // Whole(2)
         /\ \A k \in 1..n : Deviations(z)[k] = Deviations(x)[k] // Whole(2)
<1>1. PICK d \in Nat \ {0}, c \in [1..n -> Int] : \A k \in 1..n : Is(x[k], c[k], d)
  <2>1. n \in Nat
    OBVIOUS
  <2> QED
    BY <2>1, SeriesIs
<1>2. 2 \in Nat \ {0} /\ d * 2 \in Nat \ {0}
  OBVIOUS
<1>3. \A k \in 1..n : Is(z[k], c[k], d * 2)
  BY <1>1, <1>2, ShareIs
<1> DEFINE C == Total(c, 1..n)
<1>4. /\ Is(arithmetic_mean_return(x), C, d * n)
      /\ \A k \in 1..n : Is(Deviations(x)[k], c[k] * n - C, d * n)
  BY <1>1, DeviationsIs
<1>5. /\ Is(arithmetic_mean_return(z), C, (d * 2) * n)
      /\ \A k \in 1..n : Is(Deviations(z)[k], c[k] * n - C, (d * 2) * n)
  BY <1>2, <1>3, DeviationsIs
<1> HIDE DEF C
<1>6. (d * 2) * n = (d * n) * 2
  OBVIOUS
<1>7. arithmetic_mean_return(z) = arithmetic_mean_return(x) // Whole(2)
  BY <1>2, <1>4, <1>5, <1>6, ShareIs, IsOrder
<1>8. ASSUME NEW k \in 1..n PROVE Deviations(z)[k] = Deviations(x)[k] // Whole(2)
  BY <1>2, <1>4, <1>5, <1>6, ShareIs, IsOrder
<1> QED
  BY <1>7, <1>8

\* Half of one series and half of another.
LEMMA DeviationsBlend ==
  ASSUME NEW n \in Nat \ {0}, NEW x \in [1..n -> Rationals], NEW y \in [1..n -> Rationals],
         NEW z \in [1..n -> Rationals], \A k \in 1..n : z[k] = (x[k] ++ y[k]) // Whole(2)
  PROVE  \A k \in 1..n : Deviations(z)[k] = (Deviations(x)[k] ++ Deviations(y)[k]) // Whole(2)
<1>1. PICK d \in Nat \ {0}, c \in [1..n -> Int], e \in [1..n -> Int] :
        \A k \in 1..n : Is(x[k], c[k], d) /\ Is(y[k], e[k], d)
  <2>1. n \in Nat
    OBVIOUS
  <2> QED
    BY <2>1, TwoSeriesOver
<1>2. 2 \in Nat \ {0} /\ d * 2 \in Nat \ {0} /\ n \in Nat
  OBVIOUS
<1> DEFINE b == [k \in 1..n |-> c[k] + e[k]]
           C == Total(c, 1..n)
           E == Total(e, 1..n)
           B == Total(b, 1..n)
<1>3. \A k \in 1..n : b[k] = c[k] + e[k] /\ c[k] \in Int /\ e[k] \in Int
  OBVIOUS
<1> HIDE DEF b
<1>4. \A k \in 1..n : Is(z[k], b[k], d * 2)
  <2> TAKE k \in 1..n
  <2>1. Is(x[k] ++ y[k], c[k] + e[k], d)
    BY <1>1, PlusIs
  <2> QED
    BY <1>2, <1>3, <2>1, ShareIs
<1>5. \A k \in 1..n : Is(Deviations(x)[k], c[k] * n - C, d * n) /\ Is(Deviations(y)[k], e[k] * n - E, d * n)
  BY <1>1, DeviationsIs
<1>6. \A k \in 1..n : Is(Deviations(z)[k], b[k] * n - B, (d * 2) * n)
  BY <1>2, <1>4, DeviationsIs
<1>7. B = C + E /\ C \in Int /\ E \in Int
  <2>1. IsFiniteSet(1..n)
    BY FS_Interval
  <2> DEFINE S == 1..n
  <2>2. IsFiniteSet(S) /\ \A k \in S : c[k] \in Int /\ e[k] \in Int /\ b[k] = c[k] + e[k]
    BY <1>3, <2>1
  <2> HIDE DEF S
  <2>3. Total(b, S) = Total(c, S) + Total(e, S)
    BY ONLY <2>2, SumPlus
  <2>4. Total(c, S) \in Int /\ Total(e, S) \in Int
    BY ONLY <2>2, SumIsInt
  <2> QED
    BY ONLY <2>3, <2>4 DEF S
<1> HIDE DEF C, E, B
<1>8. (d * 2) * n = (d * n) * 2
  OBVIOUS
<1>9. ASSUME NEW k \in 1..n
      PROVE  Deviations(z)[k] = (Deviations(x)[k] ++ Deviations(y)[k]) // Whole(2)
  <2>1. Is(Deviations(x)[k] ++ Deviations(y)[k], (c[k] * n - C) + (e[k] * n - E), d * n)
    BY <1>5, PlusIs
  <2>2. (c[k] * n - C) + (e[k] * n - E) = b[k] * n - B
    BY <1>2, <1>3, <1>7
  <2>3. Is((Deviations(x)[k] ++ Deviations(y)[k]) // Whole(2), b[k] * n - B, (d * n) * 2)
    BY <1>2, <2>1, <2>2, ShareIs
  <2> QED
    BY <1>6, <1>8, <2>3, IsOrder
<1> QED
  BY <1>9
-----------------------------------------------------------------------------
(* A fit.                                                                  *)

FitOf(y, x) ==
  LET mean_x == arithmetic_mean_return(x)
      sxx == Dot(Deviations(x), Deviations(x))
      slope == Dot(Deviations(x), Deviations(y)) // sxx
      intercept == arithmetic_mean_return(y) -- slope ** mean_x
  IN Fitted([slope |-> slope, intercept |-> intercept], Len(x), mean_x, sxx,
            Dot(Deviations(y), Deviations(y)),
            Sum([i \in DOMAIN x |-> Square(y[i] -- (intercept ++ slope ** x[i]))]))

LEMMA FitParts ==
  ASSUME NEW y, NEW x, ols_regression(y, x) # Undefined
  PROVE  /\ ~ (Len(x) < 3) /\ Dot(Deviations(x), Deviations(x)) # Zero
         /\ ols_regression(y, x) = FitOf(y, x)
BY DEF ols_regression, FitOf

LEMMA FitFields ==
  ASSUME NEW y, NEW x
  PROVE  LET fit == FitOf(y, x)
             sxx == Dot(Deviations(x), Deviations(x))
             syy == Dot(Deviations(y), Deviations(y))
             residual == Sum([i \in DOMAIN x |-> Square(y[i] -- (fit.intercept ++ fit.slope ** x[i]))])
             sigma_squared == residual // Whole(Len(x) - 2)
             mean_x == arithmetic_mean_return(x)
             se == sigma_squared ** (Q(1, Len(x)) ++ Square(mean_x) // sxx)
         IN /\ fit.slope = Dot(Deviations(x), Deviations(y)) // sxx
            /\ fit.intercept = arithmetic_mean_return(y) -- fit.slope ** mean_x
            /\ fit.r_squared = IF syy = Zero THEN One ELSE One -- residual // syy
            /\ se = Zero => fit.t_intercept = Undefined
<1> DEFINE mean_x == arithmetic_mean_return(x)
           mean_y == arithmetic_mean_return(y)
           sxx == Dot(Deviations(x), Deviations(x))
           syy == Dot(Deviations(y), Deviations(y))
           slope == Dot(Deviations(x), Deviations(y)) // sxx
           intercept == mean_y -- slope ** mean_x
           fit == FitOf(y, x)
           residual == Sum([i \in DOMAIN x |-> Square(y[i] -- (intercept ++ slope ** x[i]))])
           line == [slope |-> slope, intercept |-> intercept]
<1>1. fit = Fitted(line, Len(x), mean_x, sxx, syy, residual)
  BY DEF FitOf
<1>2. line.slope = slope /\ line.intercept = intercept
  OBVIOUS
<1> HIDE DEF fit, line, sxx, syy, residual, mean_x
<1>3. /\ fit.slope = line.slope /\ fit.intercept = line.intercept
      /\ fit.r_squared = IF syy = Zero THEN One ELSE One -- residual // syy
      /\ (residual // Whole(Len(x) - 2)) ** (Q(1, Len(x)) ++ Square(mean_x) // sxx) = Zero
           => fit.t_intercept = Undefined
  BY <1>1 DEF Fitted
<1>4. fit.slope = slope /\ fit.intercept = intercept
  BY <1>2, <1>3
<1>5. residual = Sum([i \in DOMAIN x |-> Square(y[i] -- (fit.intercept ++ fit.slope ** x[i]))])
  BY <1>4 DEF residual
<1>6. fit.intercept = mean_y -- fit.slope ** mean_x
  BY <1>4
<1> QED
  BY <1>3, <1>4, <1>5, <1>6 DEF fit, sxx, syy, mean_x

\* What a line through the means leaves over is what its slope leaves of the deviations.
LEMMA LeftByLine ==
  ASSUME NEW a \in Rationals, NEW b \in Rationals, NEW s \in Rationals,
         NEW u \in Rationals, NEW v \in Rationals
  PROVE  a -- ((b -- s ** u) ++ s ** v) = (a -- b) -- s ** (v -- u)
<1>1. PICK d \in Nat \ {0} : Over(a, d) /\ Over(b, d) /\ Over(s, d) /\ Over(u, d) /\ Over(v, d)
  <2>1. \E d \in Nat \ {0} : /\ Over(a, d) /\ Over(b, d) /\ Over(s, d)
                             /\ Over(u, d) /\ Over(v, d) /\ Over(v, d)
    BY OverSix
  <2> QED
    BY <2>1
<1>2. PICK i \in Int, j \in Int, k \in Int, m \in Int, n \in Int :
        Is(a, i, d) /\ Is(b, j, d) /\ Is(s, k, d) /\ Is(u, m, d) /\ Is(v, n, d)
  BY <1>1 DEF Over
<1>3. /\ Is(s ** u, k * m, d * d) /\ Is(s ** v, k * n, d * d)
      /\ Is(a -- b, i - j, d) /\ Is(v -- u, n - m, d)
      /\ Is(a, i * d, d * d) /\ Is(b, j * d, d * d)
  BY <1>2, TimesIs, DifferenceIs, IsScaled
<1>4. /\ Is(s ** (v -- u), k * (n - m), d * d) /\ Is(a -- b, (i - j) * d, d * d)
      /\ Is(b -- s ** u, j * d - k * m, d * d)
  BY <1>2, <1>3, TimesIs, DifferenceIs, IsScaled
<1>5. Is((b -- s ** u) ++ s ** v, (j * d - k * m) + k * n, d * d)
  BY <1>3, <1>4, PlusIs
<1>6. Is(a -- ((b -- s ** u) ++ s ** v), i * d - ((j * d - k * m) + k * n), d * d)
  BY <1>3, <1>5, DifferenceIs
<1>7. Is((a -- b) -- s ** (v -- u), (i - j) * d - k * (n - m), d * d)
  BY <1>4, DifferenceIs
<1>8. i * d - ((j * d - k * m) + k * n) = (i - j) * d - k * (n - m)
  OBVIOUS
<1> QED
  BY <1>6, <1>7, <1>8, IsOrder
-----------------------------------------------------------------------------
(* A fit, its residuals and the variances, in whole numbers.               *)

\* The deviations of two series are X / d and Y / d, and so are their products.
Measured(x, y, n, d, X, Y, xx, xy, yy) ==
  /\ n \in Nat \ {0, 1, 2} /\ x \in [1..n -> Rationals] /\ y \in [1..n -> Rationals]
  /\ d \in Nat \ {0} /\ X \in [1..n -> Int] /\ Y \in [1..n -> Int]
  /\ \A k \in 1..n : Is(Deviations(x)[k], X[k], d) /\ Is(Deviations(y)[k], Y[k], d)
  /\ xx = Total([k \in 1..n |-> X[k] * X[k]], 1..n)
  /\ xy = Total([k \in 1..n |-> X[k] * Y[k]], 1..n)
  /\ yy = Total([k \in 1..n |-> Y[k] * Y[k]], 1..n)

LEMMA MeasuresExist ==
  ASSUME NEW n \in Nat \ {0, 1, 2}, NEW x \in [1..n -> Rationals], NEW y \in [1..n -> Rationals]
  PROVE  \E d, X, Y, xx, xy, yy : Measured(x, y, n, d, X, Y, xx, xy, yy)
<1>1. n \in Nat /\ n \in Nat \ {0}
  OBVIOUS
<1>2. Deviations(x) \in [1..n -> Rationals] /\ Deviations(y) \in [1..n -> Rationals]
  BY <1>1, MeanIsNumber
<1> DEFINE dx == Deviations(x)
           dy == Deviations(y)
<1>3. dx \in [1..n -> Rationals] /\ dy \in [1..n -> Rationals]
  BY <1>2
<1> HIDE DEF dx, dy
<1>4. PICK d \in Nat \ {0}, X \in [1..n -> Int], Y \in [1..n -> Int] :
        \A k \in 1..n : Is(dx[k], X[k], d) /\ Is(dy[k], Y[k], d)
  BY <1>1, <1>3, TwoSeriesOver
<1> QED
  BY <1>4 DEF Measured, dx, dy

\* The sums are numbers, and none of the products exceeds what Cauchy and Schwarz allow it.
LEMMA MeasuresFit ==
  ASSUME NEW x, NEW y, NEW n, NEW d, NEW X, NEW Y, NEW xx, NEW xy, NEW yy,
         Measured(x, y, n, d, X, Y, xx, xy, yy)
  PROVE  /\ xx \in Nat /\ yy \in Nat /\ xy \in Int
         /\ xx # 0 => xy * xy <= xx * yy
         /\ Is(Dot(Deviations(x), Deviations(x)), xx, d * d)
         /\ Is(Dot(Deviations(y), Deviations(y)), yy, d * d)
         /\ Is(Dot(Deviations(x), Deviations(y)), xy, d * d)
         /\ Is(Dot(Deviations(y), Deviations(x)), xy, d * d)
<1> USE DEF Measured
<1>1. n \in Nat /\ n \in Nat \ {0}
  OBVIOUS
<1>2. xx \in Nat /\ yy \in Nat /\ xy \in Int /\ (xx # 0 => xy * xy <= xx * yy)
  BY <1>1, TotalLeftOver, ZenonT(40)
<1> DEFINE dx == Deviations(x)
           dy == Deviations(y)
<1>3. dx \in [1..n -> Rationals] /\ dy \in [1..n -> Rationals]
  BY <1>1, MeanIsNumber
<1>4. \A k \in 1..n : Is(dx[k], X[k], d) /\ Is(dy[k], Y[k], d)
  OBVIOUS
<1>5. d \in Nat \ {0}
  OBVIOUS
<1> HIDE DEF dx, dy
<1>6. Is(Dot(dx, dx), xx, d * d) /\ Is(Dot(dy, dy), yy, d * d) /\ Is(Dot(dx, dy), xy, d * d)
  <2>1. Is(Dot(dx, dx), xx, d * d)
    <3>1. xx = Total([k \in 1..n |-> X[k] * X[k]], 1..n)
      OBVIOUS
    <3>2. \A k \in 1..n : Is(dx[k], X[k], d) /\ Is(dx[k], X[k], d)
      BY <1>4
    <3>3. Is(Dot(dx, dx), Total([k \in 1..n |-> X[k] * X[k]], 1..n), d * d)
      BY ONLY <1>1, <1>3, <1>5, <3>2, DotIs
    <3> QED
      BY ONLY <3>1, <3>3
  <2>2. Is(Dot(dy, dy), yy, d * d)
    <3>1. yy = Total([k \in 1..n |-> Y[k] * Y[k]], 1..n)
      OBVIOUS
    <3>2. \A k \in 1..n : Is(dy[k], Y[k], d) /\ Is(dy[k], Y[k], d)
      BY <1>4
    <3>3. Is(Dot(dy, dy), Total([k \in 1..n |-> Y[k] * Y[k]], 1..n), d * d)
      BY ONLY <1>1, <1>3, <1>5, <3>2, DotIs
    <3> QED
      BY ONLY <3>1, <3>3
  <2>3. Is(Dot(dx, dy), xy, d * d)
    <3>1. xy = Total([k \in 1..n |-> X[k] * Y[k]], 1..n)
      OBVIOUS
    <3>2. \A k \in 1..n : Is(dx[k], X[k], d) /\ Is(dy[k], Y[k], d)
      BY <1>4
    <3>3. Is(Dot(dx, dy), Total([k \in 1..n |-> X[k] * Y[k]], 1..n), d * d)
      BY ONLY <1>1, <1>3, <1>5, <3>2, DotIs
    <3> QED
      BY ONLY <3>1, <3>3
  <2> QED
    BY <2>1, <2>2, <2>3
<1>7. Is(Dot(dy, dx), xy, d * d)
  <2> DEFINE yx == [k \in 1..n |-> Y[k] * X[k]]
  <2>1. Is(Dot(dy, dx), Total(yx, 1..n), d * d)
    BY <1>1, <1>3, <1>4, <1>5, DotIs
  <2>2. yx = [k \in 1..n |-> X[k] * Y[k]]
    <3>1. ASSUME NEW k \in 1..n PROVE Y[k] * X[k] = X[k] * Y[k]
      <4>1. X[k] \in Int /\ Y[k] \in Int
        OBVIOUS
      <4> QED
        BY <4>1
    <3> QED
      BY <3>1
  <2> HIDE DEF yx
  <2> QED
    BY <2>1, <2>2
<1> QED
  BY <1>2, <1>6, <1>7 DEF dx, dy

LEMMA SlopeIs ==
  ASSUME NEW x, NEW y, NEW n, NEW d, NEW X, NEW Y, NEW xx, NEW xy, NEW yy,
         Measured(x, y, n, d, X, Y, xx, xy, yy), xx # 0
  PROVE  Is(FitOf(y, x).slope, xy, xx) /\ FitOf(y, x).slope \in Rationals
<1>1. /\ Is(Dot(Deviations(x), Deviations(x)), xx, d * d)
      /\ Is(Dot(Deviations(x), Deviations(y)), xy, d * d) /\ xx > 0
  BY MeasuresFit
<1>2. FitOf(y, x).slope = Dot(Deviations(x), Deviations(y)) // Dot(Deviations(x), Deviations(x))
  BY FitFields
<1> QED
  BY <1>1, <1>2, QuotientOver

Residual(fit, y, x) == Sum([i \in DOMAIN x |-> Square(y[i] -- (fit.intercept ++ fit.slope ** x[i]))])

LEMMA ResidualIs ==
  ASSUME NEW x, NEW y, NEW n, NEW d, NEW X, NEW Y, NEW xx, NEW xy, NEW yy,
         Measured(x, y, n, d, X, Y, xx, xy, yy), xx # 0
  PROVE  Is(Residual(FitOf(y, x), y, x), xx * yy - xy * xy, xx * (d * d))
<1> DEFINE s == FitOf(y, x).slope
           l == FitOf(y, x).intercept
           mx == arithmetic_mean_return(x)
           my == arithmetic_mean_return(y)
           f == [i \in 1..n |-> Square(y[i] -- (l ++ s ** x[i]))]
           c == [k \in 1..n |-> (xx * Y[k] - xy * X[k]) * (xx * Y[k] - xy * X[k])]
           e == (xx * d) * (xx * d)
           left == Total(c, 1..n)
<1>1. Is(s, xy, xx) /\ s \in Rationals /\ l = my -- s ** mx
  BY SlopeIs, FitFields
<1>2. /\ n \in Nat \ {0} /\ x \in [1..n -> Rationals] /\ y \in [1..n -> Rationals]
      /\ d \in Nat \ {0} /\ X \in [1..n -> Int] /\ Y \in [1..n -> Int]
      /\ \A k \in 1..n : Is(Deviations(x)[k], X[k], d) /\ Is(Deviations(y)[k], Y[k], d)
  BY DEF Measured
<1>3. xx \in Nat \ {0} /\ xy \in Int /\ yy \in Nat
  BY MeasuresFit
<1>4. mx \in Rationals /\ my \in Rationals
  BY <1>2, MeanIsNumber
<1>5. e \in Nat \ {0} /\ xx * d \in Nat \ {0} /\ xx * (d * d) \in Nat \ {0}
  BY <1>2, <1>3, ProductIsPositive
<1>6. ASSUME NEW k \in 1..n PROVE Is(f[k], c[k], e) /\ f[k] \in Rationals
  <2> DEFINE r == y[k] -- (l ++ s ** x[k])
             a == X[k]
             b == Y[k]
  <2>1. Deviations(x)[k] = x[k] -- mx /\ Deviations(y)[k] = y[k] -- my
    <3>1. /\ Deviations(x) = [i \in 1..n |-> x[i] -- mx]
          /\ Deviations(y) = [i \in 1..n |-> y[i] -- my]
      BY <1>2, MeanIsNumber
    <3> QED
      BY <3>1
  <2>2. x[k] \in Rationals /\ y[k] \in Rationals /\ a \in Int /\ b \in Int
    BY <1>2
  <2>3. r = (y[k] -- my) -- s ** (x[k] -- mx)
    <3> HIDE DEF s, mx, my
    <3> QED
      BY <1>1, <1>4, <2>2, LeftByLine
  <2>4. Is(x[k] -- mx, a, d) /\ Is(y[k] -- my, b, d)
    BY <1>2, <2>1
  <2>5. f[k] = r ** r /\ c[k] = (xx * b - xy * a) * (xx * b - xy * a)
    BY DEF Square
  <2> HIDE DEF s, l, mx, my, f, c, r, a, b, e
  <2>6. Is(s ** (x[k] -- mx), xy * a, xx * d)
    BY <1>1, <2>4, TimesIs
  <2>7. Is(y[k] -- my, xx * b, xx * d)
    <3>1. Is(y[k] -- my, b * xx, d * xx)
      BY <1>3, <2>4, IsScaled
    <3>2. b * xx = xx * b /\ d * xx = xx * d
      BY <1>2, <1>3, <2>2
    <3> QED
      BY <3>1, <3>2
  <2>8. Is(r, xx * b - xy * a, xx * d)
    BY <2>3, <2>6, <2>7, DifferenceIs
  <2> QED
    BY <2>5, <2>8, TimesIs DEF e
<1>7. f \in [1..n -> Rationals] /\ \A k \in 1..n : Is(f[k], c[k], e)
  <2> HIDE DEF c, e
  <2>1. \A k \in 1..n : f[k] \in Rationals /\ Is(f[k], c[k], e)
    BY <1>6
  <2> QED
    BY <2>1
<1>8. Is(Sum(f), left, e)
  <2> HIDE DEF f, c, e
  <2>1. n \in Nat
    BY <1>2
  <2> QED
    BY <1>5, <1>7, <2>1, SumIs
<1>9. left = xx * (xx * yy - xy * xy)
  <2>1. n \in Nat /\ X \in [1..n -> Int] /\ Y \in [1..n -> Int]
    BY <1>2
  <2>2. /\ xx = Total([k \in 1..n |-> X[k] * X[k]], 1..n)
        /\ xy = Total([k \in 1..n |-> X[k] * Y[k]], 1..n)
        /\ yy = Total([k \in 1..n |-> Y[k] * Y[k]], 1..n)
    BY DEF Measured
  <2> QED
    BY ONLY <2>1, <2>2, TotalLeftOver
<1>10. Residual(FitOf(y, x), y, x) = Sum(f)
  <2>1. DOMAIN x = 1..n
    BY <1>2
  <2> QED
    BY <2>1 DEF Residual
<1> HIDE DEF f, left, e
<1>11. Is(Sum(f), xx * yy - xy * xy, xx * (d * d))
  <2> DEFINE m == xx * yy - xy * xy
  <2>1. m \in Int
    BY <1>3
  <2>2. left = xx * m
    BY <1>9
  <2> HIDE DEF m
  <2>3. left * (xx * (d * d)) = m * e
    <3>1. (xx * m) * (xx * (d * d)) = m * ((xx * d) * (xx * d))
      BY <1>2, <1>3, <2>1
    <3> QED
      BY <2>2, <3>1 DEF e
  <2>4. Is(Sum(f), m, xx * (d * d))
    BY <1>5, <1>8, <2>1, <2>3, IsAlso
  <2> QED
    BY <2>4 DEF m
<1> QED
  BY <1>10, <1>11
-----------------------------------------------------------------------------
(* What a fit explains.                                                    *)

LEMMA VariancesAre ==
  ASSUME NEW x, NEW y, NEW n, NEW d, NEW X, NEW Y, NEW xx, NEW xy, NEW yy,
         Measured(x, y, n, d, X, Y, xx, xy, yy)
  PROVE  \E e \in Nat \ {0} :
           /\ e = (d * d) * (n - 1)
           /\ Is(sample_variance(x), xx, e) /\ Is(sample_variance(y), yy, e)
           /\ Is(covariance(x, y), xy, e) /\ Is(covariance(y, x), xy, e)
<1> DEFINE e == (d * d) * (n - 1)
           m == n - 1
<1>1. /\ n \in Nat \ {0, 1, 2} /\ x \in [1..n -> Rationals] /\ y \in [1..n -> Rationals]
      /\ d \in Nat \ {0}
  BY DEF Measured
<1>2. Len(x) = n /\ Len(y) = n
  BY <1>1
<1>3. m \in Nat \ {0} /\ d * d \in Nat \ {0}
  BY <1>1, ProductIsPositive
<1>4. /\ Is(Dot(Deviations(x), Deviations(x)), xx, d * d)
      /\ Is(Dot(Deviations(y), Deviations(y)), yy, d * d)
      /\ Is(Dot(Deviations(x), Deviations(y)), xy, d * d)
      /\ Is(Dot(Deviations(y), Deviations(x)), xy, d * d)
  BY MeasuresFit
<1>5. /\ sample_variance(x) = Dot(Deviations(x), Deviations(x)) // Whole(m)
      /\ sample_variance(y) = Dot(Deviations(y), Deviations(y)) // Whole(m)
      /\ covariance(x, y) = Dot(Deviations(x), Deviations(y)) // Whole(m)
      /\ covariance(y, x) = Dot(Deviations(y), Deviations(x)) // Whole(m)
  BY <1>2 DEF sample_variance, covariance
<1> HIDE DEF m
<1>6. e = (d * d) * m
  BY DEF m
<1>7. e \in Nat \ {0} /\ e = (d * d) * (n - 1)
  <2>1. (d * d) * m \in Nat \ {0}
    BY <1>3, ProductIsPositive
  <2> QED
    BY <1>6, <2>1
<1> HIDE DEF e
<1>8. /\ Is(sample_variance(x), xx, e) /\ Is(sample_variance(y), yy, e)
      /\ Is(covariance(x, y), xy, e) /\ Is(covariance(y, x), xy, e)
  BY <1>3, <1>4, <1>5, <1>6, ShareIs
<1> QED
  BY <1>7, <1>8

LEMMA FitnessIs ==
  ASSUME NEW x, NEW y, NEW n, NEW d, NEW X, NEW Y, NEW xx, NEW xy, NEW yy,
         Measured(x, y, n, d, X, Y, xx, xy, yy), xx # 0
  PROVE  /\ yy = 0 => FitOf(y, x).r_squared = One
         /\ yy # 0 => Is(FitOf(y, x).r_squared, xy * xy, xx * yy)
<1> DEFINE fit == FitOf(y, x)
           syy == Dot(Deviations(y), Deviations(y))
           r == Residual(fit, y, x)
           m == xx * yy - xy * xy
           p == xx * yy
           q == xy * xy
<1>1. xx \in Nat \ {0} /\ yy \in Nat /\ xy \in Int /\ Is(syy, yy, d * d) /\ d \in Nat \ {0}
  BY MeasuresFit DEF Measured
<1>2. fit.r_squared = IF syy = Zero THEN One ELSE One -- r // syy
  BY FitFields DEF Residual
<1>3. syy = Zero <=> yy = 0
  BY <1>1, PositiveIs
<1>4. Is(r, m, xx * (d * d))
  BY ResidualIs
<1>5. ASSUME yy # 0 PROVE Is(fit.r_squared, q, p)
  <2>1. yy \in Nat \ {0} /\ d * d \in Nat \ {0}
    BY <1>1, <1>5, ProductIsPositive
  <2>2. p \in Nat \ {0} /\ p = xx * yy
    BY <1>1, <2>1, ProductIsPositive
  <2>3. Is(syy, p, xx * (d * d))
    <3>1. Is(syy, yy * xx, (d * d) * xx)
      BY <1>1, IsScaled
    <3>2. yy * xx = p /\ (d * d) * xx = xx * (d * d)
      BY <1>1
    <3> QED
      BY <3>1, <3>2
  <2>4. m = p - q /\ p \in Int /\ q \in Int
    BY <1>1
  <2> HIDE DEF fit, syy, r, m, p, q
  <2>5. Is(r // syy, m, p)
    <3>1. p > 0
      BY <2>2
    <3> QED
      BY <1>4, <2>3, <3>1, QuotientOver
  <2>6. Is(One, p, p)
    BY <2>2, ZeroIs
  <2>7. Is(One -- r // syy, p - m, p)
    BY <2>5, <2>6, DifferenceIs
  <2>8. p - m = q
    BY <2>4
  <2> QED
    BY <1>2, <1>3, <1>5, <2>7, <2>8
<1> QED
  BY <1>2, <1>3, <1>5

\* The square of a number or of its opposite, with its sign kept.
LEMMA RatioIsSquare ==
  ASSUME NEW a \in Rationals, NEW b \in {a, Minus(a)}
  PROVE  Ratio(b, One) \in {Square(a), Minus(Square(a))}
<1>1. PICK n \in Int, d \in Nat \ {0} : Is(a, n, d)
  BY IsCommon
<1>2. Is(Minus(a), -n, d) /\ Is(Minus(Minus(a)), -(-n), d)
  BY <1>1, MinusIs
<1>3. Minus(Minus(a)) = a
  <2>1. -(-n) = n
    OBVIOUS
  <2> QED
    BY <1>1, <1>2, <2>1, IsOrder
<1>4. ASSUME NEW c \in Rationals PROVE c // One = c
  <2>1. PICK i \in Int, e \in Nat \ {0} : Is(c, i, e)
    BY IsCommon
  <2>2. Is(One, e, e)
    BY ZeroIs
  <2>3. Is(c // One, i, e)
    BY <2>1, <2>2, QuotientOver
  <2> QED
    BY <2>1, <2>3, IsOrder
<1>5. Minus(a) \in Rationals
  BY <1>1, MinusIs
<1>6. Ratio(b, One) \in {a ** a, a ** Minus(a), Minus(a) ** a, Minus(a) ** Minus(a)}
  <2>1. b // One = b
    BY <1>4, <1>5
  <2>2. Ratio(b, One) \in {b ** b, Minus(b) ** b}
    BY <2>1 DEF Ratio
  <2> QED
    BY <1>3, <2>2
<1>7. /\ Is(a ** a, n * n, d * d) /\ Is(a ** Minus(a), n * (-n), d * d)
      /\ Is(Minus(a) ** a, (-n) * n, d * d) /\ Is(Minus(a) ** Minus(a), (-n) * (-n), d * d)
  BY <1>1, <1>2, TimesIs
<1>8. Is(Minus(a ** a), -(n * n), d * d)
  BY <1>7, MinusIs
<1>9. n * (-n) = -(n * n) /\ (-n) * n = -(n * n) /\ (-n) * (-n) = n * n
  OBVIOUS
<1>10. a ** Minus(a) = Minus(a ** a) /\ Minus(a) ** a = Minus(a ** a)
       /\ Minus(a) ** Minus(a) = a ** a
  BY <1>7, <1>8, <1>9, IsOrder
<1> QED
  BY <1>6, <1>10 DEF Square
-----------------------------------------------------------------------------
\* A slope of xy / xx, and an R squared of xy * xy / (xx * yy).
Fits(fit, xx, xy, yy) ==
  /\ Is(fit.slope, xy, xx)
  /\ yy = 0 => fit.r_squared = One
  /\ yy # 0 => Is(fit.r_squared, xy * xy, xx * yy)

\* Part of the risk is systematic, and the fit leaves the rest.
LEMMA PartsAre ==
  ASSUME NEW fit, NEW xx \in Nat \ {0}, NEW xy \in Int, NEW yy \in Nat, NEW e \in Nat \ {0},
         xy * xy <= xx * yy, Fits(fit, xx, xy, yy),
         NEW var_x, NEW var_y, Is(var_x, xx, e), Is(var_y, yy, e)
  PROVE  LET parts == risk_decomposition(fit.slope, var_x, var_y)
         IN /\ parts # Undefined
            /\ parts.unsystematic = (One -- fit.r_squared) ** parts.total
<1> DEFINE q == xy * xy
           p == xx * yy
           systematic == Square(fit.slope) ** var_x
           parts == risk_decomposition(fit.slope, var_x, var_y)
           m == p - q
           u == xx * e
<1>1. q \in Nat /\ p \in Nat /\ q <= p /\ m \in Nat /\ u \in Nat \ {0}
  BY SquareIsNat, ProductIsNat, ProductIsPositive
<1>2. Is(systematic, q, u)
  <2>1. Is(Square(fit.slope), xy * xy, xx * xx)
    BY TimesIs DEF Square, Fits
  <2>2. Is(systematic, (xy * xy) * xx, (xx * xx) * e)
    BY <2>1, TimesIs
  <2>3. ((xy * xy) * xx) * u = q * ((xx * xx) * e)
    OBVIOUS
  <2> HIDE DEF systematic, u, q
  <2> QED
    BY <1>1, <2>2, <2>3, IsAlso
<1>3. Is(var_y, p, u)
  <2>1. Is(var_y, yy * xx, e * xx)
    BY IsScaled
  <2>2. yy * xx = p /\ e * xx = u
    OBVIOUS
  <2> QED
    BY <2>1, <2>2
<1>4. parts = IF var_y \prec systematic THEN Undefined
              ELSE [total |-> var_y, systematic |-> systematic, unsystematic |-> var_y -- systematic]
  BY DEF risk_decomposition
<1> HIDE DEF systematic, parts
<1>5. ~ (var_y \prec systematic)
  <2> HIDE DEF q, p, u, m
  <2> QED
    BY <1>1, <1>2, <1>3, IsOrder
<1>6. Is(var_y -- systematic, m, u)
  BY <1>2, <1>3, DifferenceIs
<1>7. /\ parts = [total |-> var_y, systematic |-> systematic, unsystematic |-> var_y -- systematic]
      /\ parts.total = var_y /\ parts.unsystematic = var_y -- systematic
  BY <1>4, <1>5
<1>8. parts # Undefined
  <2>1. var_y \in Rationals /\ systematic \in Rationals /\ var_y -- systematic \in Rationals
    BY <1>2, <1>3, <1>6 DEF Is
  <2>2. parts \in [total : Rationals, systematic : Rationals, unsystematic : Rationals]
    BY <1>7, <2>1
  <2> QED
    BY <2>2, TrackRecordAssumption
<1>9. CASE yy = 0
  <2>1. fit.r_squared = One
    BY <1>9 DEF Fits
  <2>2. (One -- One) ** var_y = Zero
    <3>1. One -- One = Zero /\ One \in Rationals /\ Zero \in Rationals /\ var_y \in Rationals
      BY ConstantsAreNumbers, PlusLaws DEF Is
    <3>2. Zero ** var_y = Zero
      BY <3>1, TimesLaws
    <3> QED
      BY <3>1, <3>2
  <2>3. m = 0
    <3>1. p = 0
      BY <1>9
    <3> HIDE DEF p, q
    <3> QED
      BY <1>1, <3>1
  <2>4. var_y -- systematic = Zero
    BY <1>6, <2>3, PositiveIs
  <2> QED
    BY <1>7, <1>8, <2>1, <2>2, <2>4 DEF parts
<1>10. CASE yy # 0
  <2>1. p \in Nat \ {0}
    BY <1>10, ProductIsPositive
  <2>2. Is(fit.r_squared, q, p) /\ Is(One, p, p)
    BY <1>10, <2>1, ZeroIs DEF Fits
  <2>3. Is(One -- fit.r_squared, m, p)
    BY <2>2, DifferenceIs
  <2>4. Is((One -- fit.r_squared) ** var_y, m * yy, p * e)
    BY <2>3, TimesIs
  <2>5. m * (p * e) = (m * yy) * u
    <3> HIDE DEF m
    <3>1. m \in Int
      BY <1>1
    <3> QED
      BY <3>1
  <2> HIDE DEF m, p, u
  <2>6. var_y -- systematic = (One -- fit.r_squared) ** var_y
    BY <1>6, <2>4, <2>5, IsSame
  <2> QED
    BY <1>7, <1>8, <2>6 DEF parts
<1> QED
  BY <1>9, <1>10

\* The correlation is the R squared, or its opposite.
LEMMA RelatedIs ==
  ASSUME NEW fit, NEW xx \in Nat \ {0}, NEW xy \in Int, NEW yy \in Nat, NEW e \in Nat \ {0},
         Fits(fit, xx, xy, yy),
         NEW var_x, NEW var_y, NEW cov, Is(var_x, xx, e), Is(var_y, yy, e), Is(cov, xy, e),
         var_y ** var_x # Zero
  PROVE  Ratio(Ratio(cov, var_y ** var_x), One)
           \in {Square(fit.r_squared), Minus(Square(fit.r_squared))}
<1> DEFINE v == var_y ** var_x
           q == xy * xy
           p == xx * yy
           related == Ratio(cov, v)
<1>1. Is(v, p, e * e)
  <2>1. Is(v, yy * xx, e * e)
    BY TimesIs
  <2>2. yy * xx = p
    OBVIOUS
  <2> QED
    BY <2>1, <2>2
<1>2. p # 0 /\ yy # 0
  BY <1>1, PositiveIs
<1>3. p \in Nat \ {0}
  BY <1>2, ProductIsPositive
<1>4. Is(fit.r_squared, q, p) /\ q \in Int
  BY <1>2 DEF Fits
<1> HIDE DEF p, q, v
<1>5. Is(cov // v, xy * e, p)
  <2>1. Is(cov, xy * e, e * e) /\ p > 0
    BY <1>3, IsScaled
  <2> QED
    BY <1>1, <2>1, QuotientOver
<1>6. Is(Minus(cov), -xy, e)
  BY MinusIs
<1>7. Is(cov ** (cov // v), q, p)
  <2>1. Is(cov ** (cov // v), xy * (xy * e), e * p)
    BY <1>5, TimesIs
  <2>2. (xy * (xy * e)) * p = q * (e * p)
    BY <1>3 DEF q
  <2> QED
    BY <1>3, <1>4, <2>1, <2>2, IsAlso
<1>8. Is(Minus(cov) ** (cov // v), -q, p)
  <2>1. Is(Minus(cov) ** (cov // v), (-xy) * (xy * e), e * p)
    BY <1>5, <1>6, TimesIs
  <2>2. ((-xy) * (xy * e)) * p = (-q) * (e * p) /\ -q \in Int
    BY <1>3, <1>4 DEF q
  <2> QED
    BY <1>3, <2>1, <2>2, IsAlso
<1>9. cov ** (cov // v) = fit.r_squared /\ Minus(cov) ** (cov // v) = Minus(fit.r_squared)
  <2>1. Is(Minus(fit.r_squared), -q, p)
    BY <1>4, MinusIs
  <2> QED
    BY <1>4, <1>7, <1>8, <2>1, IsOrder
<1>10. related \in {fit.r_squared, Minus(fit.r_squared)} /\ fit.r_squared \in Rationals
  BY <1>4, <1>9 DEF Ratio, Is
<1> HIDE DEF related
<1>11. Ratio(related, One) \in {Square(fit.r_squared), Minus(Square(fit.r_squared))}
  BY <1>10, RatioIsSquare
<1> QED
  BY <1>11 DEF related, v

LEMMA FitExplains ==
  ASSUME NEW x, NEW y, NEW n, NEW d, NEW X, NEW Y, NEW xx, NEW xy, NEW yy,
         Measured(x, y, n, d, X, Y, xx, xy, yy), xx # 0, NEW fit, Fits(fit, xx, xy, yy)
  PROVE  Explains(fit, risk_decomposition(fit.slope, sample_variance(x), sample_variance(y)),
                  correlation(y, x))
<1>1. PICK e \in Nat \ {0} :
        /\ Is(sample_variance(x), xx, e) /\ Is(sample_variance(y), yy, e)
        /\ Is(covariance(x, y), xy, e) /\ Is(covariance(y, x), xy, e)
  BY VariancesAre
<1>2. xx \in Nat \ {0} /\ xy \in Int /\ yy \in Nat /\ xy * xy <= xx * yy
  BY MeasuresFit
<1> DEFINE parts == risk_decomposition(fit.slope, sample_variance(x), sample_variance(y))
<1>3. parts # Undefined /\ parts.unsystematic = (One -- fit.r_squared) ** parts.total
  BY <1>1, <1>2, PartsAre
<1>4. correlation(y, x) # Undefined =>
        Ratio(correlation(y, x), One) \in {Square(fit.r_squared), Minus(Square(fit.r_squared))}
  <2> SUFFICES ASSUME correlation(y, x) # Undefined
               PROVE  Ratio(correlation(y, x), One)
                        \in {Square(fit.r_squared), Minus(Square(fit.r_squared))}
    OBVIOUS
  <2> DEFINE va == sample_variance(y)
             vb == sample_variance(x)
             cov == covariance(y, x)
  <2>1. va ** vb # Zero /\ correlation(y, x) = Ratio(cov, va ** vb)
    BY DEF correlation
  <2>2. Is(vb, xx, e) /\ Is(va, yy, e) /\ Is(cov, xy, e)
    BY <1>1
  <2> HIDE DEF va, vb, cov
  <2> QED
    BY <1>2, <2>1, <2>2, RelatedIs
<1> HIDE DEF parts
<1>5. Explains(fit, parts, correlation(y, x))
  BY <1>3, <1>4 DEF Explains
<1> QED
  BY <1>5 DEF parts
-----------------------------------------------------------------------------
(* Half of a market and half of cash.                                      *)

LEMMA FitGiven ==
  ASSUME NEW y, NEW x, ~ (Len(x) < 3), Dot(Deviations(x), Deviations(x)) # Zero
  PROVE  ols_regression(y, x) = FitOf(y, x)
BY DEF ols_regression, FitOf

LEMMA HalfIs == Is(Q(1, 2), 1, 2) /\ Q(1, 2) \in Rationals
<1>1. 1 \in Int /\ 2 \in Nat \ {0}
  OBVIOUS
<1> QED
  BY <1>1, QIs

\* Of a series and its half, in whole numbers.
LEMMA HalfMeasured ==
  ASSUME NEW n \in Nat \ {0, 1, 2}, NEW x \in [1..n -> Rationals], NEW z \in [1..n -> Rationals],
         \A k \in 1..n : z[k] = x[k] // Whole(2)
  PROVE  \E d, X, Y, xx, xy, yy :
           /\ Measured(x, z, n, d, X, Y, xx, xy, yy) /\ xx = 2 * xy /\ xy = 2 * yy
           /\ yy \in Nat /\ xy \in Int
<1>1. n \in Nat /\ n \in Nat \ {0} /\ 2 \in Nat \ {0}
  OBVIOUS
<1> DEFINE dx == Deviations(x)
           dz == Deviations(z)
<1>2. dx \in [1..n -> Rationals] /\ \A k \in 1..n : dz[k] = dx[k] // Whole(2)
  BY <1>1, MeanIsNumber, DeviationsHalf
<1> HIDE DEF dx, dz
<1>3. PICK c \in Nat \ {0}, Y \in [1..n -> Int] : \A k \in 1..n : Is(dx[k], Y[k], c)
  BY <1>1, <1>2, SeriesIs
<1> DEFINE d == c * 2
           X == [k \in 1..n |-> Y[k] * 2]
           fxx == [k \in 1..n |-> X[k] * X[k]]
           fxy == [k \in 1..n |-> X[k] * Y[k]]
           fyy == [k \in 1..n |-> Y[k] * Y[k]]
           xx == Total(fxx, 1..n)
           xy == Total(fxy, 1..n)
           yy == Total(fyy, 1..n)
<1>4. d \in Nat \ {0} /\ X \in [1..n -> Int]
  <2>1. ASSUME NEW k \in 1..n PROVE Y[k] * 2 \in Int
    <3>1. Y[k] \in Int
      OBVIOUS
    <3> QED
      BY <3>1
  <2> QED
    BY <2>1
<1>5. ASSUME NEW k \in 1..n PROVE Is(dx[k], X[k], d) /\ Is(dz[k], Y[k], d)
  <2>1. Is(dx[k], Y[k] * 2, c * 2)
    BY <1>1, <1>3, IsScaled
  <2>2. Is(dx[k] // Whole(2), Y[k], c * 2)
    BY <1>1, <1>3, ShareIs
  <2> QED
    BY <1>2, <2>1, <2>2
<1>6. Measured(x, z, n, d, X, Y, xx, xy, yy)
  <2> HIDE DEF d, X
  <2> QED
    BY <1>4, <1>5 DEF Measured, dx, dz
<1>7. \A k \in 1..n : /\ fxx[k] = 2 * fxy[k] /\ fxy[k] = 2 * fyy[k]
                      /\ fyy[k] \in Int /\ fxy[k] \in Int
  <2> TAKE k \in 1..n
  <2> DEFINE a == Y[k]
  <2>1. a \in Int
    OBVIOUS
  <2>2. fxx[k] = (a * 2) * (a * 2) /\ fxy[k] = (a * 2) * a /\ fyy[k] = a * a
    OBVIOUS
  <2> HIDE DEF fxx, fxy, fyy, a, X
  <2> QED
    BY <2>1, <2>2
<1>8. yy \in Nat /\ xy \in Int
  BY <1>6, MeasuresFit
<1> HIDE DEF fxx, fxy, fyy
<1>9. xx = 2 * xy /\ xy = 2 * yy
  <2> DEFINE t == 2
  <2>1. IsFiniteSet(1..n) /\ t \in Int
    BY FS_Interval
  <2>2. \A k \in 1..n : fxy[k] \in Int /\ fxx[k] = t * fxy[k]
    BY <1>7
  <2>3. \A k \in 1..n : fyy[k] \in Int /\ fxy[k] = t * fyy[k]
    BY <1>7
  <2> HIDE DEF t
  <2>4. Total(fxx, 1..n) = t * Total(fxy, 1..n)
    BY ONLY <2>1, <2>2, SumTimes
  <2>5. Total(fxy, 1..n) = t * Total(fyy, 1..n)
    BY ONLY <2>1, <2>3, SumTimes
  <2> QED
    BY <2>4, <2>5 DEF t
<1> HIDE DEF d, X, xx, xy, yy
<1> QED
  BY <1>6, <1>8, <1>9

LEMMA HalfOfMarket ==
  ASSUME NEW n \in Nat \ {0, 1, 2}, NEW x \in [1..n -> Rationals], NEW z \in [1..n -> Rationals],
         \A k \in 1..n : z[k] = x[k] // Whole(2),
         Dot(Deviations(x), Deviations(x)) # Zero
  PROVE  LET fit == estimate_beta(z, x)
         IN fit.slope = Q(1, 2) /\ fit.intercept = Zero /\ fit.t_intercept = Undefined
<1>1. PICK d, X, Y, xx, xy, yy :
        /\ Measured(x, z, n, d, X, Y, xx, xy, yy) /\ xx = 2 * xy /\ xy = 2 * yy
        /\ yy \in Nat /\ xy \in Int
  BY HalfMeasured
<1> DEFINE fit == FitOf(z, x)
           mx == arithmetic_mean_return(x)
           mz == arithmetic_mean_return(z)
           sxx == Dot(Deviations(x), Deviations(x))
           residual == Residual(fit, z, x)
<1>2. estimate_beta(z, x) = fit /\ Len(x) = n
  <2>1. Len(x) = n /\ ~ (Len(x) < 3)
    OBVIOUS
  <2> QED
    BY <2>1, FitGiven DEF estimate_beta
<1>3. Is(sxx, xx, d * d)
  BY <1>1, MeasuresFit
<1>4. xx # 0
  BY <1>3, PositiveIs
<1>5. fit.slope = Q(1, 2)
  <2>1. Is(fit.slope, xy, xx)
    BY <1>1, <1>4, SlopeIs
  <2>2. xy * 2 = 1 * xx
    BY <1>1
  <2> HIDE DEF fit
  <2> QED
    BY <2>1, <2>2, HalfIs, IsSame
<1>6. mx \in Rationals /\ mz = mx // Whole(2)
  <2>1. n \in Nat \ {0}
    OBVIOUS
  <2> QED
    BY <2>1, MeanIsNumber, DeviationsHalf
<1>7. fit.intercept = Zero
  <2>1. fit.intercept = mz -- fit.slope ** mx
    BY FitFields
  <2> HIDE DEF fit, mx, mz
  <2>2. PICK i \in Int, c \in Nat \ {0} : Is(mx, i, c)
    BY <1>6, IsCommon
  <2>3. Is(mz, i, c * 2)
    <3>1. 2 \in Nat \ {0}
      OBVIOUS
    <3> QED
      BY <1>6, <2>2, <3>1, ShareIs
  <2>4. Is(fit.slope ** mx, 1 * i, 2 * c)
    BY <1>5, <2>2, HalfIs, TimesIs
  <2>5. 1 * i = i /\ 2 * c = c * 2
    OBVIOUS
  <2>6. Is(mz -- fit.slope ** mx, i - i, c * 2)
    BY <2>3, <2>4, <2>5, DifferenceIs
  <2>7. i - i = 0
    OBVIOUS
  <2> QED
    BY <2>1, <2>6, <2>7, PositiveIs
<1>8. residual = Zero
  <2>1. Is(residual, xx * yy - xy * xy, xx * (d * d))
    BY <1>1, <1>4, ResidualIs
  <2>2. xx * yy - xy * xy = 0
    BY <1>1
  <2> HIDE DEF residual
  <2> QED
    BY <2>1, <2>2, PositiveIs
<1>9. fit.t_intercept = Undefined
  <2> DEFINE sigma_squared == residual // Whole(Len(x) - 2)
             se == sigma_squared ** (Q(1, Len(x)) ++ Square(mx) // sxx)
  <2>1. se = Zero => fit.t_intercept = Undefined
    BY FitFields DEF Residual
  <2>2. sigma_squared = Zero
    <3> DEFINE m == n - 2
    <3>1. m \in Nat \ {0} /\ sigma_squared = Zero // Whole(m)
      BY <1>2, <1>8
    <3>2. Is(Zero, 0, 1)
      BY ZeroIs
    <3> HIDE DEF m, sigma_squared
    <3>3. Is(sigma_squared, 0, 1 * m)
      BY <3>1, <3>2, ShareIs
    <3> QED
      BY <3>3, PositiveIs
  <2>3. Q(1, n) ++ Square(mx) // sxx \in Rationals
    <3>1. Q(1, n) \in Rationals
      <4>1. 1 \in Int /\ n \in Nat \ {0}
        OBVIOUS
      <4> QED
        BY <4>1, QIs
    <3>2. sxx \in Rationals /\ sxx # Zero
      BY <1>3 DEF Is
    <3> HIDE DEF mx, sxx
    <3> QED
      BY <1>6, <3>1, <3>2, Closed
  <2>4. se = Zero
    <3>1. se = Zero ** (Q(1, n) ++ Square(mx) // sxx)
      BY <1>2, <2>2
    <3> DEFINE w == Q(1, n) ++ Square(mx) // sxx
    <3>2. w \in Rationals /\ Zero \in Rationals /\ se = Zero ** w
      BY <2>3, <3>1, ConstantsAreNumbers
    <3> HIDE DEF w, se
    <3> QED
      BY <3>2, TimesLaws
  <2> QED
    BY <2>1, <2>4
<1> QED
  BY <1>2, <1>5, <1>7, <1>9
-----------------------------------------------------------------------------
(* Half of one, half of another.                                           *)

LEMMA PairIsSeries ==
  ASSUME NEW a \in Rationals, NEW b \in Rationals
  PROVE  /\ <<a, b>> \in Seq(Rationals) /\ Len(<<a, b>>) = 2
         /\ <<a, b>>[1] = a /\ <<a, b>>[2] = b
OBVIOUS

LEMMA DotOfTwo ==
  ASSUME NEW a \in Rationals, NEW b \in Rationals, NEW c \in Rationals, NEW e \in Rationals
  PROVE  Dot(<<a, b>>, <<c, e>>) = a ** c ++ b ** e
<1> DEFINE s == [i \in 1..2 |-> <<a, b>>[i] ** <<c, e>>[i]]
<1>1. s[1] = a ** c /\ s[2] = b ** e
  OBVIOUS
<1>2. a ** c \in Rationals /\ b ** e \in Rationals
  BY Closed
<1>3. s \in [1..2 -> Rationals]
  <2>1. \A i \in 1..2 : i = 1 \/ i = 2
    OBVIOUS
  <2>2. \A i \in 1..2 : s[i] \in Rationals
    BY <1>1, <1>2, <2>1
  <2> QED
    BY <2>2
<1>4. Dot(<<a, b>>, <<c, e>>) = Sum(s)
  BY DEF Dot
<1> HIDE DEF s
<1>5. s \in Seq(Rationals) /\ Len(s) = 2
  <2>1. 2 \in Nat
    OBVIOUS
  <2> QED
    BY <1>3, <2>1, FunctionIsSequence
<1> QED
  BY <1>1, <1>4, <1>5, SumOfTwo

LEMMA HalfOfBeta == portfolio_beta(<<Q(1, 2), Q(1, 2)>>, <<One, Zero>>) = Q(1, 2)
<1> DEFINE h == Q(1, 2)
<1>1. h \in Rationals /\ One \in Rationals /\ Zero \in Rationals
  BY HalfIs, ConstantsAreNumbers
<1> HIDE DEF h
<1>2. Dot(<<h, h>>, <<One, Zero>>) = h ** One ++ h ** Zero
  BY <1>1, DotOfTwo
<1>3. h ** One = h /\ h ** Zero = Zero /\ h ++ Zero = h
  BY <1>1, TimesLaws, PlusLaws
<1> QED
  BY <1>2, <1>3 DEF portfolio_beta, h

LEMMA BlendByMatrix ==
  ASSUME NEW va, NEW vb, NEW cov, NEW xx, NEW xy, NEW yy, NEW e \in Nat \ {0},
         Is(va, yy, e), Is(vb, xx, e), Is(cov, xy, e)
  PROVE  /\ Is(portfolio_variance(<<Q(1, 2), Q(1, 2)>>, <<<<va, cov>>, <<cov, vb>>>>),
               yy + 2 * xy + xx, 4 * e)
         /\ Is(two_asset_variance(Q(1, 2), Q(1, 2), va, vb, cov), yy + 2 * xy + xx, 4 * e)
<1> DEFINE h == Q(1, 2)
           first == va ** h ++ cov ** h
           second == cov ** h ++ vb ** h
<1>1. /\ xx \in Int /\ xy \in Int /\ yy \in Int
      /\ va \in Rationals /\ vb \in Rationals /\ cov \in Rationals
  BY DEF Is
<1>2. Is(h, 1, 2) /\ h \in Rationals
  BY HalfIs
<1> HIDE DEF h
<1>3. Is(va ** h, yy * 1, e * 2) /\ Is(cov ** h, xy * 1, e * 2) /\ Is(vb ** h, xx * 1, e * 2)
  BY <1>2, TimesIs
<1>4. Is(first, yy * 1 + xy * 1, e * 2) /\ Is(second, xy * 1 + xx * 1, e * 2)
  BY <1>3, PlusIs
<1>5. Is(h ** first, 1 * (yy * 1 + xy * 1), 2 * (e * 2)) /\ Is(h ** second, 1 * (xy * 1 + xx * 1), 2 * (e * 2))
  BY <1>2, <1>4, TimesIs
<1>6. Is(h ** first ++ h ** second, 1 * (yy * 1 + xy * 1) + 1 * (xy * 1 + xx * 1), 2 * (e * 2))
  BY <1>5, PlusIs
<1>7. 1 * (yy * 1 + xy * 1) + 1 * (xy * 1 + xx * 1) = yy + 2 * xy + xx /\ 2 * (e * 2) = 4 * e
  BY <1>1
<1>8. portfolio_variance(<<h, h>>, <<<<va, cov>>, <<cov, vb>>>>) = h ** first ++ h ** second
  <2>1. portfolio_variance(<<h, h>>, <<<<va, cov>>, <<cov, vb>>>>)
          = Dot(<<h, h>>, <<Dot(<<va, cov>>, <<h, h>>), Dot(<<cov, vb>>, <<h, h>>)>>)
    BY DEF portfolio_variance, Both
  <2>2. Dot(<<va, cov>>, <<h, h>>) = first /\ Dot(<<cov, vb>>, <<h, h>>) = second
    BY <1>1, <1>2, DotOfTwo
  <2>3. first \in Rationals /\ second \in Rationals
    BY <1>4 DEF Is
  <2> HIDE DEF first, second
  <2>4. Dot(<<h, h>>, <<first, second>>) = h ** first ++ h ** second
    BY <1>2, <2>3, DotOfTwo
  <2> QED
    BY <2>1, <2>2, <2>4
<1> DEFINE sq == Square(h)
<1>9. Is(sq, 1 * 1, 2 * 2)
  BY <1>2, TimesIs DEF Square
<1>10. Is(sq, 1, 4)
  <2>1. 1 * 1 = 1 /\ 2 * 2 = 4
    OBVIOUS
  <2> QED
    BY <1>9, <2>1
<1> HIDE DEF sq
<1>11. Is(sq ** va, 1 * yy, 4 * e) /\ Is(sq ** vb, 1 * xx, 4 * e)
  BY <1>10, TimesIs
<1>12. Is(Whole(2) ** h ** h ** cov, ((2 * 1) * 1) * xy, ((1 * 2) * 2) * e)
  <2>1. Is(Whole(2), 2, 1)
    BY IsWhole
  <2>2. Is(Whole(2) ** h, 2 * 1, 1 * 2)
    BY <1>2, <2>1, TimesIs
  <2>3. Is((Whole(2) ** h) ** h, (2 * 1) * 1, (1 * 2) * 2)
    BY <1>2, <2>2, TimesIs
  <2> QED
    BY <2>3, TimesIs
<1>13. ((2 * 1) * 1) * xy = 2 * xy /\ ((1 * 2) * 2) * e = 4 * e /\ 1 * yy = yy /\ 1 * xx = xx
  BY <1>1
<1>14. Is((sq ** va ++ sq ** vb) ++ Whole(2) ** h ** h ** cov, (yy + xx) + 2 * xy, 4 * e)
  BY <1>11, <1>12, <1>13, PlusIs
<1>15. (yy + xx) + 2 * xy = yy + 2 * xy + xx
  BY <1>1
<1>16. two_asset_variance(h, h, va, vb, cov) = (sq ** va ++ sq ** vb) ++ Whole(2) ** h ** h ** cov
  BY DEF two_asset_variance, sq
<1> QED
  BY <1>6, <1>7, <1>8, <1>14, <1>15, <1>16 DEF h

LEMMA BlendVaries ==
  ASSUME NEW x, NEW y, NEW n, NEW d, NEW X, NEW Y, NEW xx, NEW xy, NEW yy,
         Measured(x, y, n, d, X, Y, xx, xy, yy),
         NEW z \in [1..n -> Rationals], \A k \in 1..n : z[k] = (y[k] ++ x[k]) // Whole(2)
  PROVE  Is(sample_variance(z), yy + 2 * xy + xx, 4 * ((d * d) * (n - 1)))
<1> DEFINE m == n - 1
           dx == Deviations(x)
           dy == Deviations(y)
           dz == Deviations(z)
           c == [k \in 1..n |-> Y[k] + X[k]]
           f == [k \in 1..n |-> c[k] * c[k]]
           fxx == [k \in 1..n |-> X[k] * X[k]]
           fxy == [k \in 1..n |-> X[k] * Y[k]]
           fyy == [k \in 1..n |-> Y[k] * Y[k]]
           f1 == [k \in 1..n |-> fyy[k] + fxy[k]]
           f2 == [k \in 1..n |-> fxy[k] + fxx[k]]
           e == d * 2
<1>1. /\ n \in Nat \ {0, 1, 2} /\ x \in [1..n -> Rationals] /\ y \in [1..n -> Rationals]
      /\ d \in Nat \ {0} /\ X \in [1..n -> Int] /\ Y \in [1..n -> Int]
      /\ \A k \in 1..n : Is(dx[k], X[k], d) /\ Is(dy[k], Y[k], d)
      /\ xx = Total([k \in 1..n |-> X[k] * X[k]], 1..n)
      /\ xy = Total([k \in 1..n |-> X[k] * Y[k]], 1..n)
      /\ yy = Total([k \in 1..n |-> Y[k] * Y[k]], 1..n)
  BY DEF Measured
<1>2. m \in Nat \ {0} /\ n \in Nat \ {0} /\ n \in Nat /\ e \in Nat \ {0} /\ e * e \in Nat \ {0}
      /\ d * d \in Nat \ {0} /\ 2 \in Nat \ {0}
  BY <1>1, ProductIsPositive
<1>3. Len(z) = n
  BY <1>1
<1>4. dz \in [1..n -> Rationals] /\ \A k \in 1..n : dz[k] = (dy[k] ++ dx[k]) // Whole(2)
  <2>1. dz \in [1..n -> Rationals]
    BY <1>2, MeanIsNumber
  <2>2. \A k \in 1..n : Deviations(z)[k] = (Deviations(y)[k] ++ Deviations(x)[k]) // Whole(2)
    BY <1>1, <1>2, DeviationsBlend, ZenonT(40)
  <2> QED
    BY <2>1, <2>2
<1>5. sample_variance(z) = Dot(dz, dz) // Whole(m)
  BY <1>3 DEF sample_variance, covariance
<1>6. xx \in Nat /\ yy \in Nat /\ xy \in Int
  BY MeasuresFit
<1> HIDE DEF dx, dy, dz
<1>7. \A k \in 1..n : Is(dz[k], c[k], e)
  <2> TAKE k \in 1..n
  <2>1. Is(dy[k] ++ dx[k], Y[k] + X[k], d)
    BY <1>1, PlusIs
  <2>2. c[k] = Y[k] + X[k]
    OBVIOUS
  <2> HIDE DEF c
  <2> QED
    BY <1>2, <1>4, <2>1, <2>2, ShareIs
<1>8. Is(Dot(dz, dz), Total(f, 1..n), e * e)
  <2> HIDE DEF c, e
  <2> QED
    BY <1>2, <1>4, <1>7, DotIs
<1>9. ASSUME NEW k \in 1..n
      PROVE  /\ fxx[k] \in Int /\ fxy[k] \in Int /\ fyy[k] \in Int /\ f1[k] \in Int /\ f2[k] \in Int
             /\ f1[k] = fyy[k] + fxy[k] /\ f2[k] = fxy[k] + fxx[k] /\ f[k] = f1[k] + f2[k]
  <2> DEFINE a == X[k]
             b == Y[k]
  <2>1. a \in Int /\ b \in Int
    BY <1>1
  <2>2. /\ f[k] = (b + a) * (b + a) /\ fxx[k] = a * a /\ fxy[k] = a * b /\ fyy[k] = b * b
        /\ f1[k] = fyy[k] + fxy[k] /\ f2[k] = fxy[k] + fxx[k]
    OBVIOUS
  <2> HIDE DEF f, fxx, fxy, fyy, f1, f2, a, b
  <2> QED
    BY <2>1, <2>2
<1>10. IsFiniteSet(1..n)
  BY <1>2, FS_Interval
<1> HIDE DEF f, f1, f2
<1>11. Total(f, 1..n) = yy + 2 * xy + xx
  <2>1. xx = Total(fxx, 1..n) /\ xy = Total(fxy, 1..n) /\ yy = Total(fyy, 1..n)
    BY <1>1
  <2> HIDE DEF fxx, fxy, fyy
  <2>2. Total(f1, 1..n) = yy + xy
    <3>1. \A k \in 1..n : fyy[k] \in Int /\ fxy[k] \in Int /\ f1[k] = fyy[k] + fxy[k]
      BY <1>9
    <3>2. Total(f1, 1..n) = Total(fyy, 1..n) + Total(fxy, 1..n)
      BY ONLY <1>10, <3>1, SumPlus
    <3> QED
      BY <2>1, <3>2
  <2>3. Total(f2, 1..n) = xy + xx
    <3>1. \A k \in 1..n : fxy[k] \in Int /\ fxx[k] \in Int /\ f2[k] = fxy[k] + fxx[k]
      BY <1>9
    <3>2. Total(f2, 1..n) = Total(fxy, 1..n) + Total(fxx, 1..n)
      BY ONLY <1>10, <3>1, SumPlus
    <3> QED
      BY <2>1, <3>2
  <2>4. Total(f, 1..n) = Total(f1, 1..n) + Total(f2, 1..n)
    <3>1. \A k \in 1..n : f1[k] \in Int /\ f2[k] \in Int /\ f[k] = f1[k] + f2[k]
      BY <1>9
    <3> QED
      BY ONLY <1>10, <3>1, SumPlus
  <2> QED
    BY <1>6, <2>2, <2>3, <2>4
<1>12. Is(sample_variance(z), yy + 2 * xy + xx, (e * e) * m)
  BY <1>2, <1>5, <1>8, <1>11, ShareIs
<1>13. (e * e) * m = 4 * ((d * d) * m)
  BY <1>1, <1>2
<1> QED
  BY <1>12, <1>13
-----------------------------------------------------------------------------
Riskless == rf // Whole(periods_per_year)

LEMMA RisklessIsNumber == Riskless \in Rationals
<1>1. rf \in Rationals /\ periods_per_year \in Nat \ {0}
  BY ConstantsAreNumbers, TrackRecordAssumption
<1>2. PICK i \in Int, d \in Nat \ {0} : Is(rf, i, d)
  BY <1>1, IsCommon
<1> QED
  BY <1>1, <1>2, ShareIs DEF Riskless

LEMMA ListedSeries ==
  ASSUME NEW n \in Nat, NEW f \in [1..n -> Rationals]
  PROVE  Listed(f) = f /\ Len(f) = n /\ DOMAIN f = 1..n
BY FunctionIsSequence

LEMMA ExcessIs ==
  ASSUME NEW n \in Nat, NEW x \in [1..n -> Rationals]
  PROVE  /\ Excess(x) \in [1..n -> Rationals]
         /\ \A k \in 1..n : Excess(x)[k] = x[k] -- Riskless
<1> DEFINE f == [i \in 1..n |-> x[i] -- Riskless]
<1>1. Len(x) = n
  BY ListedSeries
<1>2. Excess(x) = Listed(f)
  BY <1>1 DEF Excess, Riskless
<1>3. f \in [1..n -> Rationals]
  <2>1. ASSUME NEW i \in 1..n PROVE x[i] -- Riskless \in Rationals
    BY RisklessIsNumber, Closed
  <2> QED
    BY <2>1
<1>4. Listed(f) = f
  <2> HIDE DEF f
  <2> QED
    BY <1>3, ListedSeries
<1>5. \A k \in 1..n : f[k] = x[k] -- Riskless
  OBVIOUS
<1> HIDE DEF f
<1> QED
  BY <1>2, <1>3, <1>4, <1>5

LEMMA HalfLess ==
  ASSUME NEW a \in Rationals, NEW s \in Rationals
  PROVE  /\ (a ++ s) // Whole(2) \in Rationals
         /\ ((a ++ s) // Whole(2)) -- s = (a -- s) // Whole(2)
<1>1. PICK i \in Int, j \in Int, d \in Nat \ {0} : Is(a, i, d) /\ Is(s, j, d)
  BY IsCommon
<1>2. Is(a ++ s, i + j, d) /\ Is(a -- s, i - j, d)
  BY <1>1, PlusIs, DifferenceIs
<1>3. 2 \in Nat \ {0}
  OBVIOUS
<1>4. /\ Is((a ++ s) // Whole(2), i + j, d * 2) /\ Is((a -- s) // Whole(2), i - j, d * 2)
      /\ (a ++ s) // Whole(2) \in Rationals
  BY <1>2, <1>3, ShareIs
<1>5. Is(s, j * 2, d * 2)
  BY <1>1, <1>3, IsScaled
<1>6. Is(((a ++ s) // Whole(2)) -- s, (i + j) - j * 2, d * 2)
  BY <1>4, <1>5, DifferenceIs
<1>7. (i + j) - j * 2 = i - j
  OBVIOUS
<1> QED
  BY <1>4, <1>6, <1>7, IsOrder

\* A fit of returns less the risk-free rate is that of the returns.
LEMMA ExcessFits ==
  ASSUME NEW x, NEW y, NEW n, NEW d, NEW X, NEW Y, NEW xx, NEW xy, NEW yy,
         Measured(x, y, n, d, X, Y, xx, xy, yy),
         estimate_beta(Excess(y), Excess(x)) # Undefined
  PROVE  /\ xx # 0 /\ Fits(estimate_beta(Excess(y), Excess(x)), xx, xy, yy)
         /\ Dot(Deviations(Excess(x)), Deviations(Excess(x))) # Zero
<1> DEFINE ex == Excess(x)
           ey == Excess(y)
           fit == estimate_beta(ey, ex)
<1>1. n \in Nat /\ n \in Nat \ {0} /\ x \in [1..n -> Rationals] /\ y \in [1..n -> Rationals]
  BY DEF Measured
<1>2. ex \in [1..n -> Rationals] /\ ey \in [1..n -> Rationals]
  BY <1>1, ExcessIs
<1>3. Deviations(ex) = Deviations(x) /\ Deviations(ey) = Deviations(y)
  <2>1. \A k \in 1..n : ex[k] = x[k] -- Riskless
    BY <1>1, ExcessIs
  <2>2. \A k \in 1..n : ey[k] = y[k] -- Riskless
    BY <1>1, ExcessIs
  <2> HIDE DEF ex, ey
  <2>3. Deviations(ex) = Deviations(x)
    <3>1. n \in Nat \ {0} /\ x \in [1..n -> Rationals] /\ ex \in [1..n -> Rationals]
      BY <1>1, <1>2
    <3>2. arithmetic_mean_return(ex) = arithmetic_mean_return(x) -- Riskless /\ Deviations(ex) = Deviations(x)
      BY ONLY <3>1, <2>1, RisklessIsNumber, DeviationsShift
    <3> QED
      BY <3>2
  <2>4. Deviations(ey) = Deviations(y)
    <3>1. n \in Nat \ {0} /\ y \in [1..n -> Rationals] /\ ey \in [1..n -> Rationals]
      BY <1>1, <1>2
    <3>2. arithmetic_mean_return(ey) = arithmetic_mean_return(y) -- Riskless /\ Deviations(ey) = Deviations(y)
      BY ONLY <3>1, <2>2, RisklessIsNumber, DeviationsShift
    <3> QED
      BY <3>2
  <2> QED
    BY <2>3, <2>4
<1>4. fit = FitOf(ey, ex) /\ Dot(Deviations(ex), Deviations(ex)) # Zero
  <2>1. ols_regression(ey, ex) # Undefined /\ fit = ols_regression(ey, ex)
    BY DEF estimate_beta
  <2> HIDE DEF ex, ey, fit
  <2> QED
    BY <2>1, FitParts
<1> HIDE DEF ex, ey, fit
<1>5. Measured(ex, ey, n, d, X, Y, xx, xy, yy)
  BY <1>2, <1>3 DEF Measured
<1>6. xx # 0
  <2>1. Is(Dot(Deviations(ex), Deviations(ex)), xx, d * d)
    BY <1>5, MeasuresFit
  <2> QED
    BY <1>4, <2>1, PositiveIs
<1>7. Fits(fit, xx, xy, yy)
  BY <1>4, <1>5, <1>6, SlopeIs, FitnessIs DEF Fits
<1> QED
  BY <1>4, <1>6, <1>7 DEF ex, ey, fit

LEMMA BlendsHold ==
  ASSUME NEW x, NEW y, NEW n, NEW d, NEW X, NEW Y, NEW xx, NEW xy, NEW yy,
         Measured(x, y, n, d, X, Y, xx, xy, yy),
         Dot(Deviations(Excess(x)), Deviations(Excess(x))) # Zero,
         NEW half \in [1..n -> Rationals], \A k \in 1..n : half[k] = (x[k] ++ Riskless) // Whole(2),
         NEW blend \in [1..n -> Rationals], \A k \in 1..n : blend[k] = (y[k] ++ x[k]) // Whole(2)
  PROVE  Blends(estimate_beta(Excess(half), Excess(x)), sample_variance(blend),
                sample_variance(y), sample_variance(x), covariance(y, x))
<1> DEFINE ex == Excess(x)
           eh == Excess(half)
           halved == estimate_beta(eh, ex)
           va == sample_variance(y)
           vb == sample_variance(x)
           cov == covariance(y, x)
           blended == sample_variance(blend)
<1>1. n \in Nat \ {0, 1, 2} /\ n \in Nat /\ x \in [1..n -> Rationals] /\ y \in [1..n -> Rationals]
  BY DEF Measured
<1>2. ex \in [1..n -> Rationals] /\ eh \in [1..n -> Rationals]
  BY <1>1, ExcessIs
<1>3. \A k \in 1..n : eh[k] = ex[k] // Whole(2)
  <2> TAKE k \in 1..n
  <2>1. ex[k] = x[k] -- Riskless /\ eh[k] = half[k] -- Riskless
    BY <1>1, ExcessIs
  <2>2. x[k] \in Rationals /\ half[k] = (x[k] ++ Riskless) // Whole(2)
    BY <1>1
  <2> HIDE DEF ex, eh
  <2> QED
    BY <2>1, <2>2, RisklessIsNumber, HalfLess
<1>4. halved.slope = Q(1, 2) /\ halved.intercept = Zero /\ halved.t_intercept = Undefined
  <2>1. Dot(Deviations(ex), Deviations(ex)) # Zero
    OBVIOUS
  <2> HIDE DEF ex, eh
  <2> QED
    BY <1>1, <1>2, <1>3, <2>1, HalfOfMarket
<1>5. PICK e \in Nat \ {0} :
        /\ e = (d * d) * (n - 1)
        /\ Is(vb, xx, e) /\ Is(va, yy, e)
        /\ Is(covariance(x, y), xy, e) /\ Is(cov, xy, e)
  BY VariancesAre
<1>6. Is(blended, yy + 2 * xy + xx, 4 * e)
  <2>1. Is(blended, yy + 2 * xy + xx, 4 * ((d * d) * (n - 1)))
    BY BlendVaries
  <2> QED
    BY <1>5, <2>1
<1> HIDE DEF halved, va, vb, cov, blended
<1>7. /\ Is(portfolio_variance(<<Q(1, 2), Q(1, 2)>>, <<<<va, cov>>, <<cov, vb>>>>),
            yy + 2 * xy + xx, 4 * e)
      /\ Is(two_asset_variance(Q(1, 2), Q(1, 2), va, vb, cov), yy + 2 * xy + xx, 4 * e)
  BY <1>5, BlendByMatrix
<1>8. /\ blended = portfolio_variance(<<Q(1, 2), Q(1, 2)>>, <<<<va, cov>>, <<cov, vb>>>>)
      /\ blended = two_asset_variance(Q(1, 2), Q(1, 2), va, vb, cov)
  BY <1>6, <1>7, IsOrder
<1>9. halved.slope = portfolio_beta(<<Q(1, 2), Q(1, 2)>>, <<One, Zero>>)
  BY <1>4, HalfOfBeta
<1>10. Blends(halved, blended, va, vb, cov)
  BY <1>4, <1>8, <1>9 DEF Blends
<1> QED
  BY <1>10 DEF halved, va, vb, cov, blended

LEMMA FitHolds == SeriesFit => FitExplainsRisk
<1> SUFFICES ASSUME SeriesFit, Years >= 3, estimate_beta(Excess(stock), Excess(market)) # Undefined
             PROVE  LET half == Listed([i \in 1..Years |-> (market[i] ++ rf // Whole(periods_per_year)) // Whole(2)])
                        blend == Listed([i \in 1..Years |-> (stock[i] ++ market[i]) // Whole(2)])
                        fit == estimate_beta(Excess(stock), Excess(market))
                    IN /\ Explains(fit, risk_decomposition(fit.slope, sample_variance(market), sample_variance(stock)),
                                   correlation(stock, market))
                       /\ Blends(estimate_beta(Excess(half), Excess(market)), sample_variance(blend),
                                 sample_variance(stock), sample_variance(market), covariance(stock, market))
  BY DEF FitExplainsRisk
<1> DEFINE n == Years
           half == [i \in 1..n |-> (market[i] ++ Riskless) // Whole(2)]
           blend == [i \in 1..n |-> (stock[i] ++ market[i]) // Whole(2)]
           fit == estimate_beta(Excess(stock), Excess(market))
<1>1. n \in Nat \ {0, 1, 2} /\ n \in Nat /\ stock \in [1..n -> Rationals] /\ market \in [1..n -> Rationals]
  BY DEF SeriesFit, Years
<1> HIDE DEF n
<1>2. PICK d, X, Y, xx, xy, yy : Measured(market, stock, n, d, X, Y, xx, xy, yy)
  BY <1>1, MeasuresExist
<1>3. /\ xx # 0 /\ Fits(fit, xx, xy, yy)
      /\ Dot(Deviations(Excess(market)), Deviations(Excess(market))) # Zero
  BY <1>2, ExcessFits
<1>4. Explains(fit, risk_decomposition(fit.slope, sample_variance(market), sample_variance(stock)),
               correlation(stock, market))
  <2> HIDE DEF fit
  <2> QED
    BY <1>2, <1>3, FitExplains
<1>5. half \in [1..n -> Rationals] /\ blend \in [1..n -> Rationals]
  <2>1. ASSUME NEW i \in 1..n
        PROVE  /\ (market[i] ++ Riskless) // Whole(2) \in Rationals
               /\ (stock[i] ++ market[i]) // Whole(2) \in Rationals
    <3>1. market[i] \in Rationals /\ stock[i] \in Rationals
      BY <1>1
    <3> QED
      BY <3>1, RisklessIsNumber, HalfLess
  <2> QED
    BY <2>1
<1>6. /\ \A k \in 1..n : half[k] = (market[k] ++ Riskless) // Whole(2)
      /\ \A k \in 1..n : blend[k] = (stock[k] ++ market[k]) // Whole(2)
  OBVIOUS
<1>7. Blends(estimate_beta(Excess(half), Excess(market)), sample_variance(blend),
             sample_variance(stock), sample_variance(market), covariance(stock, market))
  <2> HIDE DEF half, blend
  <2> QED
    BY <1>2, <1>3, <1>5, <1>6, BlendsHold
<1>8. Listed(half) = half /\ Listed(blend) = blend
  <2> HIDE DEF half, blend
  <2> QED
    BY <1>1, <1>5, ListedSeries
<1> QED
  BY <1>4, <1>7, <1>8 DEF Riskless, n
-----------------------------------------------------------------------------
(* Risk and return of a year.                                              *)

Kept(i) == IF i < 0 THEN (-i) * i ELSE i * i

LEMMA RatioIs ==
  ASSUME NEW a, NEW v, NEW i, NEW d, NEW p, NEW e, Is(a, i, d), Is(v, p, e), p > 0
  PROVE  /\ Is(Ratio(a, v), Kept(i) * e, (d * d) * p) /\ Ratio(a, v) \in Rationals
         /\ Kept(i) \in Int /\ (Kept(i) > 0 <=> i > 0)
<1>1. i \in Int /\ d \in Nat \ {0} /\ p \in Nat \ {0} /\ e \in Nat \ {0}
  BY DEF Is
<1> DEFINE b == IF i < 0 THEN -i ELSE i
           part == IF a \prec Zero THEN Minus(a) ELSE a
<1>2. b \in Int /\ Kept(i) = b * i /\ (i > 0 => b = i)
  BY <1>1 DEF Kept
<1>3. Is(part, b, d)
  BY MinusIs, PositiveIs
<1>4. Is(a // v, i * e, d * p)
  BY QuotientIs
<1> HIDE DEF b, part
<1>5. Is(part ** (a // v), b * (i * e), d * (d * p)) /\ part ** (a // v) \in Rationals
  BY <1>3, <1>4, TimesIs
<1>6. Kept(i) \in Int /\ b * (i * e) = Kept(i) * e /\ d * (d * p) = (d * d) * p
  BY <1>1, <1>2
<1>7. Ratio(a, v) = part ** (a // v)
  BY DEF Ratio, part
<1>8. Kept(i) > 0 <=> i > 0
  <2>1. CASE i > 0
    <3>1. i \in Nat \ {0}
      BY <1>1, <2>1
    <3>2. i * i \in Nat \ {0}
      BY <3>1, ProductIsPositive
    <3> QED
      BY <2>1, <3>2, <1>1 DEF Kept
  <2>2. CASE i < 0
    <3> DEFINE j == -i
    <3>1. j \in Nat \ {0} /\ Kept(i) = -(j * j)
      BY <1>1, <2>2 DEF Kept
    <3> HIDE DEF j
    <3>2. j * j \in Nat \ {0}
      BY <3>1, ProductIsPositive
    <3> QED
      BY <1>1, <2>2, <3>1, <3>2
  <2>3. CASE i = 0
    BY <2>3 DEF Kept
  <2> QED
    BY <1>1, <2>1, <2>2, <2>3
<1> QED
  BY <1>5, <1>6, <1>7, <1>8

\* A ratio has the sign of what it is of.
LEMMA RatioSigned ==
  ASSUME NEW a \in Rationals, NEW b \in Rationals, NEW v \in Rationals, Zero \prec v
  PROVE  /\ Ratio(a -- b, v) \in Rationals
         /\ Zero \prec Ratio(a -- b, v) <=> b \prec a
<1>1. PICK i \in Int, j \in Int, d \in Nat \ {0} : Is(a, i, d) /\ Is(b, j, d)
  BY IsCommon
<1>2. PICK p \in Int, e \in Nat \ {0} : Is(v, p, e)
  BY IsCommon
<1>3. p > 0
  BY <1>2, PositiveIs
<1> DEFINE m == i - j
<1>4. Is(a -- b, m, d) /\ m \in Int
  <2>1. Is(a -- b, i - j, d)
    BY <1>1, DifferenceIs
  <2>2. m \in Int
    OBVIOUS
  <2> QED
    BY <2>1, <2>2
<1> HIDE DEF m
<1>5. /\ Is(Ratio(a -- b, v), Kept(m) * e, (d * d) * p) /\ Ratio(a -- b, v) \in Rationals
      /\ Kept(m) \in Int /\ (Kept(m) > 0 <=> m > 0)
  BY <1>2, <1>3, <1>4, RatioIs
<1>6. Kept(m) * e > 0 <=> Kept(m) > 0
  <2> DEFINE k == Kept(m)
  <2>1. k \in Int
    BY <1>5
  <2> HIDE DEF k
  <2>2. k * e > 0 <=> k > 0
    <3>1. CASE k > 0
      <4>1. k * e \in Nat \ {0}
        BY <2>1, <3>1, ProductIsPositive
      <4> QED
        BY <3>1, <4>1
    <3>2. CASE ~ (k > 0)
      <4>1. -k \in Nat /\ (-k) * e \in Nat
        BY <2>1, <3>2, ProductIsNat
      <4>2. k * e = -((-k) * e)
        BY <2>1
      <4> QED
        BY <3>2, <4>1, <4>2
    <3> QED
      BY <3>1, <3>2
  <2> QED
    BY <2>2 DEF k
<1>7. Zero \prec Ratio(a -- b, v) <=> Kept(m) * e > 0
  BY <1>5, PositiveIs
<1>8. b \prec a <=> m > 0
  <2>1. b \prec a <=> j < i
    BY <1>1, IsOrder
  <2> QED
    BY <1>1, <2>1 DEF m
<1> QED
  BY <1>5, <1>6, <1>7, <1>8

\* M squared and the capital allocation line rank alike.
LEMMA LinesAgree ==
  ASSUME NEW a \in Rationals, NEW b \in Rationals, NEW v \in Rationals, NEW w \in Rationals,
         Zero \prec v, Zero \prec w
  PROVE  Ratio(b, One) \prec Ratio(a, v) ** w <=> Ratio(b, w) ** v \prec Ratio(a, One)
<1>1. PICK i \in Int, j \in Int, d \in Nat \ {0} : Is(a, i, d) /\ Is(b, j, d)
  BY IsCommon
<1>2. PICK p \in Int, q \in Int, e \in Nat \ {0} : Is(v, p, e) /\ Is(w, q, e)
  BY IsCommon
<1>3. p > 0 /\ q > 0
  BY <1>2, PositiveIs
<1> DEFINE K == Kept(i)
           L == Kept(j)
           u == d * d
<1>4. u \in Nat \ {0} /\ p \in Nat \ {0} /\ q \in Nat \ {0} /\ u * p \in Nat \ {0} /\ u * q \in Nat \ {0}
  <2>1. p \in Nat \ {0} /\ q \in Nat \ {0} /\ u \in Nat \ {0}
    BY <1>3, ProductIsPositive
  <2> HIDE DEF u
  <2> QED
    BY <2>1, ProductIsPositive
<1>5. Is(One, 1, 1) /\ 1 > 0
  BY ZeroIs
<1>6. /\ Is(Ratio(a, One), K * 1, u * 1) /\ Is(Ratio(b, One), L * 1, u * 1)
      /\ Is(Ratio(a, v), K * e, u * p) /\ Is(Ratio(b, w), L * e, u * q)
      /\ K \in Int /\ L \in Int
  BY <1>1, <1>2, <1>3, <1>5, RatioIs
<1> HIDE DEF K, L, u
<1>7. K * 1 = K /\ L * 1 = L /\ u * 1 = u
  BY <1>4, <1>6
<1>8. Is(Ratio(a, v) ** w, K * q, u * p)
  <2>1. Is(Ratio(a, v) ** w, (K * e) * q, (u * p) * e)
    BY <1>2, <1>6, TimesIs
  <2>2. ((K * e) * q) * (u * p) = (K * q) * ((u * p) * e) /\ K * q \in Int
    BY <1>4, <1>6
  <2> QED
    BY <1>4, <2>1, <2>2, IsAlso
<1>9. Is(Ratio(b, w) ** v, L * p, u * q)
  <2>1. Is(Ratio(b, w) ** v, (L * e) * p, (u * q) * e)
    BY <1>2, <1>6, TimesIs
  <2>2. ((L * e) * p) * (u * q) = (L * p) * ((u * q) * e) /\ L * p \in Int
    BY <1>4, <1>6
  <2> QED
    BY <1>4, <2>1, <2>2, IsAlso
<1>10. Is(Ratio(b, One), L * p, u * p) /\ Is(Ratio(a, One), K * q, u * q)
  BY <1>4, <1>6, <1>7, IsScaled
<1> QED
  BY <1>8, <1>9, <1>10, IsOrder

\* A return above what its beta earns is above the market's by the unit of beta.
LEMMA AlphaIsTreynor ==
  ASSUME NEW a \in Rationals, NEW b \in Rationals, NEW r \in Rationals, NEW s \in Rationals, Zero \prec s
  PROVE  Zero \prec a -- (r ++ s ** (b -- r)) <=> b -- r \prec (a -- r) // s
<1>1. PICK d \in Nat \ {0}, i \in Int, j \in Int, k \in Int : Is(a, i, d) /\ Is(b, j, d) /\ Is(r, k, d)
  BY ThreeOver
<1>2. PICK m \in Int, e \in Nat \ {0} : Is(s, m, e)
  BY IsCommon
<1>3. m > 0 /\ m \in Nat \ {0}
  BY <1>2, PositiveIs
<1> DEFINE x == i - k
           y == j - k
<1>4. Is(a -- r, x, d) /\ Is(b -- r, y, d) /\ x \in Int /\ y \in Int
  <2>1. Is(a -- r, i - k, d) /\ Is(b -- r, j - k, d)
    BY <1>1, DifferenceIs
  <2>2. x \in Int /\ y \in Int
    OBVIOUS
  <2> QED
    BY <2>1, <2>2
<1>5. x = i - k
  OBVIOUS
<1> HIDE DEF x, y
<1>6. Is(s ** (b -- r), m * y, e * d) /\ Is(a, i * e, d * e) /\ Is(r, k * e, d * e)
  BY <1>1, <1>2, <1>4, TimesIs, IsScaled
<1>7. e * d = d * e
  OBVIOUS
<1>8. Is(r ++ s ** (b -- r), k * e + m * y, d * e)
  BY <1>6, <1>7, PlusIs
<1>9. Is(a -- (r ++ s ** (b -- r)), i * e - (k * e + m * y), d * e)
  BY <1>6, <1>8, DifferenceIs
<1>10. i * e - (k * e + m * y) = x * e - m * y
  BY <1>4, <1>5
<1>11. Zero \prec a -- (r ++ s ** (b -- r)) <=> x * e - m * y > 0
  BY <1>9, <1>10, PositiveIs
<1>12. Is((a -- r) // s, x * e, d * m) /\ Is(b -- r, y * m, d * m)
  BY <1>2, <1>3, <1>4, QuotientIs, IsScaled
<1>13. b -- r \prec (a -- r) // s <=> y * m < x * e
  BY <1>12, IsOrder
<1>14. x * e - m * y > 0 <=> y * m < x * e
  <2> DEFINE f == x * e
             g == m * y
  <2>1. f \in Int /\ g \in Int /\ y * m = g
    BY <1>4
  <2> HIDE DEF f, g
  <2>2. f - g > 0 <=> g < f
    BY <2>1
  <2> QED
    BY <2>1, <2>2 DEF f, g
<1> QED
  BY <1>11, <1>13, <1>14
-----------------------------------------------------------------------------
(* What a year's measures are.                                             *)

LEMMA DotIsNumber ==
  ASSUME NEW n \in Nat, NEW x \in [1..n -> Rationals], NEW y \in [1..n -> Rationals]
  PROVE  Dot(x, y) \in Rationals
<1>1. PICK d \in Nat \ {0}, c \in [1..n -> Int], e \in [1..n -> Int] :
        \A k \in 1..n : Is(x[k], c[k], d) /\ Is(y[k], e[k], d)
  BY TwoSeriesOver
<1> QED
  BY <1>1, DotIs

LEMMA VolatilityIsNumber ==
  ASSUME NEW n \in Nat \ {0, 1}, NEW x \in [1..n -> Rationals]
  PROVE  /\ annualized_volatility(x) = sample_variance(x) ** Whole(periods_per_year)
         /\ sample_variance(x) \in Rationals /\ annualized_volatility(x) \in Rationals
<1> DEFINE m == n - 1
           v == Dot(Deviations(x), Deviations(x))
<1>1. m \in Nat \ {0} /\ n \in Nat /\ n \in Nat \ {0} /\ Len(x) = n /\ ~ (n < 2)
  OBVIOUS
<1>2. v \in Rationals
  <2>1. Deviations(x) \in [1..n -> Rationals]
    BY <1>1, MeanIsNumber
  <2> QED
    BY <1>1, <2>1, DotIsNumber
<1>3. sample_variance(x) = v // Whole(m)
  BY <1>1 DEF sample_variance, covariance
<1> HIDE DEF v, m
<1>4. sample_variance(x) \in Rationals
  <2>1. PICK i \in Int, d \in Nat \ {0} : Is(v, i, d)
    BY <1>2, IsCommon
  <2> QED
    BY <1>1, <1>3, <2>1, ShareIs
<1>5. annualized_volatility(x) = sample_variance(x) ** Whole(periods_per_year)
  BY <1>1 DEF annualized_volatility
<1>6. Whole(periods_per_year) \in Rationals
  <2>1. periods_per_year \in Int
    BY TrackRecordAssumption
  <2> QED
    BY <2>1, IsWhole
<1> QED
  BY <1>4, <1>5, <1>6, Closed

\* What follows the index does not stray from it.
LEMMA NoneStrays ==
  ASSUME NEW n \in Nat \ {0, 1}, NEW z \in [1..n -> Rationals], \A k \in 1..n : z[k] = Zero
  PROVE  annualized_volatility(z) = Zero
<1> DEFINE c == [k \in 1..n |-> 0]
           v == Deviations(z)
           m == n - 1
<1>1. n \in Nat /\ n \in Nat \ {0} /\ 1 \in Nat \ {0} /\ IsFiniteSet(1..n) /\ 0 \in Int
  BY FS_Interval
<1>2. \A k \in 1..n : c[k] = 0 /\ c[k] \in Int /\ c[k] = 0 * c[k] /\ c[k] * n = 0
  OBVIOUS
<1>3. \A k \in 1..n : Is(z[k], c[k], 1)
  BY <1>1, <1>2, ZeroIs
<1> HIDE DEF c
<1>4. Total(c, 1..n) = 0
  <2> DEFINE o == 0
  <2>1. IsFiniteSet(1..n) /\ o \in Int
    BY <1>1
  <2>2. \A k \in 1..n : c[k] \in Int /\ c[k] = o * c[k]
    BY <1>2
  <2>3. o = 0 /\ \A k \in 1..n : c[k] \in Int
    BY <1>2
  <2> HIDE DEF o
  <2>4. Total(c, 1..n) = o * Total(c, 1..n)
    BY ONLY <2>1, <2>2, SumTimes
  <2>5. Total(c, 1..n) \in Int
    BY ONLY <2>1, <2>3, SumIsInt
  <2> QED
    BY <2>3, <2>4, <2>5
<1>5. \A k \in 1..n : v[k] = Zero
  <2> TAKE k \in 1..n
  <2>1. Is(v[k], c[k] * n - Total(c, 1..n), 1 * n)
    BY <1>1, <1>3, DeviationsIs
  <2>2. c[k] * n - Total(c, 1..n) = 0
    BY <1>2, <1>4
  <2> HIDE DEF v
  <2> QED
    BY <2>1, <2>2, PositiveIs
<1>6. v \in [1..n -> Rationals] /\ Len(z) = n
  BY <1>1, MeanIsNumber
<1> HIDE DEF v
<1>7. Dot(v, v) = Zero
  <2> DEFINE f == [k \in 1..n |-> c[k] * c[k]]
             one == 1
  <2>1. \A k \in 1..n : Is(v[k], c[k], one)
    BY <1>1, <1>2, <1>5, ZeroIs
  <2>2. one \in Nat \ {0} /\ one = 1 /\ n \in Nat
    BY <1>1
  <2> HIDE DEF one
  <2>3. \A k \in 1..n : Is(v[k], c[k], one) /\ Is(v[k], c[k], one)
    BY <2>1
  <2>4. Is(Dot(v, v), Total(f, 1..n), one * one)
    BY ONLY <2>2, <2>3, <1>6, DotIs, ZenonT(40)
  <2>5. Total(f, 1..n) = 0
    <3>1. f = c
      <4>1. \A k \in 1..n : f[k] = c[k]
        BY <1>2
      <4>2. c = [k \in 1..n |-> 0]
        BY DEF c
      <4> QED
        BY <4>1, <4>2
    <3> QED
      BY <3>1, <1>4
  <2> QED
    BY <2>4, <2>5, PositiveIs
<1>8. sample_variance(z) = Zero
  <2>1. m \in Nat \ {0} /\ sample_variance(z) = Zero // Whole(m)
    BY <1>6, <1>7 DEF sample_variance, covariance, v
  <2>2. Is(Zero, 0, 1)
    BY <1>1, ZeroIs
  <2> HIDE DEF m
  <2>3. Is(sample_variance(z), 0, 1 * m)
    BY <2>1, <2>2, ShareIs
  <2> QED
    BY <2>3, PositiveIs
<1>9. Zero ** Whole(periods_per_year) = Zero
  <2>1. periods_per_year \in Int
    BY TrackRecordAssumption
  <2>2. Whole(periods_per_year) \in Rationals /\ Zero \in Rationals
    BY <2>1, IsWhole, ConstantsAreNumbers
  <2> QED
    BY <2>2, TimesLaws
<1> QED
  BY <1>8, <1>9, VolatilityIsNumber

\* The growth of a year is a number, however its power is rounded.
YearlyFits == \A a \in Rationals, n \in Nat \ {0} : Zero \prec a => Yearly(a, n) \in Rationals

LEMMA AnnualIsNumber ==
  ASSUME YearlyFits, NEW x \in Seq(Rationals), \A i \in DOMAIN x : Minus(One) \prec x[i], Len(x) > 0
  PROVE  annualize(time_weighted_return(x), Len(x)) \in Rationals
<1> DEFINE g == One ++ time_weighted_return(x)
           n == Len(x)
<1>1. n \in Nat \ {0}
  OBVIOUS
<1>2. Growth(x) \in Rationals
  <2>1. Len(x) + 1 \in 1..(Len(x) + 1)
    BY <1>1
  <2> QED
    BY <2>1, CurveParts
<1>3. g \in Rationals /\ One \in Rationals /\ Zero \in Rationals
  BY <1>2, ConstantsAreNumbers, Closed DEF time_weighted_return
<1>4. annualize(time_weighted_return(x), n)
        = IF g \preceq Zero THEN Minus(One) ELSE Yearly(g, n) -- One
  BY <1>1 DEF annualize
<1> HIDE DEF g, n
<1>5. ~ (g \preceq Zero) => Yearly(g, n) \in Rationals
  BY <1>1, <1>3, Transitive DEF YearlyFits
<1>6. annualize(time_weighted_return(x), n) \in Rationals
  <2>1. Minus(One) \in Rationals
    BY ConstantsAreNumbers, Closed
  <2>2. CASE g \preceq Zero
    BY <1>4, <2>1, <2>2
  <2>3. CASE ~ (g \preceq Zero)
    <3>1. Yearly(g, n) -- One \in Rationals
      BY <1>3, <1>5, <2>3, Closed
    <3> QED
      BY <1>4, <2>3, <3>1
  <2> QED
    BY <2>2, <2>3
<1> QED
  BY <1>6 DEF n

\* The fit of a series to itself.
LEMMA IndexFits ==
  ASSUME NEW n \in Nat, NEW x \in [1..n -> Rationals], estimate_beta(x, x) # Undefined
  PROVE  estimate_beta(x, x).slope = One
<1> DEFINE sxx == Dot(Deviations(x), Deviations(x))
<1>1. ~ (Len(x) < 3) /\ sxx # Zero /\ estimate_beta(x, x).slope = sxx // sxx
  <2>1. ols_regression(x, x) # Undefined /\ estimate_beta(x, x) = ols_regression(x, x)
    BY DEF estimate_beta
  <2>2. ~ (Len(x) < 3) /\ Dot(Deviations(x), Deviations(x)) # Zero
        /\ ols_regression(x, x) = FitOf(x, x)
    BY ONLY <2>1, FitParts
  <2>3. FitOf(x, x).slope = Dot(Deviations(x), Deviations(x)) // Dot(Deviations(x), Deviations(x))
    BY ONLY FitFields
  <2> QED
    BY <2>1, <2>2, <2>3
<1>2. n \in Nat \ {0, 1, 2} /\ Len(x) = n
  BY <1>1
<1>3. PICK d, X, Y, xx, xy, yy : Measured(x, x, n, d, X, Y, xx, xy, yy)
  BY <1>2, MeasuresExist
<1>4. Is(sxx, xx, d * d) /\ xx \in Nat
  BY <1>3, MeasuresFit
<1> HIDE DEF sxx
<1>5. xx # 0
  BY <1>1, <1>4, PositiveIs
<1>6. xx \in Nat \ {0} /\ xx > 0
  BY <1>4, <1>5
<1>7. Is(sxx // sxx, xx, xx) /\ Is(One, xx, xx)
  BY <1>4, <1>6, QuotientOver, ZeroIs
<1> QED
  BY <1>1, <1>7, IsOrder

LEMMA SlopeIsNumber ==
  ASSUME NEW n \in Nat, NEW x \in [1..n -> Rationals], NEW y \in [1..n -> Rationals],
         estimate_beta(y, x) # Undefined
  PROVE  estimate_beta(y, x).slope \in Rationals
<1> DEFINE sxx == Dot(Deviations(x), Deviations(x))
           sxy == Dot(Deviations(x), Deviations(y))
<1>1. ~ (Len(x) < 3) /\ sxx # Zero /\ estimate_beta(y, x).slope = sxy // sxx
  <2>1. ols_regression(y, x) # Undefined /\ estimate_beta(y, x) = ols_regression(y, x)
    BY DEF estimate_beta
  <2>2. ~ (Len(x) < 3) /\ Dot(Deviations(x), Deviations(x)) # Zero
        /\ ols_regression(y, x) = FitOf(y, x)
    BY ONLY <2>1, FitParts
  <2>3. FitOf(y, x).slope = Dot(Deviations(x), Deviations(y)) // Dot(Deviations(x), Deviations(x))
    BY ONLY FitFields
  <2> QED
    BY <2>1, <2>2, <2>3
<1>2. n \in Nat \ {0}
  BY <1>1
<1>3. Deviations(x) \in [1..n -> Rationals] /\ Deviations(y) \in [1..n -> Rationals]
  BY <1>2, MeanIsNumber
<1>4. sxx \in Rationals /\ sxy \in Rationals
  BY <1>3, DotIsNumber
<1> QED
  BY <1>1, <1>4, Closed
-----------------------------------------------------------------------------
(* The report on the book against that on the index.                       *)

LEMMA MeasureFields ==
  ASSUME NEW A, NEW B, NEW V, NEW W, NEW T, NEW R, NEW D
  PROVE  LET m == Measures(A, B, V, W, T, R, D, rf)
             beta == IF R = Undefined THEN Zero ELSE R.slope
         IN /\ m.annualized_twr = A /\ m.volatility = V /\ m.tracking_error = T
            /\ m.regression = R /\ m.beta = beta
            /\ m.sharpe = IF V \preceq Zero THEN Undefined ELSE Ratio(A -- rf, V)
            /\ m.treynor = IF beta = Zero THEN Undefined ELSE (A -- rf) // beta
            /\ m.jensens_alpha = A -- (rf ++ beta ** (B -- rf))
            /\ m.information_ratio = IF T \preceq Zero THEN Undefined ELSE Ratio(A -- B, T)
            /\ m.m_squared = IF V \preceq Zero THEN Undefined ELSE Ratio(A -- rf, V) ** W
BY DEF Measures, sharpe_ratio, treynor_ratio, jensens_alpha, capm_expected_return, information_ratio, m_squared

LEMMA NotBelow ==
  ASSUME NEW v \in Rationals
  PROVE  ~ (v \preceq Zero) <=> Zero \prec v
<1>1. PICK i \in Int, d \in Nat \ {0} : Is(v, i, d)
  BY IsCommon
<1>2. Is(Zero, 0, d)
  BY <1>1, ZeroIs
<1>3. (Zero \prec v <=> 0 < i) /\ (v \preceq Zero <=> i <= 0)
  BY <1>1, <1>2, IsOrder
<1> QED
  BY <1>1, <1>3

\* Nothing is left of a return once it is taken for what it was expected to be.
LEMMA NothingLeft ==
  ASSUME NEW b \in Rationals
  PROVE  /\ b -- (rf ++ One ** (b -- rf)) = Zero
         /\ b -- (rf ++ Zero ** (b -- rf)) = b -- rf
<1>1. rf \in Rationals /\ Zero \in Rationals /\ One \in Rationals
  BY ConstantsAreNumbers
<1>2. b -- rf \in Rationals /\ rf ++ b \in Rationals
  BY <1>1, Closed
<1>3. One ** (b -- rf) = b -- rf /\ Zero ** (b -- rf) = Zero
  <2>1. One ** (b -- rf) = b -- rf
    BY <1>1, <1>2, TimesLaws
  <2>2. (b -- rf) ** Zero = Zero
    BY <1>1, <1>2, TimesLaws
  <2>3. Zero ** (b -- rf) = (b -- rf) ** Zero
    BY <1>1, <1>2, TimesLaws
  <2> QED
    BY <2>1, <2>2, <2>3
<1>4. rf ++ (b -- rf) = b /\ rf ++ Zero = rf
  <2>1. rf ++ (b -- rf) = (rf ++ b) -- rf
    BY <1>1, PlusLaws
  <2>2. rf ++ b = b ++ rf
    BY <1>1, PlusLaws
  <2>3. (b ++ rf) -- rf = b ++ (rf -- rf)
    BY <1>1, PlusLaws
  <2>4. rf -- rf = Zero
    BY <1>1, PlusLaws
  <2>5. b ++ Zero = b /\ rf ++ Zero = rf
    BY <1>1, PlusLaws
  <2> QED
    BY <2>1, <2>2, <2>3, <2>4, <2>5
<1>5. b -- b = Zero
  BY PlusLaws
<1> QED
  BY <1>3, <1>4, <1>5

LEMMA IndexIsNeutral ==
  ASSUME NEW B \in Rationals, NEW W, NEW R, NEW D, R # Undefined => R.slope = One
  PROVE  LET index == Measures(B, B, W, W, Zero, R, D, rf)
         IN /\ index.tracking_error = Zero /\ index.information_ratio = Undefined
            /\ index.regression # Undefined => index.beta = One /\ index.jensens_alpha = Zero
            /\ index.regression = Undefined => index.jensens_alpha = index.annualized_twr -- rf
<1>1. Zero \preceq Zero
  <2>1. 1 \in Nat \ {0}
    OBVIOUS
  <2>2. Is(Zero, 0, 1)
    BY <2>1, ZeroIs
  <2> QED
    BY <2>2, IsOrder
<1>2. /\ B -- (rf ++ One ** (B -- rf)) = Zero
      /\ B -- (rf ++ Zero ** (B -- rf)) = B -- rf
  BY NothingLeft
<1> QED
  BY <1>1, <1>2, MeasureFields

LEMMA MeasuresCompare ==
  ASSUME NEW A \in Rationals, NEW B \in Rationals, NEW V \in Rationals, NEW W \in Rationals,
         NEW T \in Rationals, NEW R, NEW D, NEW RI, NEW DI,
         R # Undefined => R.slope \in Rationals, RI # Undefined => RI.slope = One
  PROVE  Compares(Measures(A, B, V, W, T, R, D, rf), Measures(B, B, W, W, Zero, RI, DI, rf), W)
<1> DEFINE m == Measures(A, B, V, W, T, R, D, rf)
           index == Measures(B, B, W, W, Zero, RI, DI, rf)
           beta == IF R = Undefined THEN Zero ELSE R.slope
<1>1. rf \in Rationals /\ Zero \in Rationals /\ beta \in Rationals
  BY ConstantsAreNumbers
<1>2. A -- rf \in Rationals /\ B -- rf \in Rationals
  BY <1>1, Closed
<1>3. /\ index.tracking_error = Zero /\ index.information_ratio = Undefined
      /\ index.regression # Undefined => index.beta = One /\ index.jensens_alpha = Zero
      /\ index.regression = Undefined => index.jensens_alpha = index.annualized_twr -- rf
  BY IndexIsNeutral
<1>4. index.annualized_twr = B
  BY MeasureFields
<1>5. /\ m.annualized_twr = A /\ m.volatility = V /\ m.beta = beta
      /\ m.sharpe = IF V \preceq Zero THEN Undefined ELSE Ratio(A -- rf, V)
      /\ m.treynor = IF beta = Zero THEN Undefined ELSE (A -- rf) // beta
      /\ m.jensens_alpha = A -- (rf ++ beta ** (B -- rf))
      /\ m.information_ratio = IF T \preceq Zero THEN Undefined ELSE Ratio(A -- B, T)
      /\ m.m_squared = IF V \preceq Zero THEN Undefined ELSE Ratio(A -- rf, V) ** W
  BY MeasureFields
<1> HIDE DEF m, index, beta
<1>6. m.sharpe = safety_first_ratio(m.annualized_twr, rf, m.volatility)
  BY <1>5 DEF safety_first_ratio
<1>7. Zero \prec m.beta =>
        (Zero \prec m.jensens_alpha <=> index.annualized_twr -- rf \prec m.treynor)
  <2> SUFFICES ASSUME Zero \prec beta
               PROVE  Zero \prec A -- (rf ++ beta ** (B -- rf)) <=> B -- rf \prec m.treynor
    BY <1>4, <1>5
  <2>1. beta # Zero
    <3>1. ~ (beta \preceq Zero)
      BY <1>1, NotBelow
    <3>2. Zero \preceq Zero
      BY <1>1, NotBelow, PositiveIs, ZeroIs, Transitive
    <3> QED
      BY <3>1, <3>2
  <2>2. m.treynor = (A -- rf) // beta
    BY <2>1, <1>5
  <2>3. Zero \prec A -- (rf ++ beta ** (B -- rf)) <=> B -- rf \prec (A -- rf) // beta
    BY <1>1, AlphaIsTreynor
  <2> QED
    BY <2>2, <2>3
<1>8. m.information_ratio # Undefined =>
        (Zero \prec m.information_ratio <=> index.annualized_twr \prec m.annualized_twr)
  <2> SUFFICES ASSUME m.information_ratio # Undefined
               PROVE  Zero \prec m.information_ratio <=> B \prec A
    BY <1>4, <1>5
  <2>1. ~ (T \preceq Zero) /\ m.information_ratio = Ratio(A -- B, T)
    BY <1>5
  <2>2. Zero \prec T
    BY <2>1, NotBelow
  <2>3. Zero \prec Ratio(A -- B, T) <=> B \prec A
    BY <2>2, RatioSigned
  <2> QED
    BY <2>1, <2>3
<1>9. m.m_squared # Undefined /\ Zero \prec W =>
        (Ratio(index.annualized_twr -- rf, One) \prec m.m_squared
          <=> capital_allocation_line(rf, index.annualized_twr, W, m.volatility)
                \prec Ratio(m.annualized_twr -- rf, One))
  <2> SUFFICES ASSUME m.m_squared # Undefined, Zero \prec W
               PROVE  Ratio(B -- rf, One) \prec m.m_squared
                        <=> capital_allocation_line(rf, B, W, V) \prec Ratio(A -- rf, One)
    BY <1>4, <1>5
  <2>1. ~ (V \preceq Zero) /\ m.m_squared = Ratio(A -- rf, V) ** W
    BY <1>5
  <2>2. Zero \prec V /\ ~ (W \preceq Zero)
    BY <2>1, NotBelow
  <2>3. capital_allocation_line(rf, B, W, V) = Ratio(B -- rf, W) ** V
    BY <2>2 DEF capital_allocation_line
  <2>4. Ratio(B -- rf, One) \prec Ratio(A -- rf, V) ** W
          <=> Ratio(B -- rf, W) ** V \prec Ratio(A -- rf, One)
    BY <1>2, <2>2, LinesAgree
  <2> QED
    BY <2>1, <2>3, <2>4
<1>10. Compares(m, index, W)
  BY <1>3, <1>6, <1>7, <1>8, <1>9 DEF Compares
<1> QED
  BY <1>10 DEF m, index

\* The metrics of a curve are the measures of the returns it was made of.
LEMMA MetricsAre ==
  ASSUME NEW x \in Seq(Rationals), NEW y \in Seq(Rationals),
         \A i \in DOMAIN x : Minus(One) \prec x[i], \A i \in DOMAIN y : Minus(One) \prec y[i]
  PROVE  compute_metrics(CurveOf(x), CurveOf(y), rf)
           = Measures(annualize(time_weighted_return(x), Len(x)),
                      annualize(time_weighted_return(y), Len(y)),
                      annualized_volatility(x), annualized_volatility(y),
                      annualized_volatility(Listed([i \in 1..Len(x) |-> x[i] -- y[i]])),
                      IF Len(x) >= 3 THEN estimate_beta(Excess(x), Excess(y)) ELSE Undefined,
                      max_drawdown(CurveOf(x)), rf)
<1>1. periodic_returns(CurveOf(x)) = x
  BY ReturnsOfCurve
<1>2. periodic_returns(CurveOf(y)) = y
  BY ReturnsOfCurve
<1> QED
  BY <1>1, <1>2 DEF compute_metrics, Excess

LEMMA TrackingIsNumber ==
  ASSUME NEW n \in Nat \ {0, 1}, NEW x \in [1..n -> Rationals], NEW y \in [1..n -> Rationals]
  PROVE  annualized_volatility(Listed([i \in 1..Len(x) |-> x[i] -- y[i]])) \in Rationals
<1> DEFINE f == [i \in 1..n |-> x[i] -- y[i]]
<1>1. f \in [1..n -> Rationals] /\ n \in Nat /\ Len(x) = n
  <2>1. \A i \in 1..n : x[i] \in Rationals /\ y[i] \in Rationals
    OBVIOUS
  <2>2. \A i \in 1..n : x[i] -- y[i] \in Rationals
    BY <2>1, Closed
  <2> QED
    BY <2>2
<1>2. Listed(f) = f /\ [i \in 1..Len(x) |-> x[i] -- y[i]] = f
  BY <1>1, ListedSeries
<1> HIDE DEF f
<1>3. annualized_volatility(f) \in Rationals
  BY <1>1, VolatilityIsNumber
<1> QED
  BY <1>2, <1>3

LEMMA IndexDoesNotStray ==
  ASSUME NEW n \in Nat \ {0, 1}, NEW x \in [1..n -> Rationals]
  PROVE  annualized_volatility(Listed([i \in 1..Len(x) |-> x[i] -- x[i]])) = Zero
<1> DEFINE f == [i \in 1..n |-> x[i] -- x[i]]
<1>1. n \in Nat /\ Len(x) = n /\ \A i \in 1..n : x[i] \in Rationals
  OBVIOUS
<1>2. \A i \in 1..n : x[i] -- x[i] = Zero
  BY <1>1, PlusLaws
<1>3. f \in [1..n -> Rationals] /\ \A i \in 1..n : f[i] = Zero
  BY <1>2, ConstantsAreNumbers
<1>4. Listed(f) = f /\ [i \in 1..Len(x) |-> x[i] -- x[i]] = f
  BY <1>1, <1>3, ListedSeries
<1> HIDE DEF f
<1>5. annualized_volatility(f) = Zero
  BY <1>3, NoneStrays
<1> QED
  BY <1>4, <1>5

LEMMA ReportHolds == SeriesFit /\ YearlyFits => ReportComparesWithMarket
<1> SUFFICES ASSUME SeriesFit, YearlyFits, Years >= 2
             PROVE  Compares(compute_metrics(CurveOf(stock), CurveOf(market), rf),
                             compute_metrics(CurveOf(market), CurveOf(market), rf),
                             annualized_volatility(market))
  BY DEF ReportComparesWithMarket
<1> DEFINE n == Years
           A == annualize(time_weighted_return(stock), Len(stock))
           B == annualize(time_weighted_return(market), Len(market))
           V == annualized_volatility(stock)
           W == annualized_volatility(market)
           T == annualized_volatility(Listed([i \in 1..Len(stock) |-> stock[i] -- market[i]]))
           R == IF Len(stock) >= 3 THEN estimate_beta(Excess(stock), Excess(market)) ELSE Undefined
           RI == IF Len(market) >= 3 THEN estimate_beta(Excess(market), Excess(market)) ELSE Undefined
           D == max_drawdown(CurveOf(stock))
           DI == max_drawdown(CurveOf(market))
<1>1. /\ stock \in Seq(Rationals) /\ \A i \in DOMAIN stock : Minus(One) \prec stock[i]
      /\ market \in Seq(Rationals) /\ \A i \in DOMAIN market : Minus(One) \prec market[i]
      /\ Len(market) = Len(stock) /\ n = Len(stock)
  BY DEF SeriesFit, Years
<1>2. /\ n \in Nat \ {0, 1} /\ n \in Nat /\ stock \in [1..n -> Rationals] /\ market \in [1..n -> Rationals]
      /\ Len(stock) > 0 /\ Len(market) > 0
  BY <1>1
<1>3. compute_metrics(CurveOf(stock), CurveOf(market), rf) = Measures(A, B, V, W, T, R, D, rf)
  BY <1>1, MetricsAre
<1>4. compute_metrics(CurveOf(market), CurveOf(market), rf) = Measures(B, B, W, W, Zero, RI, DI, rf)
  <2>1. annualized_volatility(Listed([i \in 1..Len(market) |-> market[i] -- market[i]])) = Zero
    BY <1>2, IndexDoesNotStray
  <2>2. compute_metrics(CurveOf(market), CurveOf(market), rf)
          = Measures(B, B, W, W, annualized_volatility(Listed([i \in 1..Len(market) |-> market[i] -- market[i]])),
                     RI, DI, rf)
    BY <1>1, MetricsAre
  <2> QED
    BY <2>1, <2>2
<1>5. A \in Rationals /\ B \in Rationals
  <2>1. A \in Rationals
    BY <1>1, <1>2, AnnualIsNumber
  <2>2. B \in Rationals
    BY <1>1, <1>2, AnnualIsNumber
  <2> QED
    BY <2>1, <2>2
<1>6. V \in Rationals /\ W \in Rationals /\ T \in Rationals
  <2>1. V \in Rationals /\ W \in Rationals
    BY <1>2, VolatilityIsNumber
  <2>2. T \in Rationals
    BY <1>2, TrackingIsNumber
  <2> QED
    BY <2>1, <2>2
<1>7. Excess(stock) \in [1..n -> Rationals] /\ Excess(market) \in [1..n -> Rationals]
  BY <1>2, ExcessIs
<1>8. R # Undefined => R.slope \in Rationals
  BY <1>2, <1>7, SlopeIsNumber
<1>9. RI # Undefined => RI.slope = One
  BY <1>2, <1>7, IndexFits
<1> HIDE DEF A, B, V, W, T, R, RI, D, DI
<1>10. Compares(Measures(A, B, V, W, T, R, D, rf), Measures(B, B, W, W, Zero, RI, DI, rf), W)
  BY <1>5, <1>6, <1>8, <1>9, MeasuresCompare
<1> QED
  BY <1>3, <1>4, <1>10 DEF W
-----------------------------------------------------------------------------
(* Options.                                                                *)

\* A put at the price parity implies for a call of price p and a strike that is
\* worth b in bills.
LEMMA ParityHolds ==
  ASSUME NEW p \in Rationals, NEW b \in Rationals
  PROVE  /\ p ++ (b -- One) \in Rationals
         /\ (p ++ b) -- ((p ++ (b -- One)) ++ One) = Zero
         /\ (p ++ (b -- One)) ++ (One -- b) = p
         /\ p -- (p ++ (b -- One)) = One -- b
<1>1. PICK d \in Nat \ {0}, i \in Int, j \in Int : Is(p, i, d) /\ Is(b, j, d)
  BY IsCommon
<1>2. Is(One, d, d) /\ Is(Zero, 0, d)
  BY <1>1, ZeroIs
<1>3. Is(p ++ b, i + j, d)
  BY <1>1, PlusIs
<1>4. Is(b -- One, j - d, d) /\ Is(One -- b, d - j, d)
  BY <1>1, <1>2, DifferenceIs
<1>5. Is(p ++ (b -- One), i + (j - d), d) /\ p ++ (b -- One) \in Rationals
  BY <1>1, <1>4, PlusIs
<1>6. Is((p ++ (b -- One)) ++ One, (i + (j - d)) + d, d)
  BY <1>2, <1>5, PlusIs
<1>7. Is((p ++ b) -- ((p ++ (b -- One)) ++ One), (i + j) - ((i + (j - d)) + d), d)
  BY <1>3, <1>6, DifferenceIs
<1>8. Is((p ++ (b -- One)) ++ (One -- b), (i + (j - d)) + (d - j), d)
  BY <1>4, <1>5, PlusIs
<1>9. Is(p -- (p ++ (b -- One)), i - (i + (j - d)), d)
  BY <1>1, <1>5, DifferenceIs
<1>10. (i + j) - ((i + (j - d)) + d) = 0 /\ (i + (j - d)) + (d - j) = i /\ i - (i + (j - d)) = d - j
  BY <1>1
<1>11. (p ++ b) -- ((p ++ (b -- One)) ++ One) = Zero
  BY <1>2, <1>7, <1>10, IsOrder
<1>12. (p ++ (b -- One)) ++ (One -- b) = p
  BY <1>1, <1>8, <1>10, IsOrder
<1>13. p -- (p ++ (b -- One)) = One -- b
  BY <1>4, <1>9, <1>10, IsOrder
<1> QED
  BY <1>5, <1>11, <1>12, <1>13

\* What is paid at expiry, of a stock at s and a strike of k.
LEMMA PayoffsAre ==
  ASSUME NEW s, NEW k, NEW i, NEW j, NEW d, Is(s, i, d), Is(k, j, d)
  PROVE  /\ Is(Larger(s -- k, Zero), IF i - j < 0 THEN 0 ELSE i - j, d)
         /\ Is(Larger(k -- s, Zero), IF j - i < 0 THEN 0 ELSE j - i, d)
         /\ Is(Larger(s, k), IF i < j THEN j ELSE i, d)
         /\ Is(Smaller(s, k), IF i < j THEN i ELSE j, d)
         /\ i \in Int /\ j \in Int /\ d \in Nat \ {0}
<1>1. i \in Int /\ j \in Int /\ d \in Nat \ {0}
  BY DEF Is
<1>2. Is(Zero, 0, d)
  BY <1>1, ZeroIs
<1>3. Is(s -- k, i - j, d) /\ Is(k -- s, j - i, d)
  BY DifferenceIs
<1>4. Is(Larger(s -- k, Zero), IF i - j < 0 THEN 0 ELSE i - j, d)
  BY <1>2, <1>3, LargerIs
<1>5. Is(Larger(k -- s, Zero), IF j - i < 0 THEN 0 ELSE j - i, d)
  BY <1>2, <1>3, LargerIs
<1>6. Is(Larger(s, k), IF i < j THEN j ELSE i, d) /\ Is(Smaller(s, k), IF i < j THEN i ELSE j, d)
  BY LargerIs
<1> QED
  BY <1>1, <1>4, <1>5, <1>6

LEMMA PayoffsAgree ==
  ASSUME NEW s \in Rationals, NEW k \in Rationals, NEW p \in Rationals
  PROVE  /\ Larger(s -- k, Zero) ++ k = Larger(s, k)
         /\ Smaller(s, k) ++ (p -- One) = (s -- One) ++ (Minus(Larger(s -- k, Zero)) ++ p)
<1>1. PICK d \in Nat \ {0}, i \in Int, j \in Int, l \in Int : Is(s, i, d) /\ Is(k, j, d) /\ Is(p, l, d)
  BY ThreeOver
<1> DEFINE c == IF i - j < 0 THEN 0 ELSE i - j
           h == IF i < j THEN j ELSE i
           m == IF i < j THEN i ELSE j
<1>2. Is(Larger(s -- k, Zero), c, d) /\ Is(Larger(s, k), h, d) /\ Is(Smaller(s, k), m, d)
  BY <1>1, PayoffsAre
<1>3. Is(One, d, d)
  BY <1>1, ZeroIs
<1>4. /\ c \in Int /\ h \in Int /\ m \in Int /\ c + j = h
      /\ m + (l - d) = (i - d) + ((-c) + l)
  BY <1>1
<1> HIDE DEF c, h, m
<1>5. Larger(s -- k, Zero) ++ k = Larger(s, k)
  <2>1. Is(Larger(s -- k, Zero) ++ k, c + j, d)
    BY <1>1, <1>2, PlusIs
  <2> QED
    BY <2>1, <1>2, <1>4, IsOrder
<1>6. Smaller(s, k) ++ (p -- One) = (s -- One) ++ (Minus(Larger(s -- k, Zero)) ++ p)
  <2>1. Is(p -- One, l - d, d) /\ Is(s -- One, i - d, d)
    BY <1>1, <1>3, DifferenceIs
  <2>2. Is(Minus(Larger(s -- k, Zero)), -c, d)
    BY <1>2, MinusIs
  <2>3. Is(Minus(Larger(s -- k, Zero)) ++ p, (-c) + l, d)
    BY <1>1, <2>2, PlusIs
  <2>4. Is((s -- One) ++ (Minus(Larger(s -- k, Zero)) ++ p), (i - d) + ((-c) + l), d)
    BY <2>1, <2>3, PlusIs
  <2>5. Is(Smaller(s, k) ++ (p -- One), m + (l - d), d)
    BY <1>2, <2>1, PlusIs
  <2> QED
    BY <2>4, <2>5, <1>4, IsOrder
<1> QED
  BY <1>5, <1>6

\* A protected stock against a covered one is a call and a put.
LEMMA ProtectedAgainstCovered ==
  ASSUME NEW s \in Rationals, NEW k \in Rationals, NEW p \in Rationals, NEW q \in Rationals
  PROVE  (Larger(s, k) -- (One ++ q)) -- (Smaller(s, k) ++ (p -- One))
           = (Larger(s -- k, Zero) -- p) ++ (Larger(k -- s, Zero) -- q)
<1>1. PICK d \in Nat \ {0} : Over(s, d) /\ Over(k, d) /\ Over(p, d) /\ Over(q, d)
  BY OverSix
<1>2. PICK i, j, l, r \in Int : Is(s, i, d) /\ Is(k, j, d) /\ Is(p, l, d) /\ Is(q, r, d)
  BY <1>1 DEF Over
<1> DEFINE c == IF i - j < 0 THEN 0 ELSE i - j
           o == IF j - i < 0 THEN 0 ELSE j - i
           h == IF i < j THEN j ELSE i
           m == IF i < j THEN i ELSE j
<1>3. /\ Is(Larger(s -- k, Zero), c, d) /\ Is(Larger(k -- s, Zero), o, d)
      /\ Is(Larger(s, k), h, d) /\ Is(Smaller(s, k), m, d)
  BY <1>2, PayoffsAre
<1>4. Is(One, d, d)
  BY <1>1, ZeroIs
<1>5. (h - (d + r)) - (m + (l - d)) = (c - l) + (o - r)
  BY <1>1, <1>2
<1> HIDE DEF c, o, h, m
<1>6. Is(One ++ q, d + r, d) /\ Is(p -- One, l - d, d)
  BY <1>2, <1>4, PlusIs, DifferenceIs
<1>7. Is(Larger(s, k) -- (One ++ q), h - (d + r), d)
  BY <1>3, <1>6, DifferenceIs
<1>8. Is(Smaller(s, k) ++ (p -- One), m + (l - d), d)
  BY <1>3, <1>6, PlusIs
<1>9. Is((Larger(s, k) -- (One ++ q)) -- (Smaller(s, k) ++ (p -- One)), (h - (d + r)) - (m + (l - d)), d)
  BY <1>7, <1>8, DifferenceIs
<1>10. Is(Larger(s -- k, Zero) -- p, c - l, d) /\ Is(Larger(k -- s, Zero) -- q, o - r, d)
  BY <1>2, <1>3, DifferenceIs
<1>11. Is((Larger(s -- k, Zero) -- p) ++ (Larger(k -- s, Zero) -- q), (c - l) + (o - r), d)
  BY <1>10, PlusIs
<1> QED
  BY <1>5, <1>9, <1>11, IsOrder

\* Who breaks even has nothing.
LEMMA EvenIsNothing ==
  ASSUME NEW k \in Rationals, NEW p \in Rationals
  PROVE  /\ One -- p \preceq k => Smaller(One -- p, k) ++ (p -- One) = Zero
         /\ k \preceq One ++ p => Larger(One ++ p, k) -- (One ++ p) = Zero
<1>1. PICK d \in Nat \ {0}, i \in Int, j \in Int : Is(k, i, d) /\ Is(p, j, d)
  BY IsCommon
<1>2. Is(One, d, d)
  BY <1>1, ZeroIs
<1>3. Is(One -- p, d - j, d) /\ Is(One ++ p, d + j, d) /\ Is(p -- One, j - d, d)
  BY <1>1, <1>2, PlusIs, DifferenceIs
<1>4. (One -- p \preceq k <=> d - j <= i) /\ (k \preceq One ++ p <=> i <= d + j)
  BY <1>1, <1>3, IsOrder
<1>5. ASSUME d - j <= i PROVE Smaller(One -- p, k) ++ (p -- One) = Zero
  <2> DEFINE m == IF d - j < i THEN d - j ELSE i
  <2>1. Is(Smaller(One -- p, k), m, d)
    BY <1>1, <1>3, LargerIs
  <2>2. m + (j - d) = 0
    BY <1>1, <1>5
  <2> HIDE DEF m
  <2>3. Is(Smaller(One -- p, k) ++ (p -- One), m + (j - d), d)
    BY <1>3, <2>1, PlusIs
  <2> QED
    BY <2>2, <2>3, PositiveIs
<1>6. ASSUME i <= d + j PROVE Larger(One ++ p, k) -- (One ++ p) = Zero
  <2> DEFINE m == IF d + j < i THEN i ELSE d + j
  <2>1. Is(Larger(One ++ p, k), m, d)
    BY <1>1, <1>3, LargerIs
  <2>2. m - (d + j) = 0
    BY <1>1, <1>6
  <2> HIDE DEF m
  <2>3. Is(Larger(One ++ p, k) -- (One ++ p), m - (d + j), d)
    BY <1>3, <2>1, DifferenceIs
  <2> QED
    BY <2>2, <2>3, PositiveIs
<1> QED
  BY <1>4, <1>5, <1>6

LEMMA MoneyIsWorth ==
  ASSUME NEW s \in Rationals, NEW k \in Rationals, NEW right \in {"CALL", "PUT"}
  PROVE  moneyness(right, s, k) = "IN_THE_MONEY" <=> Zero \prec intrinsic_value(right, s, k)
<1>1. PICK i \in Int, j \in Int, d \in Nat \ {0} : Is(s, i, d) /\ Is(k, j, d)
  BY IsCommon
<1>2. (s = k <=> i = j) /\ (k \prec s <=> j < i)
  BY <1>1, IsOrder
<1> DEFINE c == IF i - j < 0 THEN 0 ELSE i - j
           o == IF j - i < 0 THEN 0 ELSE j - i
<1>3. Is(Larger(s -- k, Zero), c, d) /\ Is(Larger(k -- s, Zero), o, d)
  BY <1>1, PayoffsAre
<1>4. (c > 0 <=> j < i) /\ (o > 0 <=> (i # j /\ ~ (j < i)))
  BY <1>1
<1> HIDE DEF c, o
<1>5. (Zero \prec Larger(s -- k, Zero) <=> c > 0) /\ (Zero \prec Larger(k -- s, Zero) <=> o > 0)
  BY <1>3, PositiveIs
<1> QED
  BY <1>2, <1>4, <1>5 DEF moneyness, intrinsic_value

\* One in bills less a strike in bills grows to one grown less the strike.
LEMMA DiscountGrows ==
  ASSUME NEW k \in Rationals, NEW g \in Rationals, Zero \prec g
  PROVE  /\ k // g \in Rationals
         /\ (One -- k // g) ** g = (One -- Zero) ** g -- k
         /\ One \preceq g /\ Zero \preceq k => k // g \preceq k
<1>1. PICK i \in Int, j \in Int, d \in Nat \ {0} : Is(k, i, d) /\ Is(g, j, d)
  BY IsCommon
<1>2. j > 0 /\ j \in Nat \ {0}
  BY <1>1, PositiveIs
<1>3. Is(k // g, i, j) /\ k // g \in Rationals
  BY <1>1, <1>2, QuotientOver
<1>4. (One -- k // g) ** g = (One -- Zero) ** g -- k
  <2>1. Is(One, j, j)
    BY <1>2, ZeroIs
  <2>2. Is(One -- k // g, j - i, j)
    BY <1>3, <2>1, DifferenceIs
  <2>3. Is((One -- k // g) ** g, (j - i) * j, j * d)
    BY <1>1, <2>2, TimesIs
  <2>4. One -- Zero = One /\ One ** g = g
    BY PlusLaws, TimesLaws, ConstantsAreNumbers
  <2>5. Is(g -- k, j - i, d)
    BY <1>1, DifferenceIs
  <2>6. ((j - i) * j) * d = (j - i) * (j * d)
    BY <1>1
  <2> QED
    BY <2>3, <2>4, <2>5, <2>6, IsSame
<1>5. ASSUME One \preceq g, Zero \preceq k PROVE k // g \preceq k
  <2>1. Is(One, d, d)
    BY <1>1, ZeroIs
  <2>2. d <= j /\ i >= 0
    BY <1>1, <1>5, <2>1, IsOrder, PositiveIs
  <2>3. i * d <= i * j
    BY <1>1, <2>2
  <2>4. Is(k // g, i * d, j * d)
    BY <1>1, <1>3, IsScaled
  <2>5. Is(k, i * j, d * j)
    BY <1>1, <1>2, IsScaled
  <2>6. d * j = j * d
    BY <1>1
  <2> QED
    BY <2>3, <2>4, <2>5, <2>6, IsOrder
<1> QED
  BY <1>3, <1>4, <1>5
-----------------------------------------------------------------------------

LEMMA ProductAboveOne ==
  ASSUME NEW a \in Rationals, NEW b \in Rationals, One \preceq a, One \preceq b
  PROVE  One \preceq a ** b
<1>1. PICK i \in Int, j \in Int, d \in Nat \ {0} : Is(a, i, d) /\ Is(b, j, d)
  BY IsCommon
<1>2. Is(One, d, d)
  BY <1>1, ZeroIs
<1>3. d <= i /\ d <= j
  BY <1>1, <1>2, IsOrder
<1>4. d * d <= i * j
  <2>1. d * d <= d * j
    BY <1>1, <1>3
  <2>2. d * j <= i * j
    <3>1. j >= 0
      BY <1>1, <1>3
    <3> QED
      BY <1>1, <1>3, <3>1
  <2> QED
    BY <1>1, <2>1, <2>2
<1>5. Is(a ** b, i * j, d * d)
  BY <1>1, TimesIs
<1>6. Is(One, d * d, d * d)
  <2>1. d * d \in Nat \ {0}
    BY <1>1
  <2> QED
    BY <2>1, ZeroIs
<1> QED
  BY <1>4, <1>5, <1>6, IsOrder

\* What earns something every year is not less after years.
LEMMA PowersAboveOne ==
  ASSUME NEW a \in Rationals, One \preceq a, NEW n \in Nat
  PROVE  One \preceq Power(a, n)
<1>1. PICK t : PowersOf(t, a, n)
  BY PowersExist
<1> DEFINE B == {k \in 0..n : ~ (One \preceq t[k])}
<1>2. t \in [0..n -> Rationals] /\ t[0] = One /\ \A k \in 1..n : t[k] = t[k - 1] ** a
  BY <1>1 DEF PowersOf
<1>3. ASSUME B # {} PROVE FALSE
  <2>1. B \in SUBSET Nat
    OBVIOUS
  <2>2. PICK k \in B : \A m \in B : k <= m
    <3> HIDE DEF B
    <3> QED
      BY <1>3, <2>1, SmallestNat
  <2>3. k \in 0..n /\ ~ (One \preceq t[k])
    OBVIOUS
  <2>4. CASE k = 0
    <3>1. One \preceq One
      <4>1. Is(One, 1, 1)
        BY ZeroIs
      <4> QED
        BY <4>1, IsOrder
    <3> QED
      BY <1>2, <2>3, <2>4, <3>1
  <2>5. CASE k # 0
    <3>1. k \in 1..n /\ k - 1 \in 0..n
      BY <2>3, <2>5
    <3>2. k - 1 \notin B
      <4> HIDE DEF B
      <4> QED
        BY <2>2, <3>1
    <3>3. One \preceq t[k - 1] /\ t[k - 1] \in Rationals
      BY <1>2, <3>1, <3>2
    <3> QED
      BY <1>2, <2>3, <3>1, <3>3, ProductAboveOne
  <2> QED
    BY <2>4, <2>5
<1>4. n \in 0..n
  OBVIOUS
<1>5. n \notin B
  BY <1>3
<1>6. One \preceq t[n]
  BY <1>4, <1>5
<1> QED
  BY <1>1, <1>4, <1>6, PowerIs

\* What a year's bills grow to.
LEMMA BillsGrow ==
  ASSUME Years \in Nat
  PROVE  LET g == Power(One ++ rf, Years)
         IN g \in Rationals /\ Zero \prec g /\ (Zero \preceq rf => One \preceq g)
<1> DEFINE a == One ++ rf
<1>1. PICK i \in Int, d \in Nat \ {0} : Is(rf, i, d)
  BY ConstantsAreNumbers, IsCommon
<1>2. Is(One, d, d) /\ Is(Zero, 0, d)
  BY <1>1, ZeroIs
<1>3. Is(a, d + i, d) /\ a \in Rationals
  BY <1>1, <1>2, PlusIs
<1>4. rf \in Rationals /\ Minus(One) \prec rf
  BY ConstantsAreNumbers, TrackRecordAssumption
<1>5. Zero \prec a
  BY <1>4, AboveMinusOne
<1>6. Zero \preceq rf => One \preceq a
  <2> SUFFICES ASSUME Zero \preceq rf PROVE One \preceq a
    OBVIOUS
  <2>1. i >= 0
    BY <1>1, PositiveIs
  <2>2. d <= d + i
    BY <1>1, <2>1
  <2> HIDE DEF a
  <2> QED
    BY <1>2, <1>3, <2>2, IsOrder
<1> HIDE DEF a
<1>7. Years \in 0..Years
  OBVIOUS
<1>8. Power(a, Years) \in Rationals /\ Zero \prec Power(a, Years)
  BY <1>3, <1>5, <1>7, PowersArePositive
<1>9. Zero \preceq rf => One \preceq Power(a, Years)
  BY <1>3, <1>6, PowersAboveOne
<1> QED
  BY <1>8, <1>9 DEF a

\* Time value of a call of price p and of its put, at a strike of k that is worth
\* b in bills.
LEMMA TimeWorth ==
  ASSUME NEW p \in Rationals, NEW k \in Rationals, NEW b \in Rationals, b \preceq k,
         b = discount(k, rf, Years)
  PROVE  TimeIsWorth(k, p, p ++ (b -- One))
<1> DEFINE put == p ++ (b -- One)
           call_worth == intrinsic_value("CALL", One, k)
           put_worth == intrinsic_value("PUT", One, k)
           call_time == time_value(p, call_worth)
           put_time == time_value(put, put_worth)
<1>1. PICK d \in Nat \ {0}, i \in Int, j \in Int, l \in Int : Is(p, i, d) /\ Is(k, j, d) /\ Is(b, l, d)
  BY ThreeOver
<1> DEFINE c == IF d - j < 0 THEN 0 ELSE d - j
           o == IF j - d < 0 THEN 0 ELSE j - d
           q == i + (l - d)
<1>2. Is(One, d, d) /\ Is(Zero, 0, d) /\ l <= j
  BY <1>1, ZeroIs, IsOrder
<1>3. Is(call_worth, c, d) /\ Is(put_worth, o, d)
  <2>1. Is(Larger(One -- k, Zero), c, d) /\ Is(Larger(k -- One, Zero), o, d)
    BY <1>1, <1>2, PayoffsAre
  <2> HIDE DEF c, o
  <2> QED
    BY <2>1 DEF intrinsic_value
<1>4. Is(put, q, d)
  <2>1. Is(b -- One, l - d, d)
    BY <1>1, <1>2, DifferenceIs
  <2> QED
    BY <1>1, <2>1, PlusIs
<1>5. c \in Int /\ o \in Int /\ q \in Int /\ (i - c) - (q - o) = j - l /\ (i < c /\ 0 <= i => q < 0)
  BY <1>1, <1>2
<1> HIDE DEF c, o, q, put, call_worth, put_worth
<1>6. /\ p \prec call_worth <=> i < c
      /\ put \prec put_worth <=> q < o
  BY <1>1, <1>3, <1>4, IsOrder
<1>7. Is(p -- call_worth, i - c, d) /\ Is(put -- put_worth, q - o, d) /\ p -- call_worth \in Rationals
  BY <1>1, <1>3, <1>4, DifferenceIs
<1>8. Is(k -- b, j - l, d)
  BY <1>1, DifferenceIs
<1>9. /\ call_time = IF p \prec call_worth THEN Undefined ELSE p -- call_worth
      /\ put_time = IF put \prec put_worth THEN Undefined ELSE put -- put_worth
  BY DEF time_value
<1> HIDE DEF call_time, put_time
<1>10. ASSUME Undefined \notin {call_time, put_time}
       PROVE  call_time -- put_time = k -- b
  <2>1. call_time = p -- call_worth /\ put_time = put -- put_worth
    BY <1>9, <1>10
  <2>2. Is(call_time -- put_time, (i - c) - (q - o), d)
    BY <1>7, <2>1, DifferenceIs
  <2> QED
    BY <1>5, <1>8, <2>2, IsOrder
<1>11. ASSUME call_time = Undefined
       PROVE  p \prec Zero \/ put \prec Zero
  <2>1. p \prec call_worth
    BY <1>7, <1>9, <1>11, TrackRecordAssumption
  <2>2. i < 0 \/ q < 0
    BY <1>1, <1>5, <1>6, <2>1
  <2> QED
    BY <1>1, <1>4, <2>2, PositiveIs
<1> QED
  BY <1>10, <1>11 DEF TimeIsWorth, call_time, put_time, call_worth, put_worth, put

\* The formulas of one option, of a stock that ends at s, bills that grow to g.
LEMMA OptionIsFair ==
  ASSUME NEW strike \in Rationals, NEW premium \in Rationals, NEW s \in Rationals,
         NEW g \in Rationals, Zero \prec g, One \preceq g, Zero \preceq strike,
         g = Power(One ++ rf, Years), s = Spot
  PROVE  LET put == implied_put_price(premium, One, strike, rf, Years)
             spread == american_put_call_parity_bounds(One, strike, rf, Years, Zero)
         IN /\ european_put_call_parity(premium, put, One, strike, rf, Years, Zero)
            /\ implied_call_price(put, One, strike, rf, Years) = premium
            /\ american_parity_breach(premium, put, One, strike, rf, Years, Zero) = Zero
            /\ spread.lower \preceq spread.upper
            /\ option_payoff("LONG_CALL", strike, Spot) ++ strike = protective_put_payoff(Spot, strike)
            /\ covered_call_profit(Spot, strike, One, premium)
                 = (Spot -- One) ++ option_profit("SHORT_CALL", strike, premium, Spot)
            /\ protective_put_profit(Spot, strike, One, put) -- covered_call_profit(Spot, strike, One, premium)
                 = option_profit("LONG_CALL", strike, premium, Spot)
                     ++ option_profit("LONG_PUT", strike, put, Spot)
            /\ TimeIsWorth(strike, premium, put)
            /\ LET even == covered_call_breakeven(One, premium)
               IN even \preceq strike => covered_call_profit(even, strike, One, premium) = Zero
            /\ LET even == protective_put_breakeven(One, put)
               IN strike \preceq even => protective_put_profit(even, strike, One, put) = Zero
            /\ \A right \in {"CALL", "PUT"} :
                 moneyness(right, Spot, strike) = "IN_THE_MONEY"
                   <=> Zero \prec intrinsic_value(right, Spot, strike)
            /\ compound(One -- discount(strike, rf, Years), rf, Years)
                 = forward_price(One, rf, Years, Zero) -- strike
<1> DEFINE b == strike // g
           q == premium ++ (b -- One)
<1>1. b \in Rationals /\ (One -- b) ** g = (One -- Zero) ** g -- strike /\ b \preceq strike
  BY DiscountGrows
<1>2. Zero \in Rationals /\ One \in Rationals /\ Zero \preceq Zero /\ Minus(Zero) = Zero
  <2>1. Zero \in Rationals /\ One \in Rationals
    BY ConstantsAreNumbers
  <2>2. Is(Zero, 0, 1) /\ 1 \in Nat \ {0}
    BY ZeroIs
  <2>3. Is(Minus(Zero), 0, 1)
    <3>1. Is(Minus(Zero), -0, 1)
      BY <2>2, MinusIs
    <3> QED
      BY <3>1
  <2> QED
    BY <2>1, <2>2, <2>3, IsOrder
<1> HIDE DEF b
<1>3. discount(strike, rf, Years) = b
  BY DEF discount, b
<1>4. implied_put_price(premium, One, strike, rf, Years) = q
  BY <1>3 DEF implied_put_price
<1>5. /\ q \in Rationals /\ (premium ++ b) -- (q ++ One) = Zero
      /\ q ++ (One -- b) = premium /\ premium -- q = One -- b
  BY <1>1, ParityHolds
<1> HIDE DEF q
<1>6. european_put_call_parity(premium, q, One, strike, rf, Years, Zero)
  BY <1>2, <1>3, <1>5 DEF european_put_call_parity
<1>7. implied_call_price(q, One, strike, rf, Years) = premium
  BY <1>3, <1>5 DEF implied_call_price
<1>8. american_put_call_parity_bounds(One, strike, rf, Years, Zero)
        = [lower |-> (One -- Zero) -- strike, upper |-> One -- b]
  BY <1>3 DEF american_put_call_parity_bounds
<1>9. (One -- Zero) -- strike \preceq One -- b /\ One -- b \preceq One -- b
  <2>1. PICK i \in Int, j \in Int, d \in Nat \ {0} : Is(b, i, d) /\ Is(strike, j, d)
    BY <1>1, IsCommon
  <2>2. i <= j
    BY <1>1, <2>1, IsOrder
  <2>3. Is(One, d, d) /\ One -- Zero = One
    BY <1>2, <2>1, ZeroIs, PlusLaws
  <2>4. Is(One -- b, d - i, d) /\ Is(One -- strike, d - j, d)
    BY <2>1, <2>3, DifferenceIs
  <2>5. d - j <= d - i /\ d - i <= d - i
    BY <2>1, <2>2
  <2> QED
    BY <2>3, <2>4, <2>5, IsOrder
<1>10. american_parity_breach(premium, q, One, strike, rf, Years, Zero) = Zero
  BY <1>5, <1>8, <1>9 DEF american_parity_breach
<1>11. /\ Larger(s -- strike, Zero) ++ strike = Larger(s, strike)
       /\ Smaller(s, strike) ++ (premium -- One)
            = (s -- One) ++ (Minus(Larger(s -- strike, Zero)) ++ premium)
  BY PayoffsAgree
<1>12. (Larger(s, strike) -- (One ++ q)) -- (Smaller(s, strike) ++ (premium -- One))
         = (Larger(s -- strike, Zero) -- premium) ++ (Larger(strike -- s, Zero) -- q)
  BY <1>5, ProtectedAgainstCovered
<1>13. /\ option_payoff("LONG_CALL", strike, s) = Larger(s -- strike, Zero)
       /\ option_profit("SHORT_CALL", strike, premium, s) = Minus(Larger(s -- strike, Zero)) ++ premium
       /\ option_profit("LONG_CALL", strike, premium, s) = Larger(s -- strike, Zero) -- premium
       /\ option_profit("LONG_PUT", strike, q, s) = Larger(strike -- s, Zero) -- q
  BY DEF option_payoff, option_profit
<1>14. /\ option_payoff("LONG_CALL", strike, s) ++ strike = protective_put_payoff(s, strike)
       /\ covered_call_profit(s, strike, One, premium)
            = (s -- One) ++ option_profit("SHORT_CALL", strike, premium, s)
       /\ protective_put_profit(s, strike, One, q) -- covered_call_profit(s, strike, One, premium)
            = option_profit("LONG_CALL", strike, premium, s) ++ option_profit("LONG_PUT", strike, q, s)
  BY <1>11, <1>12, <1>13 DEF protective_put_payoff, protective_put_profit, covered_call_profit,
     covered_call_payoff
<1>19. TimeIsWorth(strike, premium, q)
  BY <1>1, <1>3, TimeWorth DEF q
<1>15. One -- premium \preceq strike => covered_call_profit(One -- premium, strike, One, premium) = Zero
  BY EvenIsNothing DEF covered_call_profit, covered_call_payoff
<1>16. strike \preceq One ++ q => protective_put_profit(One ++ q, strike, One, q) = Zero
  BY <1>5, EvenIsNothing DEF protective_put_profit, protective_put_payoff
<1>17. \A right \in {"CALL", "PUT"} :
         moneyness(right, s, strike) = "IN_THE_MONEY" <=> Zero \prec intrinsic_value(right, s, strike)
  BY MoneyIsWorth
<1>18. compound(One -- b, rf, Years) = forward_price(One, rf, Years, Zero) -- strike
  BY <1>1 DEF compound, forward_price
<1> QED
  BY <1>3, <1>4, <1>6, <1>7, <1>8, <1>9, <1>10, <1>14, <1>15, <1>16, <1>17, <1>18, <1>19
     DEF covered_call_breakeven, protective_put_breakeven

LEMMA OptionsFollow ==
  ASSUME SeriesFit, Zero \preceq rf, \A strike \in Strikes : Zero \preceq strike
  PROVE  OptionsAreFair
<1>1. stock \in Seq(Rationals) /\ (\A i \in DOMAIN stock : Minus(One) \prec stock[i]) /\ Years \in Nat
  BY DEF SeriesFit, Years
<1>2. Spot \in Rationals
  <2>1. Len(stock) + 1 \in 1..(Len(stock) + 1)
    BY <1>1
  <2> QED
    BY <1>1, <2>1, CurveParts DEF Spot
<1>3. /\ Power(One ++ rf, Years) \in Rationals /\ Zero \prec Power(One ++ rf, Years)
      /\ One \preceq Power(One ++ rf, Years)
  BY <1>1, BillsGrow
<1>4. Strikes \subseteq Rationals /\ Premiums \subseteq Rationals
  BY TrackRecordAssumption
<1> QED
  BY <1>2, <1>3, <1>4, OptionIsFair DEF OptionsAreFair
-----------------------------------------------------------------------------
(* Bills.                                                                  *)

\* A price below or at par, and the yields it is quoted at for a number of days.
LEMMA BillIsFair ==
  ASSUME NEW price \in Rationals, Zero \prec price, price \preceq One, NEW days \in Nat \ {0}
  PROVE  LET discounted == bank_discount_yield(price, days)
             earned == holding_period_yield(price, One, Zero)
             equivalent == discount_to_bond_equivalent_yield(discounted, days)
         IN /\ ImpliedPrice(discounted, days) = price
            /\ equivalent = earned ** (BOND_YEAR // Whole(days))
            /\ price # One => /\ discounted \prec money_market_yield(earned, days)
                              /\ money_market_yield(earned, days) \prec equivalent
<1> DEFINE short == 360
           long == 365
           part == DISCOUNT_YEAR // Whole(days)
           whole == BOND_YEAR // Whole(days)
           discounted == (One -- price) ** part
           earned == (One -- price) // price
<1>1. PICK i \in Int, d \in Nat \ {0} : Is(price, i, d)
  BY IsItself, RationalParts
<1>2. Is(One, d, d) /\ Is(Zero, 0, d)
  BY <1>1, ZeroIs
<1>3. i > 0 /\ i <= d /\ i \in Nat \ {0}
  BY <1>1, <1>2, IsOrder, PositiveIs
<1>4. short \in Nat \ {0} /\ long \in Nat \ {0} /\ short < long
  OBVIOUS
<1>5. Is(DISCOUNT_YEAR, short, 1) /\ Is(BOND_YEAR, long, 1) /\ Is(Whole(days), days, 1)
  BY IsWhole DEF DISCOUNT_YEAR, BOND_YEAR
<1> HIDE DEF short, long
<1>6. Is(part, short, days) /\ Is(whole, long, days) /\ Is(Whole(days) // DISCOUNT_YEAR, days, short)
  BY <1>4, <1>5, QuotientOver
<1> HIDE DEF part, whole
<1>7. Is(One -- price, d - i, d)
  BY <1>1, <1>2, DifferenceIs
<1>8. Is(discounted, (d - i) * short, d * days)
  BY <1>6, <1>7, TimesIs
<1>9. Is(earned, d - i, i)
  BY <1>1, <1>3, <1>7, QuotientOver
<1> HIDE DEF discounted
<1>10. ImpliedPrice(discounted, days) = price
  <2> DEFINE x == (d - i) * short
             y == d * days
  <2>1. x \in Int /\ y \in Nat \ {0} /\ y * short \in Nat \ {0}
    BY <1>1, <1>4
  <2> HIDE DEF x, y
  <2>2. Is(discounted ** (Whole(days) // DISCOUNT_YEAR), x * days, y * short)
    BY <1>6, <1>8, TimesIs DEF x, y
  <2>3. Is(One, y * short, y * short)
    BY <2>1, ZeroIs
  <2>4. Is(One -- discounted ** (Whole(days) // DISCOUNT_YEAR), y * short - x * days, y * short)
    BY <2>2, <2>3, DifferenceIs
  <2>5. (y * short - x * days) * d = i * (y * short)
    BY <1>1, <1>4 DEF x, y
  <2>6. One -- discounted ** (Whole(days) // DISCOUNT_YEAR) = price
    BY <1>1, <2>4, <2>5, IsSame
  <2> QED
    BY <2>6 DEF ImpliedPrice
<1>11. discount_to_bond_equivalent_yield(discounted, days) = earned ** whole
  BY <1>10 DEF discount_to_bond_equivalent_yield, whole
<1> HIDE DEF earned
<1>12. money_market_yield(earned, days) = earned ** part
  BY DEF money_market_yield, part
<1>13. Is(earned ** part, (d - i) * short, i * days) /\ Is(earned ** whole, (d - i) * long, i * days)
  BY <1>6, <1>9, TimesIs
<1>14. ASSUME price # One
       PROVE  discounted \prec earned ** part /\ earned ** part \prec earned ** whole
  <2> DEFINE l == d - i
             x == l * short
  <2>1. i < d
    BY <1>1, <1>2, <1>3, <1>14, IsOrder
  <2>2. l \in Nat \ {0} /\ x \in Nat \ {0} /\ i * days \in Nat \ {0} /\ l * short < l * long
    <3>1. l \in Nat \ {0}
      BY <1>1, <2>1
    <3> HIDE DEF l
    <3> QED
      BY <1>3, <1>4, <3>1
  <2>3. Is(earned ** part, l * short, i * days) /\ Is(earned ** whole, l * long, i * days)
    BY <1>13
  <2>4. earned ** part \prec earned ** whole
    <3> HIDE DEF l
    <3> QED
      BY <2>2, <2>3, IsOrder
  <2>5. Is(discounted, x, d * days) /\ Is(earned ** part, x, i * days)
    BY <1>8, <2>3
  <2> HIDE DEF x, l
  <2>6. Is(discounted, x * i, (d * days) * i) /\ Is(earned ** part, x * d, (i * days) * d)
    BY <1>1, <1>3, <2>5, IsScaled
  <2>7. (d * days) * i = (i * days) * d
    BY <1>1
  <2>8. x * i < x * d
    BY <1>1, <2>1, <2>2
  <2>9. discounted \prec earned ** part
    BY <2>6, <2>7, <2>8, IsOrder
  <2> QED
    BY <2>4, <2>9
<1>15. bank_discount_yield(price, days) = discounted
  BY DEF bank_discount_yield, discounted, part
<1>16. holding_period_yield(price, One, Zero) = earned
  <2>1. One ++ Zero = One
    BY ConstantsAreNumbers, PlusLaws
  <2> QED
    BY <2>1 DEF holding_period_yield, earned
<1> QED
  BY <1>10, <1>11, <1>12, <1>14, <1>15, <1>16 DEF whole

\* Every bill earns what it is quoted at, whatever the convention: the quoted
\* discount is that of its price alone, and understates what the bill earns on
\* what is paid for it, more than the money market yield does (fixed_income.py).
THEOREM BillsHold == BillsAreFair
BY TrackRecordAssumption, BillIsFair DEF BillsAreFair
-----------------------------------------------------------------------------
(* Bonds: the formulas over one denominator.                               *)

LEMMA DiscountsAre ==
  ASSUME NEW u \in Rationals, Zero \prec u, NEW a, NEW e, Is(u, a, e), NEW n \in Nat,
         NEW M \in Nat \ {0}, NEW V \in [1..n -> Int],
         \A k \in 1..n : Is(One // Power(u, k), V[k], M)
  PROVE  /\ Discounts(V, n, M, a, e)
         /\ \A k \in 1..n : Is(Power(u, k), M, V[k])
<1>1. a \in Nat \ {0} /\ e \in Nat \ {0}
  <2>1. a > 0
    BY PositiveIs
  <2> QED
    BY <2>1 DEF Is
<1>2. ASSUME NEW k \in 1..n
      PROVE  V[k] \in Nat \ {0} /\ Is(Power(u, k), M, V[k])
  <2> DEFINE p == Power(u, k)
             v == V[k]
  <2>1. p \in Rationals /\ Zero \prec p
    <3>1. k \in 0..n
      OBVIOUS
    <3> QED
      BY <3>1, PowersArePositive
  <2> HIDE DEF p
  <2>2. PICK i \in Int, j \in Nat \ {0} : Is(p, i, j)
    BY <2>1, IsCommon
  <2>3. i \in Nat \ {0}
    <3>1. i > 0
      BY <2>1, <2>2, PositiveIs
    <3> QED
      BY <3>1
  <2>4. Is(One // p, 1 * j, 1 * i)
    <3> DEFINE one == 1
    <3>1. Is(One, one, one) /\ i > 0
      BY <2>3, ZeroIs
    <3> HIDE DEF one
    <3>2. Is(One // p, one * j, one * i)
      BY <2>2, <3>1, QuotientIs
    <3> QED
      BY <3>2 DEF one
  <2>5. Is(One // p, v, M) /\ v \in Int
    BY DEF p
  <2> HIDE DEF v
  <2>6. j * M = v * i
    <3>1. (1 * j) * M = v * (1 * i)
      BY <2>4, <2>5, IsUnique
    <3> QED
      BY <2>2, <2>3, <2>5, <3>1
  <2>7. v \in Nat \ {0}
    <3>1. j * M \in Nat \ {0}
      BY <2>2, ProductIsPositive
    <3>2. i * v > 0
      BY <2>3, <2>5, <2>6, <3>1
    <3> QED
      BY <2>3, <2>5, <3>2, FactorKeepsSign
  <2>8. Is(p, M, v)
    <3>1. i * v = M * j /\ M \in Int
      BY <2>2, <2>3, <2>5, <2>6
    <3> QED
      BY <2>2, <2>7, <3>1, IsAlso
  <2> QED
    BY <2>7, <2>8 DEF p, v
<1>3. PICK t : PowersOf(t, u, n)
  BY PowersExist
<1>4. ASSUME NEW k \in 1..n
      PROVE  a * V[k] = e * (IF k = 1 THEN M ELSE V[k - 1])
  <2> DEFINE q == IF k = 1 THEN M ELSE V[k - 1]
             v == V[k]
             z == Power(u, k - 1)
             p == Power(u, k)
  <2>1. p = z ** u
    <3>1. k \in 0..n /\ k - 1 \in 0..n
      OBVIOUS
    <3>2. Power(u, k) = t[k] /\ Power(u, k - 1) = t[k - 1]
      BY <1>3, <3>1, PowerIs
    <3>3. t[k] = t[k - 1] ** u
      BY <1>3 DEF PowersOf
    <3> QED
      BY <3>2, <3>3
  <2>2. Is(z, M, q) /\ q \in Nat \ {0}
    <3>1. CASE k = 1
      <4>1. z = One
        <5>1. k - 1 = 0
          BY <3>1
        <5> QED
          BY <5>1, NoneIsOne
      <4> QED
        BY <3>1, <4>1, ZeroIs
    <3>2. CASE k # 1
      <4>1. k - 1 \in 1..n
        BY <3>2
      <4> QED
        BY <1>2, <3>2, <4>1
    <3> QED
      BY <3>1, <3>2
  <2>3. Is(p, M, v) /\ v \in Nat \ {0}
    BY <1>2
  <2> HIDE DEF q, v, z, p
  <2>4. Is(p, M * a, q * e)
    BY <2>1, <2>2, TimesIs
  <2>5. (M * a) * v = M * (q * e)
    BY <2>3, <2>4, IsUnique
  <2>6. (a * v) * M = (e * q) * M /\ a * v \in Int /\ e * q \in Int
    BY <1>1, <2>2, <2>3, <2>5
  <2>7. a * v = e * q
    BY <2>6, CancelsEqual
  <2> QED
    BY <2>7 DEF q, v
<1>5. V \in [1..n -> Nat \ {0}]
  BY <1>2
<1>6. Discounts(V, n, M, a, e)
  BY <1>1, <1>4, <1>5 DEF Discounts
<1> QED
  BY <1>2, <1>6

LEMMA DiscountsExist ==
  ASSUME NEW u \in Rationals, Zero \prec u, NEW x \in Rationals, Zero \prec x, NEW n \in Nat
  PROVE  \E V, W, M, a, b, e :
           /\ Discounts(V, n, M, a, e) /\ Discounts(W, n, M, b, e)
           /\ Is(u, a, e) /\ Is(x, b, e)
           /\ \A k \in 1..n : Is(Power(u, k), M, V[k]) /\ Is(Power(x, k), M, W[k])
<1>1. PICK a \in Int, b \in Int, e \in Nat \ {0} : Is(u, a, e) /\ Is(x, b, e)
  BY IsCommon
<1> DEFINE s == [k \in 1..n |-> One // Power(u, k)]
           r == [k \in 1..n |-> One // Power(x, k)]
<1>2. ASSUME NEW z \in Rationals, Zero \prec z
      PROVE  [k \in 1..n |-> One // Power(z, k)] \in [1..n -> Rationals]
  <2> SUFFICES ASSUME NEW k \in 1..n PROVE One // Power(z, k) \in Rationals
    OBVIOUS
  <2>1. k \in 0..n
    OBVIOUS
  <2>2. Power(z, k) \in Rationals /\ Zero \prec Power(z, k)
    BY <1>2, <2>1, PowersArePositive
  <2>3. Power(z, k) # Zero
    <3> DEFINE p == Power(z, k)
    <3>1. p \in Rationals /\ Zero \prec p
      BY <2>2
    <3> HIDE DEF p
    <3>2. PICK i \in Int, j \in Nat \ {0} : Is(p, i, j)
      BY <3>1, IsCommon
    <3>3. p # Zero
      BY <3>1, <3>2, PositiveIs
    <3> QED
      BY <3>3 DEF p
  <2> QED
    BY <2>2, <2>3, Closed, ConstantsAreNumbers
<1>3. s \in [1..n -> Rationals] /\ r \in [1..n -> Rationals]
  BY <1>2
<1> HIDE DEF s, r
<1>4. PICK M \in Nat \ {0}, V \in [1..n -> Int], W \in [1..n -> Int] :
        \A k \in 1..n : Is(s[k], V[k], M) /\ Is(r[k], W[k], M)
  BY <1>3, TwoSeriesOver
<1>5. /\ \A k \in 1..n : Is(One // Power(u, k), V[k], M)
      /\ \A k \in 1..n : Is(One // Power(x, k), W[k], M)
  BY <1>4 DEF s, r
<1>6. Discounts(V, n, M, a, e) /\ \A k \in 1..n : Is(Power(u, k), M, V[k])
  BY <1>1, <1>5, DiscountsAre
<1>7. Discounts(W, n, M, b, e) /\ \A k \in 1..n : Is(Power(x, k), M, W[k])
  BY <1>1, <1>5, DiscountsAre
<1> QED
  BY <1>1, <1>6, <1>7

\* A bond the formulas accept.
IsBond(bond) ==
  /\ bond.coupon \in Rationals /\ Zero \preceq bond.coupon
  /\ bond.years \in Nat \ {0} /\ bond.frequency \in Nat \ {0}

\* What a bond pays weighed by wt, over the denominator of its discounts.
LEMMA FlowIs ==
  ASSUME NEW bond, IsBond(bond), NEW yield, NEW V, NEW n, n = _periods(bond), NEW M,
         NEW a, NEW e, Discounts(V, n, M, a, e),
         \A k \in 1..n : Is(Power(One ++ Rate(bond, yield), k), M, V[k]),
         NEW m, NEW g, Is(bond.coupon // Whole(bond.frequency), m, g),
         NEW wt \in [1..n -> Int]
  PROVE  Is(Sum([k \in 1..n |-> Whole(wt[k]) ** PresentValue(bond, yield, k)]),
            m * Total([k \in 1..n |-> wt[k] * V[k]], 1..n) + g * (wt[n] * V[n]), g * M)
<1> DEFINE s == [k \in 1..n |-> Whole(wt[k]) ** PresentValue(bond, yield, k)]
           r == [k \in 1..n |-> m + (IF k = n THEN g ELSE 0)]
           c == [k \in 1..n |-> wt[k] * (r[k] * V[k])]
<1>1. /\ n \in Nat \ {0} /\ M \in Nat \ {0} /\ m \in Int /\ g \in Nat \ {0} /\ g * M \in Nat \ {0}
      /\ V \in [1..n -> Int]
  <2>1. n \in Nat \ {0}
    BY ProductIsPositive DEF IsBond, _periods
  <2>2. M \in Nat \ {0} /\ V \in [1..n -> Int]
    BY DEF Discounts
  <2>3. m \in Int /\ g \in Nat \ {0}
    BY DEF Is
  <2> QED
    BY <2>1, <2>2, <2>3, ProductIsPositive
<1>2. ASSUME NEW k \in 1..n
      PROVE  Is(s[k], c[k], g * M) /\ s[k] \in Rationals
  <2> DEFINE v == V[k]
             w == wt[k]
             x == r[k]
             p == Power(One ++ Rate(bond, yield), k)
             flow == CashFlow(bond, k)
             present == flow // p
  <2>1. v \in Nat \ {0} /\ w \in Int /\ x \in Int /\ Is(p, M, v)
    <3>1. v \in Nat \ {0}
      BY DEF Discounts
    <3> QED
      BY <1>1, <3>1
  <2>2. Is(flow, x, g)
    <3>1. CASE k = n
      <4>1. flow = bond.coupon // Whole(bond.frequency) ++ One
        BY <3>1 DEF CashFlow
      <4>2. Is(One, g, g)
        BY <1>1, ZeroIs
      <4>3. Is(flow, m + g, g)
        BY <4>1, <4>2, PlusIs
      <4> QED
        BY <3>1, <4>3
    <3>2. CASE k # n
      <4>1. flow = bond.coupon // Whole(bond.frequency) ++ Zero
        BY <3>2 DEF CashFlow
      <4> DEFINE zero == 0
      <4>2. Is(Zero, zero, g)
        BY <1>1, ZeroIs
      <4> HIDE DEF flow, zero
      <4>3. Is(flow, m + zero, g)
        BY <4>1, <4>2, PlusIs
      <4> QED
        BY <1>1, <3>2, <4>3 DEF zero
    <3> QED
      BY <3>1, <3>2
  <2> HIDE DEF v, w, x, p, flow
  <2>3. Is(present, x * v, g * M)
    <3>1. M > 0
      BY <1>1
    <3> QED
      BY <2>1, <2>2, <3>1, QuotientIs
  <2> HIDE DEF present
  <2>4. Is(Whole(w) ** present, w * (x * v), g * M) /\ Whole(w) ** present \in Rationals
    <3> DEFINE one == 1
    <3>1. Is(Whole(w), w, one)
      BY <2>1, IsWhole
    <3> HIDE DEF one
    <3>2. Is(Whole(w) ** present, w * (x * v), one * (g * M)) /\ Whole(w) ** present \in Rationals
      BY <2>3, <3>1, TimesIs
    <3>3. one * (g * M) = g * M
      BY <1>1 DEF one
    <3> QED
      BY <3>2, <3>3
  <2>5. s[k] = Whole(w) ** present /\ c[k] = w * (x * v)
    BY DEF w, present, flow, p, x, v, PresentValue
  <2> QED
    BY <2>4, <2>5
<1>3. s \in [1..n -> Rationals]
  BY <1>2
<1>4. /\ r[n] = m + g
      /\ \A k \in 1..n : k # n => r[k] = m
      /\ \A k \in 1..n : c[k] = wt[k] * (r[k] * V[k])
  BY <1>1
<1>5. \A k \in 1..n : Is(s[k], c[k], g * M)
  BY <1>2
<1> HIDE DEF s, c, r
<1>6. Total(c, 1..n) = m * Total([k \in 1..n |-> wt[k] * V[k]], 1..n) + g * (wt[n] * V[n])
  <2> DEFINE f == [k \in 1..n |-> wt[k] * V[k]]
  <2>1. \A k \in 1..n : f[k] \in Int /\ f[k] = wt[k] * V[k]
    BY <1>1
  <2> HIDE DEF f
  <2>2. \A k \in 1..n : f[k] \in Int /\ (k # n => c[k] = m * f[k])
    <3> SUFFICES ASSUME NEW k \in 1..n PROVE f[k] \in Int /\ (k # n => c[k] = m * f[k])
      OBVIOUS
    <3>1. wt[k] \in Int /\ V[k] \in Int /\ f[k] = wt[k] * V[k] /\ f[k] \in Int
      BY <1>1, <2>1
    <3>2. k # n => c[k] = wt[k] * (m * V[k])
      BY <1>4
    <3> QED
      BY <1>1, <3>1, <3>2
  <2>3. c[n] = m * f[n] + g * f[n]
    <3>1. n \in 1..n
      BY <1>1
    <3>2. wt[n] \in Int /\ V[n] \in Int /\ f[n] = wt[n] * V[n] /\ c[n] = wt[n] * ((m + g) * V[n])
      BY <1>1, <1>4, <2>1, <3>1
    <3> QED
      BY <1>1, <3>2
  <2>4. n \in Nat \ {0} /\ m \in Int /\ g \in Int
    BY <1>1
  <2>5. f[n] = wt[n] * V[n]
    BY <1>1, <2>1
  <2> DEFINE l == n
             i == m
             j == g
  <2>6. l \in Nat \ {0} /\ i \in Int /\ j \in Int
    BY <2>4
  <2>7. \A k \in 1..l : f[k] \in Int /\ (k # l => c[k] = i * f[k])
    BY <2>2
  <2>8. c[l] = i * f[l] + j * f[l]
    BY <2>3
  <2> HIDE DEF l, i, j
  <2>9. Total(c, 1..l) = i * Total(f, 1..l) + j * f[l]
    BY ONLY <2>6, <2>7, <2>8, FlowSplits
  <2> QED
    BY <2>5, <2>9 DEF f, l, i, j
<1>7. Is(Sum(s), Total(c, 1..n), g * M)
  <2> DEFINE d == g * M
  <2>1. d \in Nat \ {0} /\ n \in Nat
    BY <1>1
  <2>2. \A k \in 1..n : Is(s[k], c[k], d)
    BY <1>5
  <2> HIDE DEF d
  <2>3. Is(Sum(s), Total(c, 1..n), d)
    BY <1>3, <2>1, <2>2, SumIs
  <2> QED
    BY <2>3 DEF d
<1> QED
  BY <1>6, <1>7 DEF s

\* The price, and what durations and convexities are made of.
LEMMA BondIs ==
  ASSUME NEW bond, IsBond(bond), NEW yield, NEW V, NEW n, n = _periods(bond), NEW M,
         NEW a, NEW e, Discounts(V, n, M, a, e),
         \A k \in 1..n : Is(Power(One ++ Rate(bond, yield), k), M, V[k]),
         NEW m, NEW g, Is(bond.coupon // Whole(bond.frequency), m, g)
  PROVE  /\ Is(bond_price(bond, yield), PricedAt(V, n, m, g), g * M)
         /\ Is(Times(bond, yield, LAMBDA period : period), TimedAt(V, n, m, g), g * M)
         /\ Is(Times(bond, yield, LAMBDA period : period * (period + 1)), BentAt(V, n, m, g), g * M)
<1>1. n \in Nat \ {0} /\ n \in 1..n /\ V \in [1..n -> Int] /\ m \in Int /\ g \in Int
  <2>1. n \in Nat \ {0}
    BY ProductIsPositive DEF IsBond, _periods
  <2>2. V \in [1..n -> Int]
    BY DEF Discounts
  <2>3. m \in Int /\ g \in Int
    BY DEF Is
  <2> QED
    BY <2>1, <2>2, <2>3
<1>2. Is(bond_price(bond, yield), PricedAt(V, n, m, g), g * M)
  <2> DEFINE wt == [k \in 1..n |-> 1]
  <2>1. wt \in [1..n -> Int]
    OBVIOUS
  <2>2. bond_price(bond, yield) = Sum([k \in 1..n |-> Whole(wt[k]) ** PresentValue(bond, yield, k)])
    BY DEF bond_price, Times
  <2>3. [k \in 1..n |-> wt[k] * V[k]] = V
    BY <1>1
  <2>4. wt[n] * V[n] = V[n]
    BY <1>1
  <2> HIDE DEF wt
  <2>5. Is(Sum([k \in 1..n |-> Whole(wt[k]) ** PresentValue(bond, yield, k)]),
           m * Total([k \in 1..n |-> wt[k] * V[k]], 1..n) + g * (wt[n] * V[n]), g * M)
    BY <2>1, FlowIs
  <2> QED
    BY <2>2, <2>3, <2>4, <2>5 DEF PricedAt
<1>3. Is(Times(bond, yield, LAMBDA period : period), TimedAt(V, n, m, g), g * M)
  <2> DEFINE wt == [k \in 1..n |-> k]
  <2>1. wt \in [1..n -> Int]
    OBVIOUS
  <2>2. Times(bond, yield, LAMBDA period : period)
          = Sum([k \in 1..n |-> Whole(wt[k]) ** PresentValue(bond, yield, k)])
    BY DEF Times
  <2>3. [k \in 1..n |-> wt[k] * V[k]] = [k \in 1..n |-> k * V[k]]
    OBVIOUS
  <2>4. wt[n] = n
    BY <1>1
  <2> HIDE DEF wt
  <2>5. Is(Sum([k \in 1..n |-> Whole(wt[k]) ** PresentValue(bond, yield, k)]),
           m * Total([k \in 1..n |-> wt[k] * V[k]], 1..n) + g * (wt[n] * V[n]), g * M)
    BY <2>1, FlowIs
  <2> QED
    BY <2>2, <2>3, <2>4, <2>5 DEF TimedAt
<1>4. Is(Times(bond, yield, LAMBDA period : period * (period + 1)), BentAt(V, n, m, g), g * M)
  <2> DEFINE wt == [k \in 1..n |-> k * (k + 1)]
  <2>1. wt \in [1..n -> Int]
    OBVIOUS
  <2>2. Times(bond, yield, LAMBDA period : period * (period + 1))
          = Sum([k \in 1..n |-> Whole(wt[k]) ** PresentValue(bond, yield, k)])
    BY DEF Times
  <2>3. [k \in 1..n |-> wt[k] * V[k]] = [k \in 1..n |-> (k * (k + 1)) * V[k]]
    OBVIOUS
  <2>4. wt[n] = n * (n + 1)
    BY <1>1
  <2> HIDE DEF wt
  <2>5. Is(Sum([k \in 1..n |-> Whole(wt[k]) ** PresentValue(bond, yield, k)]),
           m * Total([k \in 1..n |-> wt[k] * V[k]], 1..n) + g * (wt[n] * V[n]), g * M)
    BY <2>1, FlowIs
  <2> QED
    BY <2>2, <2>3, <2>4, <2>5 DEF BentAt
<1> QED
  BY <1>2, <1>3, <1>4

\* A bond at a yield, over one denominator.
Quoted(bond, yield, V, n, M, a, e, m, g) ==
  /\ IsBond(bond) /\ yield \in Rationals /\ n = _periods(bond) /\ Discounts(V, n, M, a, e)
  /\ Is(One ++ Rate(bond, yield), a, e) /\ Is(bond.coupon // Whole(bond.frequency), m, g)
  /\ \A k \in 1..n : Is(Power(One ++ Rate(bond, yield), k), M, V[k])

LEMMA QuotedIs ==
  ASSUME NEW bond, NEW yield, NEW V, NEW n, NEW M, NEW a, NEW e, NEW m, NEW g,
         Quoted(bond, yield, V, n, M, a, e, m, g)
  PROVE  LET f == bond.frequency
         IN /\ n \in Nat \ {0} /\ m \in Nat /\ g \in Nat \ {0} /\ f \in Nat \ {0}
            /\ M \in Nat \ {0} /\ a \in Nat \ {0} /\ e \in Nat \ {0} /\ g * M \in Nat \ {0}
            /\ n = bond.years * f
            /\ Is(yield, (a - e) * f, e) /\ Is(bond.coupon, m * f, g)
            /\ Is(bond_price(bond, yield), PricedAt(V, n, m, g), g * M)
            /\ Is(Times(bond, yield, LAMBDA period : period), TimedAt(V, n, m, g), g * M)
            /\ Is(Times(bond, yield, LAMBDA period : period * (period + 1)), BentAt(V, n, m, g), g * M)
<1> DEFINE f == bond.frequency
           c == bond.coupon
<1>1. /\ IsBond(bond) /\ yield \in Rationals /\ n = _periods(bond) /\ Discounts(V, n, M, a, e)
      /\ Is(One ++ Rate(bond, yield), a, e) /\ Is(c // Whole(f), m, g)
      /\ \A k \in 1..n : Is(Power(One ++ Rate(bond, yield), k), M, V[k])
  BY DEF Quoted
<1>2. f \in Nat \ {0} /\ c \in Rationals /\ Zero \preceq c /\ n = bond.years * f /\ n \in Nat \ {0}
  BY <1>1, ProductIsPositive DEF IsBond, _periods
<1>3. M \in Nat \ {0} /\ a \in Nat \ {0} /\ e \in Nat \ {0}
  BY <1>1 DEF Discounts
<1>4. m \in Int /\ g \in Nat \ {0}
  BY <1>1 DEF Is
<1>5. g * M \in Nat \ {0}
  BY <1>3, <1>4, ProductIsPositive
<1>6. Rate(bond, yield) = yield // Whole(f)
  BY DEF Rate
<1>7. /\ Is(bond_price(bond, yield), PricedAt(V, n, m, g), g * M)
      /\ Is(Times(bond, yield, LAMBDA period : period), TimedAt(V, n, m, g), g * M)
      /\ Is(Times(bond, yield, LAMBDA period : period * (period + 1)), BentAt(V, n, m, g), g * M)
  BY <1>1, BondIs
<1> HIDE DEF f, c
<1>8. Is(yield, (a - e) * f, e)
  <2>1. PICK i \in Int, d \in Nat \ {0} : Is(yield, i, d)
    BY <1>1, IsCommon
  <2> DEFINE b == d * f
  <2>2. b \in Nat \ {0}
    BY <1>2, ProductIsPositive
  <2>3. Is(yield // Whole(f), i, b)
    BY <1>2, <2>1, ShareIs
  <2> HIDE DEF b
  <2>4. Is(One, b, b)
    BY <2>2, ZeroIs
  <2>5. Is(One ++ Rate(bond, yield), b + i, b)
    BY <1>6, <2>3, <2>4, PlusIs
  <2>6. (b + i) * e = a * b
    BY <1>1, <2>5, IsUnique
  <2>7. i * e = ((a - e) * f) * d
    <3>1. i * e = a * b - b * e
      BY <1>3, <2>2, <2>6
    <3>2. a * b - b * e = ((a - e) * f) * d
      BY <1>2, <1>3 DEF b
    <3> QED
      BY <3>1, <3>2
  <2>8. (a - e) * f \in Int
    BY <1>2, <1>3
  <2> QED
    BY <1>3, <2>1, <2>7, <2>8, IsAlso
<1>9. Is(c, m * f, g) /\ m \in Nat
  <2>1. PICK i \in Int, d \in Nat \ {0} : Is(c, i, d)
    BY <1>2, IsCommon
  <2>2. Is(c // Whole(f), i, d * f)
    BY <1>2, <2>1, ShareIs
  <2>3. i * g = m * (d * f)
    BY <1>1, <2>2, IsUnique
  <2>4. i * g = (m * f) * d /\ m * f \in Int
    BY <1>2, <1>4, <2>3
  <2>5. Is(c, m * f, g)
    BY <1>4, <2>1, <2>4, IsAlso
  <2>6. i >= 0
    BY <1>2, <2>1, PositiveIs
  <2>7. m >= 0
    <3>1. d * f \in Nat \ {0}
      BY <1>2, ProductIsPositive
    <3>2. i * g \in Nat
      BY <1>4, <2>6, ProductIsNat
    <3>3. (d * f) * m >= 0
      BY <1>4, <2>3, <3>1, <3>2
    <3> QED
      BY <1>4, <3>1, <3>3, FactorKeepsSign
  <2> QED
    BY <1>4, <2>5, <2>7
<1> QED
  BY <1>2, <1>3, <1>4, <1>5, <1>7, <1>8, <1>9 DEF f, c

\* The price over that denominator, against par and against the coupon.
LEMMA QuotedPrice ==
  ASSUME NEW bond, NEW yield, NEW V, NEW n, NEW M, NEW a, NEW e, NEW m, NEW g,
         Quoted(bond, yield, V, n, M, a, e, m, g)
  PROVE  /\ Discounts(V, n, M, a, e) /\ V[n] \in Nat \ {0}
         /\ PricedAt(V, n, m, g) \in Nat \ {0}
         /\ \E A \in Nat \ {0} : e * (PricedAt(V, n, m, g) - g * M) = (m * e - (a - e) * g) * A
         /\ (a - e) * PricedAt(V, n, m, g) - (m * M) * e = ((a - e) * g - m * e) * V[n]
<1>1. n \in Nat \ {0} /\ m \in Nat /\ g \in Nat \ {0}
  BY QuotedIs
<1>2. Discounts(V, n, M, a, e)
  BY DEF Quoted
<1>3. V[n] \in Nat \ {0}
  <2>1. n \in 1..n
    BY <1>1
  <2> QED
    BY <1>2, <2>1, DiscountStep
<1> DEFINE l == n
<1>4. l \in Nat \ {0} /\ m \in Nat /\ g \in Nat \ {0} /\ Discounts(V, l, M, a, e)
  BY ONLY <1>1, <1>2
<1> HIDE DEF l
<1>5. PricedAt(V, l, m, g) \in Nat \ {0}
  BY ONLY <1>4, PricedIs
<1>6. \E A \in Nat \ {0} : e * (PricedAt(V, l, m, g) - g * M) = (m * e - (a - e) * g) * A
  BY ONLY <1>4, PricedIs
<1>7. (a - e) * PricedAt(V, l, m, g) - (m * M) * e = ((a - e) * g - m * e) * V[l]
  BY ONLY <1>4, PricedIs
<1> QED
  BY ONLY <1>2, <1>3, <1>5, <1>6, <1>7 DEF l

\* At par a bond yields its coupon; below par more than the coupon is of the
\* price, above par less.
LEMMA ParIsCoupon ==
  ASSUME NEW bond, NEW yield, NEW V, NEW n, NEW M, NEW a, NEW e, NEW m, NEW g,
         Quoted(bond, yield, V, n, M, a, e, m, g)
  PROVE  LET price == bond_price(bond, yield)
         IN /\ yield = bond.coupon <=> price = One
            /\ price \prec One => current_yield(bond, price) \prec yield
            /\ One \prec price => yield \prec current_yield(bond, price)
<1> DEFINE f == bond.frequency
           c == bond.coupon
           price == bond_price(bond, yield)
           p == PricedAt(V, n, m, g)
           d == g * M
           s == a - e
           D == s * g - m * e
           v == V[n]
<1>1. /\ n \in Nat \ {0} /\ m \in Nat /\ g \in Nat \ {0} /\ f \in Nat \ {0}
      /\ M \in Nat \ {0} /\ a \in Nat \ {0} /\ e \in Nat \ {0} /\ d \in Nat \ {0}
      /\ Is(yield, s * f, e) /\ Is(c, m * f, g) /\ Is(price, p, d)
  BY QuotedIs
<1>2. p \in Nat \ {0} /\ s * p - (m * M) * e = D * v /\ v \in Nat \ {0}
  BY ONLY QuotedPrice, Quoted(bond, yield, V, n, M, a, e, m, g)
<1>3. PICK A \in Nat \ {0} : e * (p - d) = (m * e - s * g) * A
  BY ONLY QuotedPrice, Quoted(bond, yield, V, n, M, a, e, m, g)
<1>4. s \in Int /\ D \in Int
  BY <1>1
<1> HIDE DEF f, c, price, p, v
<1>5. (p = d <=> D = 0) /\ (p < d <=> D > 0) /\ (d < p <=> D < 0)
  <2> DEFINE E == -D
             q == p - d
  <2>1. e * q = A * E /\ q \in Int /\ E \in Int
    <3>1. (m * e - s * g) * A = A * E
      BY <1>1, <1>4
    <3> QED
      BY <1>1, <1>2, <1>3, <1>4, <3>1
  <2> HIDE DEF q
  <2>2. (e * q > 0 <=> q > 0) /\ (e * q = 0 <=> q = 0) /\ (e * q \in Int)
    BY <1>1, <2>1, FactorKeepsSign
  <2> HIDE DEF E
  <2>3. (A * E > 0 <=> E > 0) /\ (A * E = 0 <=> E = 0)
    BY <2>1, FactorKeepsSign
  <2>4. (q > 0 <=> E > 0) /\ (q = 0 <=> E = 0)
    BY <2>1, <2>2, <2>3
  <2> HIDE DEF D, d
  <2> QED
    BY <1>1, <1>2, <1>4, <2>1, <2>4 DEF q, E
<1>6. (price = One <=> D = 0) /\ (price \prec One <=> D > 0) /\ (One \prec price <=> D < 0)
  <2>1. Is(One, d, d)
    BY <1>1, ZeroIs
  <2> HIDE DEF D, d
  <2> QED
    BY <1>1, <1>5, <2>1, IsOrder
<1> HIDE DEF D, d, s
<1>7. D = s * g - m * e /\ d = g * M
  BY DEF D, d
<1>8. yield = c <=> D = 0
  <2> DEFINE x == (s * f) * g
             y == (m * f) * e
  <2>1. Is(yield, x, e * g)
    BY <1>1, IsScaled
  <2>2. Is(c, y, e * g)
    <3>1. Is(c, y, g * e)
      BY <1>1, IsScaled
    <3>2. g * e = e * g
      BY <1>1
    <3> QED
      BY <3>1, <3>2
  <2>3. x - y = f * D /\ x \in Int /\ y \in Int
    BY <1>1, <1>4, <1>7
  <2> HIDE DEF x, y
  <2>4. f * D = 0 <=> D = 0
    BY <1>1, <1>4, FactorKeepsSign
  <2>5. yield = c <=> x = y
    BY <2>1, <2>2, IsOrder
  <2> QED
    BY <2>3, <2>4, <2>5
<1>9. (c // price \prec yield <=> D > 0) /\ (yield \prec c // price <=> D < 0)
  <2> DEFINE x == ((m * f) * d) * e
             y == (s * f) * (g * p)
             k == (g * p) * e
  <2>1. Is(c // price, (m * f) * d, g * p)
    <3>1. p > 0
      BY <1>2
    <3> QED
      BY <1>1, <3>1, QuotientIs
  <2>2. g * p \in Nat \ {0}
    BY <1>1, <1>2, ProductIsPositive
  <2>3. Is(c // price, x, k)
    BY <1>1, <2>1, IsScaled
  <2>4. Is(yield, y, k)
    <3>1. Is(yield, y, e * (g * p))
      BY <1>1, <2>2, IsScaled
    <3>2. e * (g * p) = k
      BY <1>1, <2>2
    <3> QED
      BY <3>1, <3>2
  <2> DEFINE t == f * g
             r == v * D
  <2>5. y - x = t * r /\ x \in Int /\ y \in Int /\ t \in Nat \ {0} /\ r \in Int
    <3>1. y - x = t * (s * p - (m * M) * e)
      <4> HIDE DEF k
      <4> QED
        BY <1>1, <1>2, <1>4, <1>7
    <3>2. s * p - (m * M) * e = r
      BY <1>2, <1>4
    <3>3. t \in Nat \ {0}
      BY <1>1, ProductIsPositive
    <3>4. x \in Int /\ y \in Int /\ r \in Int
      BY <1>1, <1>2, <1>4
    <3> HIDE DEF x, y, t, r
    <3> QED
      BY <3>1, <3>2, <3>3, <3>4
  <2> HIDE DEF x, y, k, t, r
  <2>6. (t * r > 0 <=> r > 0) /\ (t * r = 0 <=> r = 0) /\ t * r \in Int
    BY <2>5, FactorKeepsSign
  <2>7. (r > 0 <=> D > 0) /\ (r = 0 <=> D = 0)
    BY <1>2, <1>4, FactorKeepsSign DEF r
  <2>8. (x < y <=> D > 0) /\ (y < x <=> D < 0)
    BY <1>4, <2>5, <2>6, <2>7
  <2> QED
    BY <2>3, <2>4, <2>8, IsOrder
<1>10. current_yield(bond, price) = c // price
  BY DEF current_yield, c
<1> QED
  BY <1>6, <1>8, <1>9, <1>10 DEF price, c

\* The same bond a period later is over the same denominator.
LEMMA OlderIs ==
  ASSUME NEW bond, NEW yield, NEW V, NEW n, NEW M, NEW a, NEW e, NEW m, NEW g,
         Quoted(bond, yield, V, n, M, a, e, m, g),
         bond \in [coupon : Rationals, years : Nat \ {0}, frequency : Nat \ {0}],
         bond.frequency = 1, bond.years > 1
  PROVE  LET older == [bond EXCEPT !.years = @ - 1]
         IN Is(bond_price(older, yield), PricedAt(V, n - 1, m, g), g * M)
<1> DEFINE older == [bond EXCEPT !.years = @ - 1]
           l == n - 1
           U == [k \in 1..l |-> V[k]]
<1>1. /\ IsBond(bond) /\ yield \in Rationals /\ n = _periods(bond) /\ Discounts(V, n, M, a, e)
      /\ Is(One ++ Rate(bond, yield), a, e) /\ Is(bond.coupon // Whole(bond.frequency), m, g)
      /\ \A k \in 1..n : Is(Power(One ++ Rate(bond, yield), k), M, V[k])
  BY DEF Quoted
<1>2. older.coupon = bond.coupon /\ older.frequency = bond.frequency /\ older.years = bond.years - 1
  OBVIOUS
<1> HIDE DEF older
<1>3. n = bond.years /\ _periods(older) = l /\ l \in Nat \ {0} /\ n \in Nat \ {0}
  BY <1>1, <1>2 DEF _periods
<1>4. IsBond(older) /\ Rate(older, yield) = Rate(bond, yield)
  BY <1>1, <1>2 DEF IsBond, Rate
<1>5. \A k \in 1..l : k \in 1..n /\ U[k] = V[k]
  BY <1>3
<1>6. Discounts(U, l, M, a, e)
  <2>1. /\ V \in [1..n -> Nat \ {0}] /\ M \in Nat \ {0} /\ a \in Nat \ {0} /\ e \in Nat \ {0}
        /\ \A k \in 1..n : a * V[k] = e * (IF k = 1 THEN M ELSE V[k - 1])
    BY <1>1 DEF Discounts
  <2>2. U \in [1..l -> Nat \ {0}]
    BY <1>5, <2>1
  <2>3. ASSUME NEW k \in 1..l
        PROVE  a * U[k] = e * (IF k = 1 THEN M ELSE U[k - 1])
    <3>1. a * V[k] = e * (IF k = 1 THEN M ELSE V[k - 1])
      BY <1>5, <2>1
    <3>2. k # 1 => k - 1 \in 1..l
      BY <1>3
    <3>3. (IF k = 1 THEN M ELSE V[k - 1]) = (IF k = 1 THEN M ELSE U[k - 1])
      BY <1>5, <3>2
    <3> HIDE DEF U
    <3> QED
      BY <1>5, <3>1, <3>3
  <2> QED
    BY <1>3, <2>1, <2>2, <2>3 DEF Discounts
<1> HIDE DEF U, l
<1>7. \A k \in 1..l : Is(Power(One ++ Rate(older, yield), k), M, U[k])
  BY <1>1, <1>4, <1>5
<1>8. Is(older.coupon // Whole(older.frequency), m, g)
  BY <1>1, <1>2
<1>9. Is(bond_price(older, yield), PricedAt(U, l, m, g), g * M)
  BY ONLY <1>3, <1>4, <1>6, <1>7, <1>8, BondIs
<1>10. PricedAt(U, l, m, g) = PricedAt(V, l, m, g)
  <2>1. \A k \in 1..l : U[k] \in Int /\ U[k] = V[k]
    BY <1>5, <1>6, DiscountStep
  <2>2. IsFiniteSet(1..l)
    BY <1>3, FS_Interval
  <2>3. Total(U, 1..l) = Total(V, 1..l)
    BY ONLY <2>1, <2>2, SumAgrees
  <2>4. U[l] = V[l]
    BY <1>3, <1>5
  <2> QED
    BY <2>3, <2>4 DEF PricedAt
<1> QED
  BY <1>9, <1>10 DEF older, l

\* A bond at an unchanged yield earns it over a period.
LEMMA EarnsItsYield ==
  ASSUME NEW bond, NEW yield, NEW V, NEW n, NEW M, NEW a, NEW e, NEW m, NEW g,
         Quoted(bond, yield, V, n, M, a, e, m, g),
         bond \in [coupon : Rationals, years : Nat \ {0}, frequency : Nat \ {0}],
         bond.frequency = 1, bond.years > 1
  PROVE  LET older == [bond EXCEPT !.years = @ - 1]
         IN holding_period_yield(bond_price(bond, yield), bond_price(older, yield), bond.coupon) = yield
<1> DEFINE f == bond.frequency
           c == bond.coupon
           d == g * M
           p == PricedAt(V, n, m, g)
           q == PricedAt(V, n - 1, m, g)
           older == [bond EXCEPT !.years = @ - 1]
           price == bond_price(bond, yield)
           sale == bond_price(older, yield)
<1>1. /\ n \in Nat \ {0} /\ m \in Nat /\ g \in Nat \ {0} /\ f = 1 /\ n = bond.years * f
      /\ M \in Nat \ {0} /\ a \in Nat \ {0} /\ e \in Nat \ {0} /\ d \in Nat \ {0}
      /\ Is(yield, (a - e) * f, e) /\ Is(c, m * f, g) /\ Is(price, p, d)
  BY QuotedIs
<1>2. p \in Nat \ {0} /\ Discounts(V, n, M, a, e)
  BY QuotedPrice
<1>3. Is(sale, q, d)
  BY OlderIs
<1>4. q \in Int
  BY <1>3 DEF Is
<1>5. n > 1
  BY <1>1
<1>6. a * p = e * q + e * (m * M)
  <2> DEFINE l == n
  <2>1. l \in Nat \ {0} /\ l > 1 /\ Discounts(V, l, M, a, e) /\ m \in Nat /\ g \in Nat \ {0}
    BY <1>1, <1>2, <1>5
  <2> HIDE DEF l
  <2>2. a * PricedAt(V, l, m, g) = e * PricedAt(V, l - 1, m, g) + e * (m * M)
    BY ONLY <2>1, PricedLater
  <2> QED
    BY <2>2 DEF l
<1> HIDE DEF f, c, p, q, price, sale
<1>7. Is(yield, a - e, e) /\ Is(c, m * M, d)
  <2>1. Is(c, (m * f) * M, g * M)
    BY <1>1, IsScaled
  <2> QED
    BY <1>1, <2>1
<1> HIDE DEF d
<1>8. Is(sale ++ c, q + m * M, d)
  BY <1>3, <1>7, PlusIs
<1>9. Is((sale ++ c) -- price, (q + m * M) - p, d)
  <2>1. Is(Minus(price), -p, d)
    BY <1>1, MinusIs
  <2>2. Is((sale ++ c) ++ Minus(price), (q + m * M) + -p, d)
    BY <1>8, <2>1, PlusIs
  <2>3. (q + m * M) + -p = (q + m * M) - p
    BY <1>1, <1>2, <1>4
  <2> QED
    BY <2>2, <2>3 DEF --
<1> DEFINE x == (q + m * M) - p
<1>10. Is(((sale ++ c) -- price) // price, x * d, d * p)
  <2>1. p > 0
    BY <1>2
  <2> QED
    BY <1>1, <1>9, <2>1, QuotientIs
<1>11. (x * d) * e = (a - e) * (d * p)
  <2>1. x * e = (a - e) * p
    BY <1>1, <1>2, <1>4, <1>6
  <2>2. x \in Int /\ a - e \in Int
    BY <1>1, <1>2, <1>4
  <2> HIDE DEF x
  <2>3. (x * d) * e = d * (x * e) /\ (a - e) * (d * p) = d * ((a - e) * p)
    BY <1>1, <1>2, <2>2
  <2> QED
    BY <2>1, <2>3
<1>12. ((sale ++ c) -- price) // price = yield
  <2>1. a - e \in Int
    BY <1>1
  <2>2. Is(((sale ++ c) -- price) // price, a - e, e)
    BY <1>1, <1>10, <1>11, <2>1, IsAlso
  <2> QED
    BY <1>7, <2>2, IsOrder
<1> QED
  BY <1>12 DEF holding_period_yield, price, sale, c

\* The measures of a bond, each as one fraction of the sums.
LEMMA MeasuresAre ==
  ASSUME NEW bond, NEW yield, NEW V, NEW n, NEW M, NEW a, NEW e, NEW m, NEW g,
         Quoted(bond, yield, V, n, M, a, e, m, g)
  PROVE  LET f == bond.frequency
             p == PricedAt(V, n, m, g)
             w == TimedAt(V, n, m, g)
             z == BentAt(V, n, m, g)
         IN /\ p \in Nat \ {0} /\ w \in Int /\ z \in Int
            /\ Is(macaulay_duration(bond, yield), w, p * f)
            /\ Is(modified_duration(bond, yield), w * e, (p * f) * a)
            /\ Is(convexity(bond, yield), z * (e * e), (p * (a * a)) * (f * f))
<1> DEFINE f == bond.frequency
           d == g * M
           p == PricedAt(V, n, m, g)
           w == TimedAt(V, n, m, g)
           z == BentAt(V, n, m, g)
           u == One ++ Rate(bond, yield)
           price == bond_price(bond, yield)
           timed == Times(bond, yield, LAMBDA period : period)
           bent == Times(bond, yield, LAMBDA period : period * (period + 1))
<1>1. /\ f \in Nat \ {0} /\ a \in Nat \ {0} /\ e \in Nat \ {0} /\ d \in Nat \ {0}
      /\ Is(price, p, d) /\ Is(timed, w, d) /\ Is(bent, z, d)
  BY QuotedIs
<1>2. p \in Nat \ {0}
  BY QuotedPrice
<1>3. Is(u, a, e)
  BY DEF Quoted
<1>4. w \in Int /\ z \in Int
  BY <1>1 DEF Is
<1>5. /\ macaulay_duration(bond, yield) = timed // (price ** Whole(f))
      /\ modified_duration(bond, yield) = macaulay_duration(bond, yield) // u
      /\ convexity(bond, yield) = bent // (price ** Square(u) ** Square(Whole(f)))
  BY DEF macaulay_duration, modified_duration, convexity
<1> HIDE DEF f, d, p, w, z, u, price, timed, bent
<1>6. Is(Whole(f), f, 1)
  BY <1>1, IsWhole
<1> DEFINE one == 1
<1>7. one \in Nat \ {0} /\ one = 1 /\ Is(Whole(f), f, one)
  BY <1>6
<1> HIDE DEF one
<1>8. Is(macaulay_duration(bond, yield), w, p * f)
  <2>1. Is(price ** Whole(f), p * f, d * one)
    BY <1>1, <1>7, TimesIs
  <2>2. p * f \in Nat \ {0} /\ p * f > 0
    BY <1>1, <1>2, ProductIsPositive
  <2> DEFINE q == p * f
  <2> HIDE DEF q
  <2>3. Is(timed // (price ** Whole(f)), w * (d * one), d * q)
    BY <1>1, <2>1, <2>2, QuotientIs DEF q
  <2>4. q \in Nat \ {0} /\ (w * (d * one)) * q = w * (d * q)
    BY <1>1, <1>4, <1>7, <2>2 DEF q
  <2>5. Is(timed // (price ** Whole(f)), w, q)
    BY <1>4, <2>3, <2>4, IsAlso
  <2> QED
    BY <1>5, <2>5 DEF q
<1>9. Is(modified_duration(bond, yield), w * e, (p * f) * a)
  <2>1. a > 0
    BY <1>1
  <2> QED
    BY <1>3, <1>5, <1>8, <2>1, QuotientIs
<1>10. Is(convexity(bond, yield), z * (e * e), (p * (a * a)) * (f * f))
  <2>1. Is(Square(u), a * a, e * e)
    BY <1>3, TimesIs DEF Square
  <2>2. Is(Square(Whole(f)), f * f, one * one)
    BY <1>7, TimesIs DEF Square
  <2> DEFINE s == a * a
             t == e * e
             x == f * f
  <2>3. s \in Nat \ {0} /\ t \in Nat \ {0} /\ x \in Nat \ {0}
    BY <1>1, ProductIsPositive
  <2>4. Is(Square(u), s, t) /\ Is(Square(Whole(f)), x, one * one)
    BY <2>1, <2>2
  <2> HIDE DEF s, t, x
  <2>5. Is(price ** Square(u), p * s, d * t)
    BY <1>1, <2>4, TimesIs
  <2>6. Is(price ** Square(u) ** Square(Whole(f)), (p * s) * x, (d * t) * (one * one))
    BY <2>4, <2>5, TimesIs
  <2> DEFINE q == (p * s) * x
             r == (d * t) * (one * one)
  <2>7. q \in Nat \ {0} /\ q > 0 /\ r = d * t
    <3>1. p * s \in Nat \ {0}
      BY <1>2, <2>3, ProductIsPositive
    <3>2. q \in Nat \ {0}
      BY <2>3, <3>1, ProductIsPositive
    <3>3. d * t \in Nat
      BY <1>1, <2>3, ProductIsPositive
    <3> QED
      BY <1>7, <3>2, <3>3
  <2>8. Is(price ** Square(u) ** Square(Whole(f)), q, r)
    BY <2>6
  <2> HIDE DEF q, r
  <2>9. Is(bent // (price ** Square(u) ** Square(Whole(f))), z * r, d * q)
    BY <1>1, <2>7, <2>8, QuotientIs
  <2>10. (z * r) * q = (z * t) * (d * q) /\ z * t \in Int
    BY <1>1, <1>4, <2>3, <2>7
  <2>11. Is(convexity(bond, yield), z * t, q)
    BY <1>5, <2>7, <2>9, <2>10, IsAlso
  <2> QED
    BY <2>11 DEF q, s, t, x
<1> QED
  BY <1>2, <1>4, <1>8, <1>9, <1>10 DEF f, p, w, z

\* A bond pays on average before it matures, a bond of one payment then.
LEMMA DurationIsLife ==
  ASSUME NEW bond, NEW yield, NEW V, NEW n, NEW M, NEW a, NEW e, NEW m, NEW g,
         Quoted(bond, yield, V, n, M, a, e, m, g)
  PROVE  /\ macaulay_duration(bond, yield) \preceq Whole(bond.years)
         /\ macaulay_duration(bond, yield) = Whole(bond.years)
              <=> bond.coupon = Zero \/ _periods(bond) = 1
<1> DEFINE f == bond.frequency
           p == PricedAt(V, n, m, g)
           w == TimedAt(V, n, m, g)
           years == bond.years
<1>1. /\ n \in Nat \ {0} /\ m \in Nat /\ g \in Nat \ {0} /\ f \in Nat \ {0} /\ n = years * f
      /\ Is(bond.coupon, m * f, g)
  BY QuotedIs
<1>2. p \in Nat \ {0} /\ w \in Int /\ Is(macaulay_duration(bond, yield), w, p * f)
  BY MeasuresAre
<1>3. IsBond(bond) /\ n = _periods(bond) /\ Discounts(V, n, M, a, e)
  BY DEF Quoted
<1>4. years \in Nat \ {0}
  BY <1>3 DEF IsBond
<1>5. w <= n * p /\ (w = n * p <=> m = 0 \/ n = 1)
  <2> DEFINE l == n
  <2>1. l \in Nat \ {0} /\ Discounts(V, l, M, a, e) /\ m \in Nat /\ g \in Nat \ {0}
    BY <1>1, <1>3
  <2> HIDE DEF l
  <2>2. /\ TimedAt(V, l, m, g) <= l * PricedAt(V, l, m, g)
        /\ TimedAt(V, l, m, g) = l * PricedAt(V, l, m, g) <=> m = 0 \/ l = 1
    BY ONLY <2>1, TimedIs
  <2> QED
    BY <2>2 DEF l
<1> HIDE DEF p, w, f, years
<1>6. Is(Whole(years), n * p, p * f)
  <2> DEFINE q == p * f
  <2>1. Is(Whole(years), years, 1) /\ q \in Nat \ {0}
    BY <1>1, <1>2, <1>4, IsWhole, ProductIsPositive
  <2>2. n * p = years * q /\ n * p \in Int
    BY <1>1, <1>2, <1>4
  <2> HIDE DEF q
  <2>3. years * q = (n * p) * 1
    BY <2>2
  <2>4. Is(Whole(years), n * p, q)
    BY <2>1, <2>2, <2>3, IsAlso
  <2> QED
    BY <2>4 DEF q
<1>7. bond.coupon = Zero <=> m = 0
  <2>1. bond.coupon = Zero <=> m * f = 0
    BY <1>1, PositiveIs
  <2>2. m * f = 0 <=> m = 0
    <3>1. m # 0 => m * f # 0
      BY <1>1, ProductIsPositive
    <3> QED
      BY <1>1, <3>1
  <2> QED
    BY <2>1, <2>2
<1>8. /\ macaulay_duration(bond, yield) \preceq Whole(years) <=> w <= n * p
      /\ macaulay_duration(bond, yield) = Whole(years) <=> w = n * p
  BY <1>2, <1>6, IsOrder
<1> QED
  BY <1>3, <1>5, <1>7, <1>8 DEF years

\* The line and the curve between two yields of a bond.
LEMMA TwoQuotes ==
  ASSUME NEW bond, NEW yield, NEW other, NEW V, NEW W, NEW n, NEW M, NEW a, NEW b, NEW e,
         NEW m, NEW g, Quoted(bond, yield, V, n, M, a, e, m, g),
         Quoted(bond, other, W, n, M, b, e, m, g)
  PROVE  LET p == PricedAt(V, n, m, g)
             q == PricedAt(W, n, m, g)
             w == TimedAt(V, n, m, g)
             z == BentAt(V, n, m, g)
             line == a * q - a * p + (b - a) * w
             curve == 2 * (a * line) - ((b - a) * (b - a)) * z
         IN /\ w \in Nat \ {0} /\ line \in Nat
            /\ a <= b => curve <= 0
            /\ b <= a => curve >= 0
<1> DEFINE l == n
           x == W
           y == V
<1>1. /\ l \in Nat \ {0} /\ m \in Nat /\ g \in Nat \ {0}
      /\ Discounts(y, l, M, a, e) /\ Discounts(x, l, M, b, e)
  <2>1. n \in Nat \ {0} /\ m \in Nat /\ g \in Nat \ {0}
    BY QuotedIs
  <2> QED
    BY <2>1 DEF Quoted
<1> HIDE DEF l, x, y
<1>2. TimedAt(y, l, m, g) \in Nat \ {0}
  BY ONLY <1>1, TimedIs
<1> DEFINE line == a * PricedAt(x, l, m, g) - a * PricedAt(y, l, m, g) + (b - a) * TimedAt(y, l, m, g)
           curve == 2 * (a * line) - ((b - a) * (b - a)) * BentAt(y, l, m, g)
<1>3. line \in Nat /\ (a <= b => curve <= 0) /\ (b <= a => curve >= 0)
  BY ONLY <1>1, PricesMove
<1> QED
  BY <1>2, <1>3 DEF l, x, y

\* Two yields are one price only if they are one yield.
LEMMA YieldsAreApart ==
  ASSUME NEW bond, NEW yield, NEW other, NEW V, NEW W, NEW n, NEW M, NEW a, NEW b, NEW e,
         NEW m, NEW g, Quoted(bond, yield, V, n, M, a, e, m, g),
         Quoted(bond, other, W, n, M, b, e, m, g),
         bond_price(bond, other) = bond_price(bond, yield)
  PROVE  other = yield
<1> DEFINE p == PricedAt(V, n, m, g)
           q == PricedAt(W, n, m, g)
           w == TimedAt(V, n, m, g)
           x == TimedAt(W, n, m, g)
           d == g * M
           f == bond.frequency
<1>1. /\ a \in Nat \ {0} /\ e \in Nat \ {0} /\ f \in Nat \ {0}
      /\ Is(yield, (a - e) * f, e) /\ Is(bond_price(bond, yield), p, d)
  BY ONLY QuotedIs, Quoted(bond, yield, V, n, M, a, e, m, g)
<1>2. b \in Nat \ {0} /\ Is(other, (b - e) * f, e) /\ Is(bond_price(bond, other), q, d)
  BY ONLY QuotedIs, Quoted(bond, other, W, n, M, b, e, m, g)
<1>3. w \in Nat \ {0} /\ a * q - a * p + (b - a) * w \in Nat
  BY ONLY TwoQuotes, Quoted(bond, yield, V, n, M, a, e, m, g), Quoted(bond, other, W, n, M, b, e, m, g)
<1>4. x \in Nat \ {0} /\ b * p - b * q + (a - b) * x \in Nat
  BY ONLY TwoQuotes, Quoted(bond, yield, V, n, M, a, e, m, g), Quoted(bond, other, W, n, M, b, e, m, g)
<1> HIDE DEF p, q, w, x, d, f
<1>5. p = q /\ p \in Int
  <2>1. p = q
    BY <1>1, <1>2, IsOrder
  <2> QED
    BY <1>1, <2>1 DEF Is
<1>6. b - a >= 0
  <2>1. (b - a) * w >= 0
    BY <1>1, <1>2, <1>3, <1>5
  <2> DEFINE h == b - a
  <2>2. h \in Int /\ w * h >= 0
    BY <1>1, <1>2, <1>3, <2>1
  <2> HIDE DEF h
  <2>3. h >= 0
    BY <1>3, <2>2, FactorKeepsSign
  <2> QED
    BY <2>3 DEF h
<1>7. a - b >= 0
  <2>1. (a - b) * x >= 0
    BY <1>1, <1>2, <1>4, <1>5
  <2> DEFINE h == a - b
  <2>2. h \in Int /\ x * h >= 0
    BY <1>1, <1>2, <1>4, <2>1
  <2> HIDE DEF h
  <2>3. h >= 0
    BY <1>4, <2>2, FactorKeepsSign
  <2> QED
    BY <2>3 DEF h
<1>8. a = b
  BY <1>1, <1>2, <1>6, <1>7
<1> QED
  BY <1>1, <1>2, <1>8, IsOrder

\* What a change of yield does to a price is above the line of the duration, and
\* on the curve's side of it.
LEMMA MovesAreBounded ==
  ASSUME NEW bond, NEW yield, NEW other, NEW V, NEW W, NEW n, NEW M, NEW a, NEW b, NEW e,
         NEW m, NEW g, Quoted(bond, yield, V, n, M, a, e, m, g),
         Quoted(bond, other, W, n, M, b, e, m, g)
  PROVE  LET price == bond_price(bond, yield)
             change == other -- yield
             actual == (bond_price(bond, other) -- price) // price
         IN /\ Minus(modified_duration(bond, yield) ** change) \preceq actual
            /\ Zero \prec change => actual \preceq price_change_percent(bond, yield, change)
            /\ change \prec Zero => price_change_percent(bond, yield, change) \preceq actual
<1> DEFINE p == PricedAt(V, n, m, g)
           q == PricedAt(W, n, m, g)
           w == TimedAt(V, n, m, g)
           z == BentAt(V, n, m, g)
           d == g * M
           f == bond.frequency
           h == b - a
           line == a * q - a * p + h * w
           curve == 2 * (a * line) - (h * h) * z
           price == bond_price(bond, yield)
           paid == bond_price(bond, other)
           change == other -- yield
           actual == (paid -- price) // price
           modified == modified_duration(bond, yield)
           bend == convexity(bond, yield)
<1>1. /\ a \in Nat \ {0} /\ e \in Nat \ {0} /\ f \in Nat \ {0} /\ d \in Nat \ {0}
      /\ Is(yield, (a - e) * f, e) /\ Is(price, p, d)
  BY ONLY QuotedIs, Quoted(bond, yield, V, n, M, a, e, m, g)
<1>2. b \in Nat \ {0} /\ Is(other, (b - e) * f, e) /\ Is(paid, q, d)
  BY ONLY QuotedIs, Quoted(bond, other, W, n, M, b, e, m, g)
<1>3. line \in Nat /\ (a <= b => curve <= 0) /\ (b <= a => curve >= 0)
  BY ONLY TwoQuotes, Quoted(bond, yield, V, n, M, a, e, m, g), Quoted(bond, other, W, n, M, b, e, m, g)
<1>4. /\ p \in Nat \ {0} /\ w \in Int /\ z \in Int
      /\ Is(modified, w * e, (p * f) * a) /\ Is(bend, z * (e * e), (p * (a * a)) * (f * f))
  BY MeasuresAre
<1>5. price_change_percent(bond, yield, change)
        = Q(1, 2) ** bend ** Square(change) -- modified ** change
  BY DEF price_change_percent
<1>6. q \in Int /\ h \in Int
  BY <1>1, <1>2 DEF Is
<1> HIDE DEF p, q, w, z, d, f, price, paid, modified, bend
<1>7. line = a * q - a * p + h * w /\ curve = 2 * (a * line) - (h * h) * z /\ h = b - a
  OBVIOUS
<1>8. Is(change, h * f, e)
  <2>1. Is(Minus(yield), -((a - e) * f), e)
    BY <1>1, MinusIs
  <2>2. Is(other ++ Minus(yield), (b - e) * f + -((a - e) * f), e)
    BY <1>2, <2>1, PlusIs
  <2>3. (b - e) * f + -((a - e) * f) = h * f
    BY <1>1, <1>2
  <2> QED
    BY <2>2, <2>3 DEF --
<1> HIDE DEF change, line, curve, h
<1>9. Is(actual, q - p, p)
  <2>1. Is(Minus(price), -p, d)
    BY <1>1, MinusIs
  <2>2. Is(paid ++ Minus(price), q + -p, d)
    BY <1>2, <2>1, PlusIs
  <2>3. q + -p = q - p /\ p > 0 /\ q - p \in Int
    BY <1>4, <1>6
  <2>4. Is(actual, (q - p) * d, d * p)
    BY <1>1, <2>2, <2>3, QuotientIs DEF --
  <2>5. ((q - p) * d) * p = (q - p) * (d * p)
    BY <1>1, <1>4, <2>3
  <2> QED
    BY <1>4, <2>3, <2>4, <2>5, IsAlso
<1> HIDE DEF actual
<1>10. Is(modified ** change, w * h, p * a)
  <2>1. Is(modified ** change, (w * e) * (h * f), ((p * f) * a) * e)
    BY <1>4, <1>8, TimesIs
  <2>2. p * a \in Nat \ {0} /\ w * h \in Int
    BY <1>1, <1>4, <1>6, ProductIsPositive
  <2>3. ((w * e) * (h * f)) * (p * a) = (w * h) * (((p * f) * a) * e)
    BY <1>1, <1>4, <1>6
  <2> QED
    BY <2>1, <2>2, <2>3, IsAlso
<1> DEFINE s == 2 * (p * (a * a))
           k == 2 * a
<1>11. k \in Nat \ {0} /\ (p * a) * k = s /\ s \in Nat \ {0}
  <2>1. (p * a) * k = s /\ k \in Nat \ {0}
    BY <1>1, <1>4
  <2>2. p * a \in Nat \ {0}
    BY <1>1, <1>4, ProductIsPositive
  <2> HIDE DEF k, s
  <2>3. (p * a) * k \in Nat \ {0}
    BY <2>1, <2>2, ProductIsPositive
  <2> QED
    BY <2>1, <2>3
<1>12. Is(Q(1, 2) ** bend ** Square(change), z * (h * h), s)
  <2> DEFINE t == e * e
             x == f * f
             r == p * (a * a)
             y == h * h
  <2>1. t \in Nat \ {0} /\ x \in Nat \ {0} /\ r \in Nat \ {0} /\ y \in Int /\ s = 2 * r
    <3>1. t \in Nat \ {0} /\ x \in Nat \ {0} /\ a * a \in Nat \ {0}
      BY <1>1, ProductIsPositive
    <3>2. r \in Nat \ {0}
      BY <1>4, <3>1, ProductIsPositive
    <3> QED
      BY <1>6, <3>1, <3>2
  <2>2. Is(Q(1, 2) ** bend, 1 * (z * t), 2 * (r * x))
    BY <1>4, HalfIs, TimesIs
  <2>3. Is(Square(change), (h * f) * (h * f), t)
    BY <1>8, TimesIs DEF Square
  <2>4. (h * f) * (h * f) = y * x
    BY <1>1, <1>6
  <2> HIDE DEF t, x, r, y
  <2>5. Is(Square(change), y * x, t)
    BY <2>3, <2>4
  <2>6. Is(Q(1, 2) ** bend ** Square(change), (1 * (z * t)) * (y * x), (2 * (r * x)) * t)
    BY <2>2, <2>5, TimesIs
  <2>7. ((1 * (z * t)) * (y * x)) * (2 * r) = (z * y) * ((2 * (r * x)) * t)
    BY <1>4, <2>1
  <2>8. z * y \in Int /\ 2 * r \in Nat \ {0}
    BY <1>4, <2>1
  <2>9. Is(Q(1, 2) ** bend ** Square(change), z * y, 2 * r)
    BY <2>6, <2>7, <2>8, IsAlso
  <2> QED
    BY <2>1, <2>9 DEF y
<1>13. Is(modified ** change, (w * h) * k, s)
  BY <1>10, <1>11, IsScaled
<1> DEFINE i == z * (h * h) - (w * h) * k
           j == (q - p) * (2 * (a * a))
<1>14. Is(price_change_percent(bond, yield, change), i, s)
  <2>1. Is(Minus(modified ** change), -((w * h) * k), s)
    BY <1>13, MinusIs
  <2>2. Is(price_change_percent(bond, yield, change), z * (h * h) + -((w * h) * k), s)
    BY <1>5, <1>12, <2>1, PlusIs DEF --
  <2>3. z * (h * h) + -((w * h) * k) = i
    BY <1>4, <1>6, <1>11
  <2> QED
    BY <2>2, <2>3
<1>15. Is(actual, j, s)
  <2>1. 2 * (a * a) \in Nat \ {0} /\ p * (2 * (a * a)) = s
    <3>1. a * a \in Nat \ {0}
      BY <1>1, ProductIsPositive
    <3> QED
      BY <1>4, <3>1
  <2>2. Is(actual, (q - p) * (2 * (a * a)), p * (2 * (a * a)))
    BY <1>9, <2>1, IsScaled
  <2> QED
    BY <2>1, <2>2
<1>16. j - i = curve /\ i \in Int /\ j \in Int
  <2>1. i \in Int /\ j \in Int /\ line \in Int
    BY <1>1, <1>3, <1>4, <1>6, <1>11
  <2>2. curve = 2 * (a * (a * q - a * p + h * w)) - (h * h) * z
    BY <1>7
  <2>3. 2 * (a * (a * q - a * p + h * w)) - (h * h) * z = j - i
    BY <1>1, <1>4, <1>6
  <2> QED
    BY <2>1, <2>2, <2>3
<1>17. Is(Minus(modified ** change), -(w * h), p * a)
  BY <1>10, MinusIs
<1>18. Is(actual, (q - p) * a, p * a)
  BY <1>1, <1>9, IsScaled
<1>19. -(w * h) <= (q - p) * a
  <2>1. line = (q - p) * a + w * h /\ (q - p) * a \in Int /\ w * h \in Int
    BY <1>1, <1>4, <1>6, <1>7
  <2> QED
    BY <1>3, <2>1
<1>20. (Zero \prec change <=> h > 0) /\ (change \prec Zero <=> h < 0)
  <2>1. h * f = f * h /\ h * f \in Int
    BY <1>1, <1>6
  <2>2. (f * h > 0 <=> h > 0) /\ (f * h = 0 <=> h = 0)
    BY <1>1, <1>6, FactorKeepsSign
  <2> QED
    BY <1>6, <1>8, <2>1, <2>2, PositiveIs
<1> HIDE DEF i, j, s, k
<1>21. Minus(modified ** change) \preceq actual
  BY <1>17, <1>18, <1>19, IsOrder
<1>22. ASSUME Zero \prec change PROVE actual \preceq price_change_percent(bond, yield, change)
  <2>1. a <= b
    BY <1>1, <1>2, <1>7, <1>20, <1>22
  <2>2. j <= i
    BY <1>3, <1>16, <2>1
  <2> QED
    BY <1>14, <1>15, <2>2, IsOrder
<1>23. ASSUME change \prec Zero PROVE price_change_percent(bond, yield, change) \preceq actual
  <2>1. b <= a
    BY <1>1, <1>2, <1>7, <1>20, <1>23
  <2>2. i <= j
    BY <1>3, <1>16, <2>1
  <2> QED
    BY <1>14, <1>15, <2>2, IsOrder
<1> QED
  BY <1>21, <1>22, <1>23 DEF price, paid, change, actual, modified

\* A growth the bracket of the search allows is positive.
LEMMA GrowthIsPositive ==
  ASSUME NEW bond, IsBond(bond), NEW yield \in Rationals, Q(-99, 100) \preceq yield
  PROVE  One ++ Rate(bond, yield) \in Rationals /\ Zero \prec One ++ Rate(bond, yield)
<1> DEFINE f == bond.frequency
           x == -99
           k == 100
<1>1. f \in Nat \ {0} /\ x \in Int /\ k \in Nat \ {0} /\ x + k > 0 /\ x < 0
  BY DEF IsBond
<1>2. Q(x, k) \preceq yield
  OBVIOUS
<1> HIDE DEF f, x, k
<1>3. PICK i \in Int, j \in Nat \ {0} : Is(yield, i, j)
  BY IsCommon
<1>4. x * j <= i * k
  <2>1. Is(Q(x, k), x, k)
    BY <1>1, QIs
  <2>2. Is(Q(x, k), x * j, k * j)
    BY <1>3, <2>1, IsScaled
  <2>3. Is(yield, i * k, j * k)
    BY <1>1, <1>3, IsScaled
  <2>4. j * k = k * j
    BY <1>1, <1>3
  <2>5. Is(yield, i * k, k * j)
    BY <2>3, <2>4
  <2> QED
    BY <1>2, <2>2, <2>5, IsOrder
<1> DEFINE d == j * f
<1>5. d \in Nat \ {0} /\ d >= j
  <2>1. d \in Nat \ {0}
    BY <1>1, <1>3, ProductIsPositive
  <2> DEFINE h == f - 1
  <2>2. h \in Nat
    BY <1>1
  <2> HIDE DEF h
  <2>3. j * h \in Nat
    BY <1>3, <2>2, ProductIsNat
  <2>4. j * h = d - j
    BY <1>1, <1>3 DEF h
  <2> QED
    BY <1>3, <2>1, <2>3, <2>4
<1>6. d + i > 0
  <2> DEFINE h == j + i
  <2>1. h \in Int /\ k * h = j * k + i * k
    BY <1>1, <1>3
  <2>2. k * h > 0
    <3>1. x * j + j * k = j * (x + k) /\ j * k \in Int /\ x * j \in Int /\ i * k \in Int
      BY <1>1, <1>3
    <3>2. j * (x + k) > 0
      <4>1. x + k \in Nat \ {0}
        BY <1>1
      <4> QED
        BY <1>3, <4>1, ProductIsPositive
    <3> QED
      BY <1>4, <2>1, <3>1, <3>2
  <2> HIDE DEF h
  <2>3. h > 0
    BY <1>1, <2>1, <2>2, FactorKeepsSign
  <2> QED
    BY <1>3, <1>5, <2>3 DEF h
<1> HIDE DEF d
<1>7. Is(yield // Whole(f), i, d)
  BY <1>1, <1>3, ShareIs DEF d
<1>8. Is(One, d, d)
  BY <1>5, ZeroIs
<1>9. Is(One ++ yield // Whole(f), d + i, d) /\ One ++ yield // Whole(f) \in Rationals
  BY <1>7, <1>8, PlusIs
<1>10. Zero \prec One ++ yield // Whole(f)
  BY <1>6, <1>9, PositiveIs
<1> QED
  BY <1>9, <1>10 DEF Rate, f

\* Two yields of a bond, over one denominator.
LEMMA QuotesExist ==
  ASSUME NEW bond, IsBond(bond), NEW yield \in Rationals, NEW other \in Rationals,
         Q(-99, 100) \preceq yield, Q(-99, 100) \preceq other
  PROVE  \E V, W, n, M, a, b, e, m, g :
           /\ Quoted(bond, yield, V, n, M, a, e, m, g)
           /\ Quoted(bond, other, W, n, M, b, e, m, g)
<1> DEFINE u == One ++ Rate(bond, yield)
           x == One ++ Rate(bond, other)
           n == _periods(bond)
           c == bond.coupon // Whole(bond.frequency)
<1>1. u \in Rationals /\ Zero \prec u /\ x \in Rationals /\ Zero \prec x
  BY GrowthIsPositive
<1>2. n \in Nat
  BY ProductIsPositive DEF IsBond, _periods
<1>3. c \in Rationals
  <2>1. bond.coupon \in Rationals /\ bond.frequency \in Nat \ {0}
    BY DEF IsBond
  <2>2. PICK i \in Int, j \in Nat \ {0} : Is(bond.coupon, i, j)
    BY <2>1, IsCommon
  <2> QED
    BY <2>1, <2>2, ShareIs
<1>4. PICK m \in Int, g \in Nat \ {0} : Is(c, m, g)
  BY <1>3, IsCommon
<1> HIDE DEF u, x, n, c
<1>5. PICK V, W, M, a, b, e :
        /\ Discounts(V, n, M, a, e) /\ Discounts(W, n, M, b, e)
        /\ Is(u, a, e) /\ Is(x, b, e)
        /\ \A k \in 1..n : Is(Power(u, k), M, V[k]) /\ Is(Power(x, k), M, W[k])
  BY <1>1, <1>2, DiscountsExist
<1>6. Quoted(bond, yield, V, n, M, a, e, m, g)
  BY <1>4, <1>5 DEF Quoted, u, n, c
<1>7. Quoted(bond, other, W, n, M, b, e, m, g)
  BY <1>4, <1>5 DEF Quoted, x, n, c
<1> QED
  BY <1>6, <1>7

\* What BondsAreFair says of one bond at one yield, and at another.
LEMMA BondIsFair ==
  ASSUME NEW bond \in [coupon : Rationals, years : Nat \ {0}, frequency : Nat \ {0}],
         Zero \preceq bond.coupon, NEW yield \in Rationals, NEW other \in Rationals,
         Q(-99, 100) \preceq yield, Q(-99, 100) \preceq other
  PROVE  LET older == [bond EXCEPT !.years = @ - 1]
             price == bond_price(bond, yield)
             change == other -- yield
             actual == (bond_price(bond, other) -- price) // price
         IN /\ yield = bond.coupon <=> price = One
            /\ price \prec One => current_yield(bond, price) \prec yield
            /\ One \prec price => yield \prec current_yield(bond, price)
            /\ bond_price(bond, other) = price => other = yield
            /\ (bond.frequency = 1 /\ bond.years > 1) =>
                 holding_period_yield(price, bond_price(older, yield), bond.coupon) = yield
            /\ macaulay_duration(bond, yield) \preceq Whole(bond.years)
            /\ macaulay_duration(bond, yield) = Whole(bond.years)
                 <=> bond.coupon = Zero \/ _periods(bond) = 1
            /\ Minus(modified_duration(bond, yield) ** change) \preceq actual
            /\ Zero \prec change => actual \preceq price_change_percent(bond, yield, change)
            /\ change \prec Zero => price_change_percent(bond, yield, change) \preceq actual
<1>1. IsBond(bond)
  BY DEF IsBond
<1>2. PICK V, W, n, M, a, b, e, m, g :
        /\ Quoted(bond, yield, V, n, M, a, e, m, g)
        /\ Quoted(bond, other, W, n, M, b, e, m, g)
  BY <1>1, QuotesExist
<1> QED
  BY <1>2, ParIsCoupon, YieldsAreApart, EarnsItsYield, DurationIsLife, MovesAreBounded

\* At any positive coupon, term and frequency and any yield within the bracket of
\* the search, a bond is at par exactly at its coupon, has one yield, earns it,
\* pays on average no later than it matures, and moves between the line of its
\* duration and the curve of its convexity (fixed_income.py).
THEOREM BondsHold ==
  ASSUME Bonds \subseteq [coupon : Rationals, years : Nat \ {0}, frequency : Nat \ {0}],
         \A bond \in Bonds : Zero \preceq bond.coupon,
         Yields \subseteq Rationals,
         \A yield \in Yields : Q(-99, 100) \preceq yield /\ yield \preceq Whole(10)
  PROVE  BondsAreFair
<1> SUFFICES ASSUME NEW bond \in Bonds, NEW yield \in Yields
    PROVE  LET older == [bond EXCEPT !.years = @ - 1]
               price == bond_price(bond, yield)
           IN /\ yield = bond.coupon <=> price = One
              /\ price \prec One => current_yield(bond, price) \prec yield
              /\ One \prec price => yield \prec current_yield(bond, price)
              /\ {y \in Yields : yield_to_maturity(price, bond, y)} = {yield}
              /\ (bond.frequency = 1 /\ bond.years > 1) =>
                   holding_period_yield(price, bond_price(older, yield), bond.coupon) = yield
              /\ macaulay_duration(bond, yield) \preceq Whole(bond.years)
              /\ macaulay_duration(bond, yield) = Whole(bond.years)
                   <=> bond.coupon = Zero \/ _periods(bond) = 1
              /\ \A other \in Yields :
                   LET change == other -- yield
                       actual == (bond_price(bond, other) -- price) // price
                   IN /\ Minus(modified_duration(bond, yield) ** change) \preceq actual
                      /\ Zero \prec change => actual \preceq price_change_percent(bond, yield, change)
                      /\ change \prec Zero => price_change_percent(bond, yield, change) \preceq actual
  BY DEF BondsAreFair
<1> DEFINE older == [bond EXCEPT !.years = @ - 1]
           price == bond_price(bond, yield)
<1>1. /\ bond \in [coupon : Rationals, years : Nat \ {0}, frequency : Nat \ {0}]
      /\ Zero \preceq bond.coupon
  OBVIOUS
<1>2. \A y \in Yields : y \in Rationals /\ Q(-99, 100) \preceq y /\ y \preceq Whole(10)
  OBVIOUS
<1>3. ASSUME NEW other \in Yields
      PROVE  LET change == other -- yield
                 actual == (bond_price(bond, other) -- price) // price
             IN /\ bond_price(bond, other) = price => other = yield
                /\ Minus(modified_duration(bond, yield) ** change) \preceq actual
                /\ Zero \prec change => actual \preceq price_change_percent(bond, yield, change)
                /\ change \prec Zero => price_change_percent(bond, yield, change) \preceq actual
  <2>1. /\ other \in Rationals /\ Q(-99, 100) \preceq other
        /\ yield \in Rationals /\ Q(-99, 100) \preceq yield
    BY <1>2
  <2> QED
    BY ONLY <1>1, <2>1, BondIsFair
<1>4. /\ yield = bond.coupon <=> price = One
      /\ price \prec One => current_yield(bond, price) \prec yield
      /\ One \prec price => yield \prec current_yield(bond, price)
      /\ (bond.frequency = 1 /\ bond.years > 1) =>
           holding_period_yield(price, bond_price(older, yield), bond.coupon) = yield
      /\ macaulay_duration(bond, yield) \preceq Whole(bond.years)
      /\ macaulay_duration(bond, yield) = Whole(bond.years)
           <=> bond.coupon = Zero \/ _periods(bond) = 1
  <2>1. yield \in Rationals /\ Q(-99, 100) \preceq yield
    BY <1>2
  <2> QED
    BY ONLY <1>1, <2>1, BondIsFair
<1>5. {y \in Yields : yield_to_maturity(price, bond, y)} = {yield}
  <2>1. ASSUME NEW y \in Yields
        PROVE  yield_to_maturity(price, bond, y) <=> y = yield
    <3>1. yield_to_maturity(price, bond, y) => bond_price(bond, y) = price
      BY DEF yield_to_maturity
    <3>2. yield_to_maturity(price, bond, yield)
      BY <1>2 DEF yield_to_maturity
    <3> HIDE DEF price
    <3> QED
      BY <1>3, <3>1, <3>2
  <2> QED
    BY <2>1
<1> QED
  BY <1>3, <1>4, <1>5
-----------------------------------------------------------------------------
(* What the optimizer is told of two names, over common denominators.      *)

Framed(mu, sigma, x, y, F, A, B, C, E) ==
  /\ mu = <<mu[1], mu[2]>> /\ Is(mu[1], x, F) /\ Is(mu[2], y, F)
  /\ sigma = <<<<sigma[1][1], sigma[1][2]>>, <<sigma[1][2], sigma[2][2]>>>>
  /\ Is(sigma[1][1], A, E) /\ Is(sigma[2][2], B, E) /\ Is(sigma[1][2], C, E)
  /\ Semi(A, B, C)

LEMMA PointIs ==
  ASSUME NEW mu, NEW sigma, NEW x, NEW y, NEW F, NEW A, NEW B, NEW C, NEW E,
         Framed(mu, sigma, x, y, F, A, B, C, E), NEW g, NEW G, NEW D, Is(g, G, D)
  PROVE  LET p == Point(g, mu, sigma)
         IN /\ p.weights = <<g, One -- g>>
            /\ Is(One -- g, D - G, D)
            /\ Is(p.return, G * x + (D - G) * y, D * F)
            /\ Is(p.variance, Quad(A, B, C, G, D - G), (D * D) * E)
            /\ p = [weights |-> p.weights, return |-> p.return, variance |-> p.variance]
            /\ p.return \in Rationals /\ p.variance \in Rationals
<1> DEFINE h == One -- g
           H == D - G
           w == <<g, h>>
           m == mu[1]
           n == mu[2]
           a == sigma[1][1]
           b == sigma[2][2]
           c == sigma[1][2]
           p == Point(g, mu, sigma)
<1>1. /\ mu = <<m, n>> /\ Is(m, x, F) /\ Is(n, y, F) /\ sigma = <<<<a, c>>, <<c, b>>>>
      /\ Is(a, A, E) /\ Is(b, B, E) /\ Is(c, C, E)
  BY DEF Framed
<1>2. /\ p = [weights |-> w, return |-> expected_portfolio_return(w, mu),
              variance |-> portfolio_variance(w, sigma)]
  BY DEF Point
<1>3. p.weights = w /\ p.return = Dot(w, mu) /\ p.variance = portfolio_variance(w, sigma)
  BY <1>2 DEF expected_portfolio_return
<1>4. /\ g \in Rationals /\ m \in Rationals /\ n \in Rationals /\ a \in Rationals /\ b \in Rationals
      /\ c \in Rationals /\ G \in Int /\ D \in Nat \ {0} /\ x \in Int /\ y \in Int
      /\ F \in Nat \ {0} /\ A \in Int /\ B \in Int /\ C \in Int /\ E \in Nat \ {0}
  BY <1>1 DEF Is
<1>5. Is(h, H, D) /\ h \in Rationals /\ H \in Int
  <2>1. Is(One, D, D)
    BY <1>4, ZeroIs
  <2>2. Is(Minus(g), -G, D)
    BY MinusIs
  <2>3. Is(One ++ Minus(g), D + -G, D) /\ One ++ Minus(g) \in Rationals
    BY <2>1, <2>2, PlusIs
  <2>4. D + -G = H /\ H \in Int
    BY <1>4
  <2> QED
    BY <2>3, <2>4 DEF --
<1>6. portfolio_variance(w, sigma) = Dot(w, <<Dot(sigma[1], w), Dot(sigma[2], w)>>)
  BY DEF portfolio_variance, Both
<1>7. sigma[1] = <<a, c>> /\ sigma[2] = <<c, b>>
  BY <1>1
<1> HIDE DEF h, H, m, n, a, b, c, p
<1>8. Is(p.return, G * x + H * y, D * F) /\ p.return \in Rationals
  <2>1. p.return = g ** m ++ h ** n
    BY <1>1, <1>3, <1>4, <1>5, DotOfTwo
  <2>2. Is(g ** m, G * x, D * F) /\ Is(h ** n, H * y, D * F)
    BY <1>1, <1>5, TimesIs
  <2> QED
    BY <2>1, <2>2, PlusIs
<1>9. Is(p.variance, Quad(A, B, C, G, H), (D * D) * E) /\ p.variance \in Rationals
  <2> DEFINE d == Dot(<<a, c>>, w)
             e == Dot(<<c, b>>, w)
  <2>1. d = a ** g ++ c ** h /\ e = c ** g ++ b ** h
    BY <1>4, <1>5, DotOfTwo
  <2>2. Is(a ** g, A * G, E * D) /\ Is(c ** h, C * H, E * D) /\ Is(c ** g, C * G, E * D) /\ Is(b ** h, B * H, E * D)
    BY <1>1, <1>5, TimesIs
  <2> HIDE DEF d, e
  <2>3. /\ Is(d, A * G + C * H, E * D) /\ d \in Rationals
        /\ Is(e, C * G + B * H, E * D) /\ e \in Rationals
    BY <2>1, <2>2, PlusIs
  <2>4. Dot(w, <<d, e>>) = g ** d ++ h ** e
    BY <1>4, <1>5, <2>3, DotOfTwo
  <2>5. Is(g ** d, G * (A * G + C * H), D * (E * D)) /\ Is(h ** e, H * (C * G + B * H), D * (E * D))
    BY <1>5, <2>3, TimesIs
  <2>6. /\ Is(g ** d ++ h ** e, G * (A * G + C * H) + H * (C * G + B * H), D * (E * D))
        /\ g ** d ++ h ** e \in Rationals
    BY <2>5, PlusIs
  <2>7. G * (A * G + C * H) + H * (C * G + B * H) = Quad(A, B, C, G, H)
    BY <1>4, <1>5 DEF Quad
  <2>8. D * (E * D) = (D * D) * E
    BY <1>4
  <2>9. p.variance = Dot(w, <<d, e>>)
    BY <1>3, <1>6, <1>7 DEF d, e
  <2> QED
    BY <2>4, <2>6, <2>7, <2>8, <2>9
<1>10. p = [weights |-> p.weights, return |-> p.return, variance |-> p.variance]
  BY <1>2, <1>3 DEF expected_portfolio_return
<1> QED
  BY <1>3, <1>5, <1>8, <1>9, <1>10 DEF h, H, p

\* The most of a name, and the weight of the first in the portfolio of least
\* risk: of the unbounded one, what the bounds leave.
Bounded(sigma, cap, A, B, C, D, U, L) ==
  /\ D \in Nat \ {0} /\ U \in Int /\ L \in Int
  /\ Is(Smaller(cap, One), U, D) /\ Is(LowestRisk(sigma, cap), L, D)
  /\ U <= D /\ D <= 2 * U /\ D - U <= L /\ L <= U
  /\ (A + B - 2 * C) * L >= (B - C) * D \/ L = U
  /\ (A + B - 2 * C) * L <= (B - C) * D \/ L = D - U

Unbounded(sigma) ==
  (sigma[2][2] -- sigma[1][2]) // (sigma[1][1] ++ sigma[2][2] -- Whole(2) ** sigma[1][2])

LEMMA UnboundedIs ==
  ASSUME NEW mu, NEW sigma, NEW x, NEW y, NEW F, NEW A, NEW B, NEW C, NEW E,
         Framed(mu, sigma, x, y, F, A, B, C, E), A + B - 2 * C > 0, NEW cap
  PROVE  /\ Is(Unbounded(sigma), B - C, A + B - 2 * C) /\ Unbounded(sigma) \in Rationals
         /\ LowestRisk(sigma, cap) = Within(Unbounded(sigma), cap)
<1> DEFINE a == sigma[1][1]
           b == sigma[2][2]
           c == sigma[1][2]
           K == A + B - 2 * C
           one == 1
           two == 2
           curvature == a ++ b -- Whole(2) ** c
<1>1. Is(a, A, E) /\ Is(b, B, E) /\ Is(c, C, E)
  BY DEF Framed
<1>2. A \in Int /\ B \in Int /\ C \in Int /\ E \in Nat \ {0}
  BY <1>1 DEF Is
<1>3. K \in Nat \ {0}
  BY <1>2
<1>4. LowestRisk(sigma, cap) = Within(IF curvature = Zero THEN Q(1, 2) ELSE Unbounded(sigma), cap)
  BY DEF LowestRisk, Unbounded
<1>5. Unbounded(sigma) = (b -- c) // curvature
  BY DEF Unbounded
<1> HIDE DEF a, b, c
<1>6. Is(Whole(two), two, one) /\ one * E = E /\ two * C = 2 * C
  <2>1. two \in Int
    OBVIOUS
  <2>2. Is(Whole(two), two, 1)
    BY ONLY <2>1, IsWhole
  <2> QED
    BY <1>2, <2>2
<1>7. Is(curvature, K, E)
  <2>1. Is(Whole(2) ** c, two * C, one * E)
    <3> HIDE DEF one, two
    <3>1. Is(Whole(two) ** c, two * C, one * E)
      BY <1>1, <1>6, TimesIs
    <3> QED
      BY <3>1 DEF two
  <2>2. Is(Whole(2) ** c, 2 * C, E)
    BY <1>6, <2>1
  <2>3. Is(b -- Whole(2) ** c, B - 2 * C, E)
    BY <1>1, <2>2, DifferenceIs
  <2>4. Is(curvature, A + (B - 2 * C), E)
    BY <1>1, <2>3, PlusIs
  <2>5. A + (B - 2 * C) = K
    BY <1>2
  <2> QED
    BY <2>4, <2>5
<1> HIDE DEF curvature
<1>8. Is(b -- c, B - C, E)
  BY <1>1, DifferenceIs
<1>9. curvature # Zero
  BY <1>3, <1>7, PositiveIs
<1> DEFINE N == B - C
<1>10. N \in Int
  BY <1>2
<1> HIDE DEF N, K
<1>11. Is((b -- c) // curvature, N * E, E * K)
  <2>1. K > 0
    BY <1>3
  <2> QED
    BY <1>7, <1>8, <2>1, QuotientIs DEF N
<1>12. (N * E) * K = N * (E * K)
  BY <1>2, <1>3, <1>10
<1>13. Is((b -- c) // curvature, N, K)
  BY <1>3, <1>10, <1>11, <1>12, IsAlso
<1> QED
  BY <1>4, <1>5, <1>9, <1>13 DEF N, K, Is

LEMMA LowestIs ==
  ASSUME NEW mu, NEW sigma, NEW x, NEW y, NEW F, NEW A, NEW B, NEW C, NEW E,
         Framed(mu, sigma, x, y, F, A, B, C, E), A + B - 2 * C > 0,
         NEW cap \in Rationals, One \preceq Whole(2) ** cap
  PROVE  /\ \E D, U, L : Bounded(sigma, cap, A, B, C, D, U, L)
         /\ Permitted(Unbounded(sigma), cap) => LowestRisk(sigma, cap) = Unbounded(sigma)
<1> DEFINE K == A + B - 2 * C
           m == Unbounded(sigma)
           most == Smaller(cap, One)
           low == LowestRisk(sigma, cap)
<1>1. /\ A \in Int /\ B \in Int /\ C \in Int /\ K \in Nat \ {0}
  <2>1. A \in Int /\ B \in Int /\ C \in Int
    BY DEF Framed, Is
  <2> QED
    BY <2>1
<1>2. Is(m, B - C, K) /\ m \in Rationals /\ low = Within(m, cap)
  BY UnboundedIs
<1> HIDE DEF m, low, K
<1>3. PICK D \in Nat \ {0}, M, N, Z \in Int : Is(cap, N, D) /\ Is(m, M, D) /\ Is(Zero, Z, D)
  <2>1. Zero \in Rationals
    BY ConstantsAreNumbers
  <2> QED
    BY <1>2, <2>1, ThreeOver
<1> DEFINE U == IF N < D THEN N ELSE D
           W == IF U < M THEN U ELSE M
           L == IF D - U < W THEN W ELSE D - U
<1>4. Is(One, D, D)
  BY <1>3, ZeroIs
<1>5. Is(most, U, D)
  BY <1>3, <1>4, LargerIs
<1>6. U \in Int
  BY <1>3
<1>7. low = Larger(One -- most, Smaller(most, m))
  BY <1>2 DEF Within
<1> HIDE DEF most
<1>8. Is(Smaller(most, m), W, D) /\ Is(One -- most, D - U, D)
  <2> HIDE DEF U
  <2> QED
    BY <1>3, <1>4, <1>5, LargerIs, DifferenceIs
<1>9. Is(low, L, D)
  <2> HIDE DEF W, U
  <2> QED
    BY <1>7, <1>8, LargerIs
<1>10. D <= 2 * N
  <2> DEFINE two == 2
             one == 1
  <2>1. two \in Int
    OBVIOUS
  <2>2. Is(Whole(two), two, 1)
    BY ONLY <2>1, IsWhole
  <2>3. Is(Whole(two), two, one) /\ one * D = D /\ two * N = 2 * N
    BY <1>3, <2>2
  <2>4. One \preceq Whole(two) ** cap
    OBVIOUS
  <2> HIDE DEF two, one
  <2>5. Is(Whole(two) ** cap, two * N, one * D)
    BY <1>3, <2>3, TimesIs
  <2>6. Is(Whole(two) ** cap, 2 * N, D)
    BY <2>3, <2>5
  <2> QED
    BY <1>4, <2>4, <2>6, IsOrder
<1>11. U <= D /\ D <= 2 * U /\ D - U <= L /\ L <= U /\ L \in Int
  BY <1>3, <1>10
<1>12. (L >= M \/ L = U) /\ (L <= M \/ L = D - U)
  BY <1>3, <1>10
<1>13. (B - C) * D = M * K
  BY <1>2, <1>3, IsUnique
<1>14. (K * L >= (B - C) * D \/ L = U) /\ (K * L <= (B - C) * D \/ L = D - U)
  <2> DEFINE i == L - M
  <2>1. i \in Int /\ K * L - M * K = K * i
    BY <1>1, <1>3, <1>11
  <2>2. K * L \in Int /\ M * K \in Int
    BY <1>1, <1>3, <1>11
  <2> HIDE DEF i, L, U
  <2>3. (K * i >= 0 <=> i >= 0) /\ (K * i <= 0 <=> i <= 0) /\ K * i \in Int
    BY <1>1, <2>1, FactorKeepsSign
  <2>4. (i >= 0 <=> L >= M) /\ (i <= 0 <=> L <= M)
    BY <1>3, <1>11 DEF i
  <2> QED
    BY <1>12, <1>13, <2>1, <2>2, <2>3, <2>4
<1>15. Bounded(sigma, cap, A, B, C, D, U, L)
  <2> HIDE DEF L, U
  <2> QED
    BY <1>3, <1>5, <1>6, <1>9, <1>11, <1>14 DEF Bounded, K, most, low
<1>16. ASSUME Permitted(m, cap) PROVE low = m
  <2>1. m \preceq cap /\ One -- m \preceq cap /\ Zero \preceq m /\ Zero \preceq One -- m
    BY <1>16 DEF Permitted
  <2>2. Is(One -- m, D - M, D)
    BY <1>3, <1>4, DifferenceIs
  <2>3. M <= N /\ D - M <= N /\ 0 <= M /\ 0 <= D - M
    BY <1>3, <2>1, <2>2, IsOrder, PositiveIs
  <2>4. L = M
    BY <1>3, <2>3
  <2> HIDE DEF L
  <2> QED
    BY <1>3, <1>9, <2>4, IsOrder
<1> QED
  BY <1>15, <1>16 DEF m, low

\* The weight of the first name where the return is highest.
Highest(x, y, D, U) == IF y < x THEN U ELSE D - U

LEMMA AllocationIs ==
  ASSUME NEW cap \in Rationals, One \preceq Whole(2) ** cap, NEW U, NEW D, Is(Smaller(cap, One), U, D)
  PROVE  /\ Larger(Zero, Smaller(cap, One -- Whole(0) ** cap)) = Smaller(cap, One)
         /\ Larger(Zero, Smaller(cap, One -- Whole(1) ** cap)) = One -- Smaller(cap, One)
<1>1. Whole(0) ** cap = Zero /\ Whole(1) ** cap = cap /\ One -- Zero = One
  <2>1. Zero \in Rationals /\ One \in Rationals
    BY ConstantsAreNumbers
  <2>2. Zero ** cap = Zero /\ One ** cap = cap /\ One -- Zero = One
    BY <2>1, TimesLaws, PlusLaws
  <2> QED
    BY <2>2 DEF Zero, One
<1>2. PICK E \in Nat \ {0}, N, M, Z \in Int : Is(cap, N, E) /\ Is(One, M, E) /\ Is(Zero, Z, E)
  <2>1. Zero \in Rationals /\ One \in Rationals
    BY ConstantsAreNumbers
  <2> QED
    BY <2>1, ThreeOver
<1>3. Is(Zero, 0, E) /\ Is(One, E, E)
  BY <1>2, ZeroIs
<1>4. E <= 2 * N
  <2> DEFINE two == 2
             one == 1
  <2>1. two \in Int
    OBVIOUS
  <2>2. Is(Whole(two), two, 1)
    BY ONLY <2>1, IsWhole
  <2>3. Is(Whole(two), two, one) /\ one * E = E /\ two * N = 2 * N
    BY <1>2, <2>2
  <2>4. One \preceq Whole(two) ** cap
    OBVIOUS
  <2> HIDE DEF two, one
  <2>5. Is(Whole(two) ** cap, two * N, one * E)
    BY <1>2, <2>3, TimesIs
  <2>6. Is(Whole(two) ** cap, 2 * N, E)
    BY <2>3, <2>5
  <2> QED
    BY <1>3, <2>4, <2>6, IsOrder
<1> DEFINE V == IF N < E THEN N ELSE E
           W == IF N < E - N THEN N ELSE E - N
           z == 0
           most == Smaller(cap, One)
           rest == Smaller(cap, One -- cap)
<1>5. z \in Int /\ Is(Zero, z, E) /\ V \in Int /\ W \in Int /\ E - N \in Int
  BY <1>2, <1>3
<1>6. Is(most, V, E)
  BY <1>2, <1>3, LargerIs
<1>7. Is(rest, W, E)
  <2>1. Is(One -- cap, E - N, E)
    BY <1>2, <1>3, DifferenceIs
  <2> QED
    BY <1>2, <2>1, LargerIs
<1> HIDE DEF most, rest
<1>8. Is(Larger(Zero, most), IF z < V THEN V ELSE z, E) /\ Is(Larger(Zero, rest), IF z < W THEN W ELSE z, E)
  <2> HIDE DEF V, W, z
  <2> QED
    BY <1>5, <1>6, <1>7, LargerIs
<1>9. (IF z < V THEN V ELSE z) = V /\ (IF z < W THEN W ELSE z) = E - V
  BY <1>2, <1>4
<1>10. Is(One -- most, E - V, E)
  <2> HIDE DEF V
  <2> QED
    BY <1>3, <1>6, DifferenceIs
<1>11. Larger(Zero, most) = most /\ Larger(Zero, rest) = One -- most
  <2> HIDE DEF V, W, z
  <2> QED
    BY <1>6, <1>8, <1>9, <1>10, IsOrder
<1> QED
  BY <1>1, <1>11 DEF most, rest

LEMMA AttainableIs ==
  ASSUME NEW mu, NEW sigma, NEW x, NEW y, NEW F, NEW A, NEW B, NEW C, NEW E,
         Framed(mu, sigma, x, y, F, A, B, C, E), NEW cap \in Rationals,
         One \preceq Whole(2) ** cap, NEW D, NEW U, Is(Smaller(cap, One), U, D)
  PROVE  LET G == Highest(x, y, D, U)
         IN Is(_max_attainable_return(mu, cap), G * x + (D - G) * y, D * F)
<1> DEFINE m == mu[1]
           n == mu[2]
           high == Larger(m, n)
           low == Smaller(m, n)
           best == <<high, low>>
           allocation(i) == Larger(Zero, Smaller(cap, One -- Whole(i - 1) ** cap))
           s == [i \in DOMAIN mu |-> allocation(i) ** best[i]]
           most == Smaller(cap, One)
           rest == One -- most
           X == IF x < y THEN y ELSE x
           Y == IF x < y THEN x ELSE y
           H == D - U
<1>1. mu = <<m, n>> /\ Is(m, x, F) /\ Is(n, y, F)
  BY DEF Framed
<1>2. x \in Int /\ y \in Int /\ F \in Nat \ {0} /\ U \in Int /\ D \in Nat \ {0}
  BY <1>1 DEF Is
<1>3. Is(high, X, F) /\ Is(low, Y, F)
  BY <1>1, LargerIs
<1>4. Is(rest, H, D)
  <2>1. Is(One, D, D)
    BY <1>2, ZeroIs
  <2> HIDE DEF most
  <2>2. Is(most, U, D)
    BY DEF most
  <2> QED
    BY <2>1, <2>2, DifferenceIs
<1>5. allocation(1) = most /\ allocation(2) = rest
  <2>1. 1 - 1 = 0 /\ 2 - 1 = 1
    OBVIOUS
  <2> QED
    BY <2>1, AllocationIs
<1>6. _max_attainable_return(mu, cap) = Sum(s)
  BY DEF _max_attainable_return
<1>7. DOMAIN mu = 1..2
  BY <1>1
<1>8. Is(most, U, D)
  OBVIOUS
<1> HIDE DEF most, rest, high, low, m, n, allocation, X, Y, H
<1>9. s[1] = most ** high /\ s[2] = rest ** low
  BY <1>5, <1>7
<1>10. /\ Is(most ** high, U * X, D * F) /\ most ** high \in Rationals
       /\ Is(rest ** low, H * Y, D * F) /\ rest ** low \in Rationals
  BY <1>3, <1>4, <1>8, TimesIs
<1>11. s \in Seq(Rationals) /\ Len(s) = 2
  <2>1. \A i \in 1..2 : i = 1 \/ i = 2
    OBVIOUS
  <2>2. \A i \in 1..2 : s[i] \in Rationals
    BY <1>9, <1>10, <2>1
  <2>3. s \in [1..2 -> Rationals]
    BY <1>7, <2>2
  <2>4. 2 \in Nat
    OBVIOUS
  <2> HIDE DEF s
  <2> QED
    BY <2>3, <2>4, FunctionIsSequence
<1> HIDE DEF s
<1>12. Is(Sum(s), U * X + H * Y, D * F)
  <2>1. Sum(s) = most ** high ++ rest ** low
    BY <1>9, <1>11, SumOfTwo
  <2> QED
    BY <1>10, <2>1, PlusIs
<1> DEFINE G == Highest(x, y, D, U)
<1>13. U * X + H * Y = G * x + (D - G) * y
  <2>1. CASE y < x
    <3>1. G = U /\ X = x /\ Y = y /\ H = D - U
      BY <1>2, <2>1 DEF Highest, X, Y, H
    <3> QED
      BY <3>1
  <2>2. CASE x < y
    <3>1. G = D - U /\ X = y /\ Y = x /\ H = D - U
      BY <1>2, <2>2 DEF Highest, X, Y, H
    <3>2. D - (D - U) = U
      BY <1>2
    <3> HIDE DEF G
    <3>3. G * x + (D - G) * y = (D - U) * x + U * y
      BY <3>1, <3>2
    <3> QED
      BY <1>2, <3>1, <3>3
  <2>3. CASE x = y
    <3>1. G = D - U /\ X = x /\ Y = x /\ H = D - U
      BY <1>2, <2>3 DEF Highest, X, Y, H
    <3>2. D - (D - U) = U
      BY <1>2
    <3> HIDE DEF G
    <3>3. G * x + (D - G) * y = (D - U) * x + U * x
      BY <2>3, <3>1, <3>2
    <3> QED
      BY <1>2, <3>1, <3>3
  <2> QED
    BY <1>2, <2>1, <2>2, <2>3
<1> QED
  BY <1>6, <1>12, <1>13
-----------------------------------------------------------------------------
(* The frontier.                                                           *)

\* The weight of the first name where the return is so far from one to another.
LEMMA FirstIs ==
  ASSUME NEW m, NEW n, NEW x, NEW y, NEW F, Is(m, x, F), Is(n, y, F), x # y,
         NEW D \in Nat \ {0}, NEW L \in Int, NEW H \in Int, NEW lowest, NEW highest,
         Is(lowest, L * x + (D - L) * y, D * F), Is(highest, H * x + (D - H) * y, D * F),
         NEW N \in Nat \ {0}, NEW j \in Int
  PROVE  Is(((lowest ++ Q(j, N) ** (highest -- lowest)) -- n) // (m -- n), L * (N - j) + H * j, D * N)
<1> DEFINE e == D * F
           l == L * x + (D - L) * y
           h == H * x + (D - H) * y
           c == h - l
           s == x - y
           t == j * c + l * N
           P == L * (N - j) + H * j
           target == lowest ++ Q(j, N) ** (highest -- lowest)
           d == N * e
           z == y * (D * N)
           gap == highest -- lowest
           step == Q(j, N) ** gap
           slope == m -- n
           over == (lowest ++ step) -- n
<1>1. x \in Int /\ y \in Int /\ F \in Nat \ {0} /\ s \in Int /\ s # 0
  <2>1. x \in Int /\ y \in Int /\ F \in Nat \ {0}
    BY DEF Is
  <2> QED
    BY <2>1
<1>2. e \in Nat \ {0} /\ d \in Nat \ {0} /\ D * N \in Nat \ {0}
  <2>1. e \in Nat \ {0} /\ D * N \in Nat \ {0}
    BY <1>1, ProductIsPositive
  <2> HIDE DEF e
  <2>2. d \in Nat \ {0}
    BY <2>1, ProductIsPositive
  <2> QED
    BY <2>1, <2>2
<1>3. Is(lowest, l, e) /\ Is(highest, h, e) /\ l \in Int /\ h \in Int /\ P \in Int
  BY <1>1
<1>4. t - z = P * s /\ t \in Int /\ z \in Int /\ c \in Int
  BY <1>1
<1>5. (F * (D * N)) = d
  BY <1>1
<1>6. slope = m -- n /\ gap = highest -- lowest /\ step = Q(j, N) ** gap
  OBVIOUS
<1> HIDE DEF gap, step, slope, l, h, P, s
<1>7. Is(gap, c, e)
  <2> HIDE DEF e
  <2> QED
    BY <1>3, <1>6, DifferenceIs
<1>8. Is(slope, s, F)
  BY <1>6, DifferenceIs DEF s
<1>9. Is(step, j * c, d)
  <2>1. Is(Q(j, N), j, N)
    BY QIs
  <2> HIDE DEF c, e
  <2> QED
    BY <1>6, <1>7, <2>1, TimesIs
<1>10. Is(n, z, d)
  <2> DEFINE i == D * N
  <2>1. i \in Nat \ {0}
    BY <1>2
  <2> HIDE DEF i
  <2>2. Is(n, y * i, F * i)
    BY <2>1, IsScaled
  <2> QED
    BY <1>5, <2>2 DEF i
<1>11. Is(lowest, l * N, d)
  <2>1. e * N = d
    BY <1>1
  <2> HIDE DEF e, d
  <2>2. Is(lowest, l * N, e * N)
    BY <1>3, IsScaled
  <2> QED
    BY <2>1, <2>2
<1>12. Is(over, P * s, d)
  <2> DEFINE u == j * c
             v == l * N
  <2>1. Is(step, u, d) /\ Is(lowest, v, d) /\ u \in Int /\ v \in Int
    BY <1>3, <1>4, <1>9, <1>11
  <2>2. v + u = t /\ t - z = P * s
    BY <1>3, <1>4
  <2> HIDE DEF u, v, t, z, d
  <2>3. Is(lowest ++ step, v + u, d)
    BY <2>1, PlusIs
  <2>4. Is((lowest ++ step) -- n, t - z, d)
    BY <1>10, <2>2, <2>3, DifferenceIs
  <2> QED
    BY <1>4, <2>2, <2>4
<1>13. over = (lowest ++ Q(j, N) ** (highest -- lowest)) -- n
  BY <1>6
<1> DEFINE i == D * N
           r == P * s
<1>14. d = i * F /\ i \in Nat \ {0} /\ r \in Int /\ r = P * s /\ Is(over, r, d)
  BY <1>1, <1>2, <1>3, <1>12
<1> HIDE DEF over, d, e, c, t, z, i, r
<1>15. CASE s > 0
  <2>1. Is(over // slope, r * F, d * s)
    BY <1>8, <1>14, <1>15, QuotientIs
  <2>2. (r * F) * i = P * (d * s)
    BY <1>1, <1>3, <1>14
  <2>3. Is(over // slope, P, i)
    BY <1>3, <1>14, <2>1, <2>2, IsAlso
  <2> QED
    BY <1>6, <1>13, <2>3 DEF i, P
<1>16. CASE s < 0
  <2>1. Is(Reciprocal(slope), -F, -s)
    BY <1>1, <1>8, <1>16, ReciprocalIs
  <2>2. Is(over ** Reciprocal(slope), r * (-F), d * (-s))
    BY <1>14, <2>1, TimesIs
  <2>3. (r * (-F)) * i = P * (d * (-s))
    BY <1>1, <1>3, <1>14
  <2>4. Is(over // slope, P, i)
    BY <1>3, <1>14, <2>2, <2>3, IsAlso DEF //
  <2> QED
    BY <1>6, <1>13, <2>4 DEF i, P
<1> QED
  BY <1>1, <1>15, <1>16

Points == [weights : Rationals \X Rationals, return : Rationals, variance : Rationals]

\* The weights of the first name along the frontier.
Drawn(frontier, w, mu, sigma, points, H, L, D) ==
  /\ frontier \in [1..points -> Points] /\ frontier \in Seq(Points)
  /\ \A k \in 1..points :
       /\ frontier[k] = Point(w[k], mu, sigma)
       /\ Is(w[k], L * ((points - 1) - (k - 1)) + H * (k - 1), D * (points - 1))

LEMMA FrontierIs ==
  ASSUME NEW mu, NEW sigma, NEW x, NEW y, NEW F, NEW A, NEW B, NEW C, NEW E,
         Framed(mu, sigma, x, y, F, A, B, C, E), x # y, NEW cap \in Rationals,
         One \preceq Whole(2) ** cap, NEW D, NEW U, NEW L, Bounded(sigma, cap, A, B, C, D, U, L),
         NEW points \in Nat \ {0, 1}
  PROVE  /\ (Highest(x, y, D, U) - L) * (x - y) <= 0 =>
              efficient_frontier(mu, sigma, points, cap) = Undefined
         /\ (Highest(x, y, D, U) - L) * (x - y) > 0 =>
              \E w \in [1..points -> Rationals] :
                Drawn(efficient_frontier(mu, sigma, points, cap), w, mu, sigma, points,
                      Highest(x, y, D, U), L, D)
<1> DEFINE H == Highest(x, y, D, U)
           lowest == Point(LowestRisk(sigma, cap), mu, sigma).return
           highest == _max_attainable_return(mu, cap)
           N == points - 1
           w == [k \in 1..points |->
                   ((lowest ++ Q(k - 1, N) ** (highest -- lowest)) -- mu[2]) // (mu[1] -- mu[2])]
           frontier == efficient_frontier(mu, sigma, points, cap)
           f == [k \in 1..points |-> Point(w[k], mu, sigma)]
<1>1. /\ D \in Nat \ {0} /\ L \in Int /\ U \in Int
      /\ Is(Smaller(cap, One), U, D) /\ Is(LowestRisk(sigma, cap), L, D)
  BY DEF Bounded
<1>2. Is(mu[1], x, F) /\ Is(mu[2], y, F)
  BY DEF Framed
<1>3. x \in Int /\ y \in Int /\ F \in Nat \ {0} /\ H \in Int
  BY <1>1, <1>2 DEF Is, Highest
<1>4. Is(highest, H * x + (D - H) * y, D * F)
  BY <1>1, AttainableIs
<1>5. Is(lowest, L * x + (D - L) * y, D * F)
  BY <1>1, PointIs
<1>6. frontier = IF highest \preceq lowest THEN Undefined ELSE Listed(f)
  <2>1. mu[1] # mu[2]
    BY <1>2, IsOrder
  <2>2. ~ (Whole(2) ** cap \prec One)
    <3>1. One \in Rationals
      BY ConstantsAreNumbers
    <3>2. Whole(2) \in Rationals
      <4> DEFINE two == 2
      <4>1. two \in Int
        OBVIOUS
      <4>2. Whole(two) \in Rationals
        BY ONLY <4>1, IsWhole
      <4> QED
        BY <4>2
    <3>3. Whole(2) ** cap \in Rationals
      BY <3>2, Closed
    <3> QED
      BY <3>1, <3>3, Transitive
  <2>3. frontier = Between(lowest, highest, mu, sigma, points)
    <3> HIDE DEF f, w
    <3>1. ~ (mu[1] = mu[2] \/ Whole(2) ** cap \prec One)
      BY <2>1, <2>2
    <3>2. frontier = IF mu[1] = mu[2] \/ Whole(2) ** cap \prec One THEN Undefined
                     ELSE Between(lowest, highest, mu, sigma, points)
      BY ONLY DEF efficient_frontier, frontier, lowest, highest
    <3> HIDE DEF frontier, lowest, highest
    <3> QED
      BY ONLY <3>1, <3>2
  <2>4. \A k \in 1..points : w[k] = ((lowest ++ Q(k - 1, N) ** (highest -- lowest)) -- mu[2]) // (mu[1] -- mu[2])
    OBVIOUS
  <2>5. f = [k \in 1..points |->
               Point(((lowest ++ Q(k - 1, N) ** (highest -- lowest)) -- mu[2]) // (mu[1] -- mu[2]), mu, sigma)]
    BY <2>4
  <2> HIDE DEF f, w, lowest, highest, frontier
  <2>6. Between(lowest, highest, mu, sigma, points)
          = IF highest \preceq lowest THEN Undefined
            ELSE Listed([k \in 1..points |->
               Point(((lowest ++ Q(k - 1, points - 1) ** (highest -- lowest)) -- mu[2]) // (mu[1] -- mu[2]), mu, sigma)])
    BY ONLY DEF Between
  <2> QED
    BY ONLY <2>3, <2>5, <2>6
<1> HIDE DEF lowest, highest, frontier, H
<1>7. highest \preceq lowest <=> (H - L) * (x - y) <= 0
  <2> DEFINE l == L * x + (D - L) * y
             h == H * x + (D - H) * y
             e == D * F
  <2>1. h - l = (H - L) * (x - y) /\ h \in Int /\ l \in Int /\ (H - L) * (x - y) \in Int
    BY <1>1, <1>3
  <2>2. Is(highest, h, e) /\ Is(lowest, l, e)
    BY <1>4, <1>5
  <2> HIDE DEF h, l, e
  <2>3. highest \preceq lowest <=> h <= l
    BY <2>2, IsOrder
  <2> QED
    BY <2>1, <2>3
<1>8. N \in Nat \ {0} /\ points \in Nat
  OBVIOUS
<1>9. ASSUME NEW k \in 1..points
      PROVE  Is(w[k], L * (N - (k - 1)) + H * (k - 1), D * N)
  <2> DEFINE j == k - 1
             i == N
             m == mu[1]
             n == mu[2]
  <2>1. j \in Int /\ i \in Nat \ {0} /\ x # y /\ Is(m, x, F) /\ Is(n, y, F)
    BY <1>2, <1>8
  <2>2. w[k] = ((lowest ++ Q(j, i) ** (highest -- lowest)) -- n) // (m -- n)
    OBVIOUS
  <2> HIDE DEF j, i, N, w, m, n
  <2>3. Is(((lowest ++ Q(j, i) ** (highest -- lowest)) -- n) // (m -- n), L * (i - j) + H * j, D * i)
    BY ONLY <1>1, <1>3, <1>4, <1>5, <2>1, FirstIs
  <2> QED
    BY <2>2, <2>3 DEF j, i
<1> HIDE DEF w
<1>10. \A k \in 1..points : w[k] \in Rationals
  BY <1>9 DEF Is
<1>11. w \in [1..points -> Rationals]
  BY <1>10 DEF w
<1>12. f \in [1..points -> Points]
  <2>1. ASSUME NEW k \in 1..points PROVE Point(w[k], mu, sigma) \in Points
    <3> DEFINE G == L * (N - (k - 1)) + H * (k - 1)
               M == D * N
               g == w[k]
               p == Point(g, mu, sigma)
    <3>1. Is(g, G, M)
      BY <1>9
    <3> HIDE DEF G, M, g
    <3>2. /\ p.weights = <<g, One -- g>> /\ Is(One -- g, M - G, M)
          /\ p = [weights |-> p.weights, return |-> p.return, variance |-> p.variance]
          /\ p.return \in Rationals /\ p.variance \in Rationals
      BY <3>1, PointIs, ZenonT(40)
    <3>3. g \in Rationals /\ One -- g \in Rationals
      BY <3>1, <3>2 DEF Is
    <3> HIDE DEF p
    <3>4. p \in Points
      BY <3>2, <3>3 DEF Points
    <3> QED
      BY <3>4 DEF p, g
  <2> QED
    BY <2>1
<1>13. f \in Seq(Points) /\ Listed(f) = f /\ DOMAIN f = 1..points
  <2>1. DOMAIN f = 1..points
    OBVIOUS
  <2> HIDE DEF f
  <2> QED
    BY <1>8, <1>12, <2>1, FunctionIsSequence
<1>14. ASSUME (H - L) * (x - y) > 0
       PROVE  Drawn(frontier, w, mu, sigma, points, H, L, D)
  <2>1. (H - L) * (x - y) \in Int
    BY <1>1, <1>3
  <2>2. frontier = f
    BY <1>6, <1>7, <1>13, <1>14, <2>1
  <2>3. \A k \in 1..points : f[k] = Point(w[k], mu, sigma)
    OBVIOUS
  <2> HIDE DEF f
  <2> QED
    BY <1>9, <1>12, <1>13, <2>2, <2>3 DEF Drawn
<1> QED
  BY <1>6, <1>7, <1>11, <1>14 DEF frontier, H
-----------------------------------------------------------------------------
(* What is picked of the frontier.                                         *)

\* Of finitely many numbers one is the largest, the first of equals.
LEMMA LargestExists ==
  ASSUME NEW n \in Nat, NEW S \in SUBSET (1..n), S # {}, NEW c, \A k \in S : c[k] \in Int
  PROVE  \E k \in S : \A l \in S : c[l] < c[k] \/ (c[l] = c[k] /\ k <= l)
<1> DEFINE Better(k, l) == c[l] < c[k] \/ (c[l] = c[k] /\ k <= l)
           G == {T \in SUBSET S : T # {} => \E k \in T : \A l \in T : Better(k, l)}
<1>1. IsFiniteSet(S)
  <2>1. IsFiniteSet(1..n)
    BY FS_Interval
  <2> QED
    BY <2>1, FS_Subset
<1>2. \A k \in S : k \in Int /\ c[k] \in Int
  OBVIOUS
<1>3. ASSUME NEW T \in SUBSET S, \A x \in T : T \ {x} \in G
      PROVE  T \in G
  <2> SUFFICES ASSUME T # {}
               PROVE  \E k \in T : \A l \in T : Better(k, l)
    OBVIOUS
  <2>1. PICK x \in T : TRUE
    OBVIOUS
  <2>2. CASE T \ {x} = {}
    <3>1. \A l \in T : l = x
      BY <2>2
    <3>2. \A l \in T : Better(x, l)
      BY <1>2, <3>1
    <3> QED
      BY <3>2
  <2>3. CASE T \ {x} # {}
    <3>1. PICK k \in T \ {x} : \A l \in T \ {x} : Better(k, l)
      BY <1>3, <2>3
    <3>2. CASE Better(k, x)
      BY <3>1, <3>2
    <3>3. CASE ~ Better(k, x)
      <4>1. x \in Int /\ c[x] \in Int /\ k \in Int /\ c[k] \in Int
        BY <1>2
      <4>2. ASSUME NEW l \in T PROVE Better(x, l)
        <5>1. l \in Int /\ c[l] \in Int
          BY <1>2
        <5>2. l = x \/ Better(k, l)
          BY <3>1
        <5> QED
          BY <3>3, <4>1, <5>1, <5>2
      <4> QED
        BY <4>2
    <3> QED
      BY <3>2, <3>3
  <2> QED
    BY <2>2, <2>3
<1>4. S \in G
  <2> HIDE DEF G
  <2> QED
    BY <1>1, <1>3, SetInduction
<1> QED
  BY <1>4

LEMMA SharpestExists ==
  ASSUME NEW n \in Nat, NEW S \in SUBSET (1..n), S # {}, NEW r, \A k \in S : r[k] \in Rationals
  PROVE  /\ \E k \in S : \A l \in S : r[l] \prec r[k] \/ (r[l] = r[k] /\ k <= l)
         /\ \E k \in S : \A l \in S : r[k] \prec r[l] \/ (r[k] = r[l] /\ k <= l)
<1> DEFINE s == [k \in 1..n |-> IF k \in S THEN r[k] ELSE Zero]
<1>1. s \in [1..n -> Rationals]
  BY ConstantsAreNumbers
<1> HIDE DEF s
<1>2. PICK d \in Nat \ {0}, c \in [1..n -> Int] : \A k \in 1..n : Is(s[k], c[k], d)
  BY <1>1, SeriesIs
<1> DEFINE e == [k \in 1..n |-> -c[k]]
<1>3. \A k \in S : c[k] \in Int /\ e[k] \in Int /\ e[k] = -c[k]
  BY <1>2
<1> HIDE DEF e
<1>4. \A k \in S : Is(r[k], c[k], d)
  BY <1>2 DEF s
<1>5. \A k, l \in S : (r[k] \prec r[l] <=> c[k] < c[l]) /\ (r[k] = r[l] <=> c[k] = c[l])
  BY <1>4, IsOrder
<1>6. PICK k \in S : \A l \in S : c[l] < c[k] \/ (c[l] = c[k] /\ k <= l)
  BY <1>3, LargestExists
<1>7. PICK m \in S : \A l \in S : e[l] < e[m] \/ (e[l] = e[m] /\ m <= l)
  BY <1>3, LargestExists
<1>8. \A l \in S : c[m] < c[l] \/ (c[m] = c[l] /\ m <= l)
  BY <1>3, <1>7
<1> QED
  BY <1>5, <1>6, <1>8

\* What beats cash is picked where anything does.
Picked(t, frontier, n, rate) ==
  /\ t \in [method : {"MINIMUM_VARIANCE", "MAX_SHARPE"}, chosen : Points, frontier : {frontier}]
  /\ t.method = "MINIMUM_VARIANCE" =>
       \A k \in 1..n : Zero \prec frontier[k].variance => frontier[k].return \preceq rate
  /\ t.method = "MAX_SHARPE" =>
       \E k \in 1..n : /\ t.chosen = frontier[k]
                       /\ Zero \prec frontier[k].variance /\ rate \prec frontier[k].return

LEMMA ChosenIs ==
  ASSUME NEW n \in Nat \ {0}, NEW frontier \in [1..n -> Points], NEW rate \in Rationals,
         NEW ratios, ratios = Listed([k \in 1..n |->
                       sharpe_ratio(frontier[k].return, rate, frontier[k].variance)])
  PROVE  Picked(Chosen(frontier, ratios), frontier, n, rate)
<1> DEFINE f == [k \in 1..n |-> sharpe_ratio(frontier[k].return, rate, frontier[k].variance)]
           beats == {k \in 1..n : Zero \prec frontier[k].variance /\ Zero \prec ratios[k]}
           sharpest == CHOOSE k \in beats : \A l \in beats :
                         ratios[l] \prec ratios[k] \/ (ratios[l] = ratios[k] /\ k <= l)
           safest == CHOOSE k \in 1..n : \A l \in 1..n :
                       \/ frontier[k].variance \prec frontier[l].variance
                       \/ frontier[k].variance = frontier[l].variance /\ k <= l
           t == Chosen(frontier, ratios)
<1>1. \A k \in 1..n : frontier[k] \in Points /\ frontier[k].return \in Rationals /\ frontier[k].variance \in Rationals
  BY DEF Points
<1>2. Zero \in Rationals
  BY ConstantsAreNumbers
<1>3. \A k \in 1..n : /\ frontier[k].variance \preceq Zero => f[k] = Undefined
                      /\ ~ (frontier[k].variance \preceq Zero) =>
                           f[k] = Ratio(frontier[k].return -- rate, frontier[k].variance)
  BY DEF sharpe_ratio
<1> HIDE DEF f
<1>4. \A k \in 1..n : Zero \prec frontier[k].variance =>
        /\ f[k] \in Rationals
        /\ Zero \prec f[k] <=> rate \prec frontier[k].return
  <2> SUFFICES ASSUME NEW k \in 1..n, Zero \prec frontier[k].variance
               PROVE  /\ f[k] \in Rationals
                      /\ Zero \prec f[k] <=> rate \prec frontier[k].return
    OBVIOUS
  <2>1. ~ (frontier[k].variance \preceq Zero)
    BY <1>1, <1>2, Transitive
  <2>2. f[k] = Ratio(frontier[k].return -- rate, frontier[k].variance)
    BY <1>3, <2>1
  <2> QED
    BY <1>1, <2>2, RatioSigned
<1>5. ratios = f
  <2> DEFINE Answers == Rationals \cup {Undefined}
  <2>1. \A k \in 1..n : f[k] \in Answers
    BY <1>1, <1>2, <1>3, <1>4, Transitive
  <2>2. f \in [1..n -> Answers]
    BY <2>1 DEF f
  <2>3. ratios = Listed(f)
    BY DEF f
  <2>4. n \in Nat
    OBVIOUS
  <2> HIDE DEF Answers
  <2> QED
    BY ONLY <2>2, <2>3, <2>4, FunctionIsSequence
<1>6. DOMAIN frontier = 1..n
  OBVIOUS
<1>7. t = IF beats = {}
          THEN [method |-> "MINIMUM_VARIANCE", chosen |-> frontier[safest], frontier |-> frontier]
          ELSE [method |-> "MAX_SHARPE", chosen |-> frontier[sharpest], frontier |-> frontier]
  BY <1>6 DEF Chosen
<1>8. \A k \in beats : k \in 1..n /\ ratios[k] \in Rationals /\ Zero \prec frontier[k].variance
                       /\ rate \prec frontier[k].return
  BY <1>4, <1>5
<1>9. beats # {} => sharpest \in beats
  <2> SUFFICES ASSUME beats # {} PROVE sharpest \in beats
    OBVIOUS
  <2> DEFINE S == beats
             r == ratios
             m == n
  <2>1. S \in SUBSET (1..m) /\ S # {} /\ m \in Nat
    OBVIOUS
  <2>2. \A k \in S : r[k] \in Rationals
    BY <1>8
  <2> HIDE DEF S, r, m
  <2>3. \E k \in S : \A l \in S : r[l] \prec r[k] \/ (r[l] = r[k] /\ k <= l)
    BY ONLY <2>1, <2>2, SharpestExists
  <2>4. \E k \in beats : \A l \in beats : ratios[l] \prec ratios[k] \/ (ratios[l] = ratios[k] /\ k <= l)
    BY ONLY <2>3 DEF S, r
  <2> HIDE DEF beats
  <2> QED
    BY ONLY <2>4, SMTT(40) DEF sharpest
<1>10. safest \in 1..n
  <2> DEFINE v == [k \in 1..n |-> frontier[k].variance]
  <2>1. \A k \in 1..n : v[k] \in Rationals /\ v[k] = frontier[k].variance
    BY <1>1
  <2>2. 1..n \in SUBSET (1..n) /\ 1..n # {} /\ n \in Nat
    <3>1. 1 \in 1..n
      OBVIOUS
    <3> QED
      BY <3>1
  <2> HIDE DEF v
  <2>3. \E k \in 1..n : \A l \in 1..n : v[k] \prec v[l] \/ (v[k] = v[l] /\ k <= l)
    BY <2>1, <2>2, SharpestExists
  <2>4. \E k \in 1..n : \A l \in 1..n :
          \/ frontier[k].variance \prec frontier[l].variance
          \/ frontier[k].variance = frontier[l].variance /\ k <= l
    BY <2>1, <2>3
  <2> QED
    BY <2>4
<1> HIDE DEF sharpest, safest
<1>11. CASE beats = {}
  <2>1. t = [method |-> "MINIMUM_VARIANCE", chosen |-> frontier[safest], frontier |-> frontier]
    BY <1>7, <1>11
  <2>2. \A k \in 1..n : Zero \prec frontier[k].variance => frontier[k].return \preceq rate
    <3> SUFFICES ASSUME NEW k \in 1..n, Zero \prec frontier[k].variance
                 PROVE  frontier[k].return \preceq rate
      OBVIOUS
    <3>1. ~ (rate \prec frontier[k].return)
      BY <1>4, <1>5, <1>11
    <3> QED
      BY <1>1, <3>1, Transitive
  <2> HIDE DEF t, beats
  <2>3. t.method # "MAX_SHARPE"
    BY <2>1
  <2>4. t \in [method : {"MINIMUM_VARIANCE", "MAX_SHARPE"}, chosen : Points, frontier : {frontier}]
    BY <1>1, <1>10, <2>1
  <2> QED
    BY <2>2, <2>3, <2>4 DEF t, Picked
<1>12. CASE beats # {}
  <2>1. t = [method |-> "MAX_SHARPE", chosen |-> frontier[sharpest], frontier |-> frontier]
    BY <1>7, <1>12
  <2>2. sharpest \in 1..n /\ Zero \prec frontier[sharpest].variance /\ rate \prec frontier[sharpest].return
    BY <1>8, <1>9, <1>12
  <2> HIDE DEF t, beats
  <2>3. t.method # "MINIMUM_VARIANCE" /\ t.chosen = frontier[sharpest]
    BY <2>1
  <2>4. t \in [method : {"MINIMUM_VARIANCE", "MAX_SHARPE"}, chosen : Points, frontier : {frontier}]
    BY <1>1, <2>1, <2>2
  <2> QED
    BY <2>2, <2>3, <2>4 DEF t, Picked
<1> QED
  BY <1>11, <1>12
-----------------------------------------------------------------------------
(* The inputs of the optimizer.                                            *)

\* Shrinking keeps a matrix a covariance matrix; only names that are one are
\* left without a difference in risk, and these only where nothing is shrunk.
LEMMA ShrunkFits ==
  ASSUME NEW xx \in Nat \ {0}, NEW yy \in Nat, NEW xy \in Int, xy * xy <= xx * yy,
         NEW w \in Nat, NEW v \in Nat, NEW P \in Nat \ {0}
  PROVE  LET A == (w * yy + v) * P
             B == (w * xx + v) * P
             C == (w * xy) * P
         IN /\ Semi(A, B, C)
            /\ v > 0 => A + B - 2 * C > 0
            /\ (w > 0 /\ xy # xx) => A + B - 2 * C > 0
<1> DEFINE a == w * yy + v
           b == w * xx + v
           c == w * xy
           A == a * P
           B == b * P
           C == c * P
           s == xx + yy - 2 * xy
<1>1. a \in Nat /\ b \in Nat /\ c \in Int
  <2>1. w * yy \in Nat /\ w * xx \in Nat
    BY ProductIsNat
  <2> QED
    BY <2>1
<1>2. s \in Nat /\ (xy # xx => s # 0)
  <2>1. Semi(yy, xx, xy)
    <3>1. xx * yy = yy * xx
      OBVIOUS
    <3> QED
      BY <3>1 DEF Semi
  <2>2. Quad(yy, xx, xy, 1, -1) = s
    BY DEF Quad
  <2>3. Quad(yy, xx, xy, 1, -1) \in Nat
    <3> DEFINE g == 1
               h == -1
    <3>1. g \in Int /\ h \in Int
      OBVIOUS
    <3> HIDE DEF g, h
    <3>2. Quad(yy, xx, xy, g, h) \in Nat
      BY <2>1, <3>1, QuadIsNat
    <3> QED
      BY <3>2 DEF g, h
  <2>4. ASSUME s = 0 PROVE xy = xx
    <3> DEFINE t == xy - xx
    <3>1. yy = 2 * xy - xx
      BY <2>4
    <3>2. xx * yy = xy * xy - t * t /\ t \in Int
      BY <3>1
    <3>3. t * t \in Nat /\ (t # 0 => t * t # 0)
      BY <3>2, SquareIsNat
    <3>4. xx * yy \in Int /\ xy * xy \in Int
      OBVIOUS
    <3> HIDE DEF t
    <3>5. t = 0
      BY <3>2, <3>3, <3>4
    <3> QED
      BY <3>5 DEF t
  <2> QED
    BY <2>2, <2>3, <2>4
<1>3. Semi(a, b, c)
  <2> DEFINE p == w * w
             g == xx * yy - xy * xy
             h == w * (v * (xx + yy))
             k == v * v
  <2>1. a * b - c * c = p * g + (h + k)
    OBVIOUS
  <2>2. p \in Nat /\ g \in Nat /\ k \in Nat /\ h \in Nat
    <3>1. g \in Nat
      <4>1. xx * yy \in Int /\ xy * xy \in Int
        OBVIOUS
      <4> QED
        BY <4>1
    <3>2. p \in Nat /\ k \in Nat
      BY ProductIsNat
    <3>3. xx + yy \in Nat
      OBVIOUS
    <3>4. v * (xx + yy) \in Nat
      BY <3>3, ProductIsNat
    <3>5. h \in Nat
      BY <3>4, ProductIsNat
    <3> QED
      BY <3>1, <3>2, <3>5
  <2> HIDE DEF p, g, h, k
  <2>3. p * g \in Nat
    BY <2>2, ProductIsNat
  <2>4. a * b \in Int /\ c * c \in Int
    BY <1>1
  <2> HIDE DEF a, b, c
  <2>5. c * c <= a * b
    BY <2>1, <2>2, <2>3, <2>4
  <2> QED
    BY <1>1, <2>5 DEF Semi
<1>4. A + B - 2 * C = P * (w * s + 2 * v)
  OBVIOUS
<1>5. w * s \in Nat /\ (w > 0 /\ xy # xx => w * s > 0)
  <2> HIDE DEF s
  <2>1. w * s \in Nat
    BY <1>2, ProductIsNat
  <2>2. ASSUME w > 0, xy # xx PROVE w * s > 0
    <3>1. w \in Nat \ {0} /\ s \in Nat \ {0}
      BY <1>2, <2>2
    <3>2. w * s \in Nat \ {0}
      BY <3>1, ProductIsPositive
    <3> QED
      BY <3>2
  <2> QED
    BY <2>1, <2>2
<1>6. Semi(A, B, C)
  <2> HIDE DEF a, b, c
  <2>1. A \in Nat /\ B \in Nat /\ C \in Int
    BY <1>1, ProductIsNat
  <2> DEFINE p == P * P
             g == a * b - c * c
  <2>2. A * B - C * C = p * g
    BY <1>1
  <2>3. g \in Nat
    <3>1. a * b \in Int /\ c * c \in Int /\ c * c <= a * b
      BY <1>1, <1>3 DEF Semi
    <3> QED
      BY <3>1
  <2>4. p \in Nat
    BY ProductIsNat
  <2> HIDE DEF p, g
  <2>5. p * g \in Nat
    BY <2>3, <2>4, ProductIsNat
  <2>6. A * B \in Int /\ C * C \in Int
    BY <2>1
  <2> HIDE DEF A, B, C
  <2>7. C * C <= A * B
    BY <2>2, <2>5, <2>6
  <2> QED
    BY <2>1, <2>7 DEF Semi
<1>7. (v > 0 \/ (w > 0 /\ xy # xx)) => A + B - 2 * C > 0
  <2> DEFINE i == w * s
             j == i + 2 * v
  <2>1. A + B - 2 * C = P * j
    BY <1>4
  <2>2. i \in Nat /\ (w > 0 /\ xy # xx => i > 0)
    BY <1>5
  <2> HIDE DEF i
  <2>3. (v > 0 \/ (w > 0 /\ xy # xx)) => j \in Nat \ {0}
    BY <2>2
  <2> HIDE DEF j, A, B, C
  <2> SUFFICES ASSUME v > 0 \/ (w > 0 /\ xy # xx) PROVE A + B - 2 * C > 0
    OBVIOUS
  <2>4. P * j \in Nat \ {0}
    BY <2>3, ProductIsPositive
  <2> QED
    BY <2>1, <2>4
<1> QED
  BY <1>6, <1>7

LEMMA CovarianceIs ==
  ASSUME NEW x, NEW y, NEW n, NEW d, NEW X, NEW Y, NEW xx, NEW xy, NEW yy,
         Measured(x, y, n, d, X, Y, xx, xy, yy),
         NEW i, NEW I, NEW J, Is(i, I, J)
  PROVE  LET s == ledoit_wolf_covariance(<<y, x>>, i)
             e == (J * ((d * d) * n)) * 2
             w == (J - I) * 2
             v == I * (xx + yy)
         IN /\ s = <<<<s[1][1], s[1][2]>>, <<s[1][2], s[2][2]>>>>
            /\ Is(s[1][1], w * yy + v, e) /\ Is(s[2][2], w * xx + v, e) /\ Is(s[1][2], w * xy, e)
<1> DEFINE m == d * d
           q == m * n
           Biased(u, t) == Dot(Deviations(u), Deviations(t)) // Whole(n)
           a == Biased(y, y)
           b == Biased(x, x)
           c == Biased(x, y)
           f == Biased(y, x)
           mean == (a ++ b) // Whole(2)
           rest == One -- i
           s == ledoit_wolf_covariance(<<y, x>>, i)
           e == (J * q) * 2
           w == (J - I) * 2
           v == I * (xx + yy)
<1>1. n \in Nat \ {0} /\ d \in Nat \ {0} /\ Len(y) = n
  <2>1. n \in Nat \ {0, 1, 2} /\ d \in Nat \ {0} /\ y \in [1..n -> Rationals]
    BY DEF Measured
  <2>2. n \in Nat
    BY <2>1
  <2>3. Len(y) = n
    BY <2>1, <2>2, FunctionIsSequence
  <2> QED
    BY <2>1, <2>3
<1>2. m \in Nat \ {0} /\ q \in Nat \ {0}
  <2>1. m \in Nat \ {0}
    BY <1>1, ProductIsPositive
  <2> HIDE DEF m
  <2> QED
    BY <1>1, <2>1, ProductIsPositive
<1>3. xx \in Nat /\ yy \in Nat /\ xy \in Int /\ I \in Int /\ J \in Nat \ {0}
  BY MeasuresFit DEF Is
<1>4. Is(a, yy, q) /\ Is(b, xx, q) /\ Is(c, xy, q) /\ Is(f, xy, q)
  <2> HIDE DEF m
  <2>1. /\ Is(Dot(Deviations(y), Deviations(y)), yy, m) /\ Is(Dot(Deviations(x), Deviations(x)), xx, m)
        /\ Is(Dot(Deviations(x), Deviations(y)), xy, m) /\ Is(Dot(Deviations(y), Deviations(x)), xy, m)
    BY MeasuresFit DEF m
  <2> QED
    BY <1>1, <2>1, ShareIs
<1>5. c = f /\ c \in Rationals
  <2> HIDE DEF c, f, q
  <2>1. Is(c, xy, q) /\ Is(f, xy, q)
    BY <1>4
  <2>2. c = f <=> xy = xy
    BY ONLY <2>1, IsOrder
  <2> QED
    BY <2>1, <2>2 DEF Is
<1>6. s = <<<<rest ** a ++ i ** mean, rest ** f ++ Zero>>, <<rest ** c ++ Zero, rest ** b ++ i ** mean>>>>
  BY <1>1 DEF ledoit_wolf_covariance, Both
<1> HIDE DEF a, b, c, f, q, m
<1>7. Is(rest, J - I, J) /\ rest \in Rationals
  BY <1>3, ZeroIs, DifferenceIs
<1>8. Is(mean, yy + xx, q * 2)
  <2> DEFINE two == 2
  <2>1. two \in Nat \ {0}
    OBVIOUS
  <2>2. Is(a ++ b, yy + xx, q)
    BY <1>4, PlusIs
  <2> HIDE DEF two
  <2>3. Is((a ++ b) // Whole(two), yy + xx, q * two)
    BY <2>1, <2>2, ShareIs
  <2> QED
    BY <2>3 DEF two
<1> HIDE DEF mean, rest
<1>9. Is(i ** mean, v, e)
  <2>1. Is(i ** mean, I * (yy + xx), J * (q * 2))
    BY <1>8, TimesIs
  <2>2. I * (yy + xx) = v /\ J * (q * 2) = e
    BY <1>2, <1>3
  <2> QED
    BY <2>1, <2>2
<1>10. Is(rest ** a, w * yy, e) /\ Is(rest ** b, w * xx, e) /\ Is(rest ** c, w * xy, e)
  <2> DEFINE two == 2
             u == J - I
             g == J * q
  <2>1. /\ Is(rest ** a, u * yy, g) /\ Is(rest ** b, u * xx, g)
        /\ Is(rest ** c, u * xy, g)
    BY <1>4, <1>7, TimesIs
  <2>2. two \in Nat \ {0}
    OBVIOUS
  <2>3. (u * yy) * two = w * yy /\ (u * xx) * two = w * xx /\ (u * xy) * two = w * xy /\ g * two = e
    BY <1>2, <1>3
  <2> HIDE DEF two, u, g, w, e
  <2>4. /\ Is(rest ** a, (u * yy) * two, g * two) /\ Is(rest ** b, (u * xx) * two, g * two)
        /\ Is(rest ** c, (u * xy) * two, g * two)
    BY <2>1, <2>2, IsScaled
  <2> QED
    BY <2>3, <2>4
<1>11. rest ** c ++ Zero = rest ** c /\ rest ** f ++ Zero = rest ** c
  <2>1. rest ** c \in Rationals /\ Zero \in Rationals
    BY <1>10, ConstantsAreNumbers DEF Is
  <2> QED
    BY <1>5, <2>1, PlusLaws
<1>12. Is(rest ** a ++ i ** mean, w * yy + v, e) /\ Is(rest ** b ++ i ** mean, w * xx + v, e)
  <2> HIDE DEF w, v, e
  <2> QED
    BY <1>9, <1>10, PlusIs
<1> HIDE DEF s, w, v, e
<1>13. /\ s[1][1] = rest ** a ++ i ** mean /\ s[1][2] = rest ** c /\ s[2][1] = rest ** c
       /\ s[2][2] = rest ** b ++ i ** mean
       /\ s = <<<<s[1][1], s[1][2]>>, <<s[1][2], s[2][2]>>>>
  BY <1>6, <1>11
<1> QED
  BY <1>10, <1>12, <1>13 DEF s, w, v, e, q, m

LEMMA InputsAre ==
  ASSUME NEW x, NEW y, NEW n, NEW d, NEW X, NEW Y, NEW xx, NEW xy, NEW yy,
         Measured(x, y, n, d, X, Y, xx, xy, yy), estimate_beta(Excess(y), Excess(x)) # Undefined,
         NEW tilts \in Rationals \X Rationals, NEW intensity \in Rationals,
         market_return \in Rationals, Zero \preceq intensity, intensity \preceq One,
         Zero \prec intensity \/ tilts[1] = tilts[2]
  PROVE  LET in == estimate_inputs(<<y, x>>, <<estimate_beta(Excess(y), Excess(x)).slope, One>>,
                                   market_return, rf, tilts, intensity)
         IN /\ in.rf = rf
            /\ \E g, h, F, A, B, C, E, R : /\ Framed(in.mu, in.sigma, g, h, F, A, B, C, E)
                                           /\ Is(rf, R, F) /\ (g # h => A + B - 2 * C > 0)
<1> DEFINE slope == estimate_beta(Excess(y), Excess(x)).slope
           in == estimate_inputs(<<y, x>>, <<slope, One>>, market_return, rf, tilts, intensity)
           s == ledoit_wolf_covariance(<<y, x>>, intensity)
           year == Whole(periods_per_year)
           mu == in.mu
           sigma == in.sigma
           premium == market_return -- rf
           I == intensity[1]
           J == intensity[2]
           E == (J * ((d * d) * n)) * 2
           w == (J - I) * 2
           v == I * (xx + yy)
           P == periods_per_year
           A == (w * yy + v) * P
           B == (w * xx + v) * P
           C == (w * xy) * P
<1>1. /\ in.rf = rf
      /\ mu = <<(rf ++ slope ** premium) ++ tilts[1], (rf ++ One ** premium) ++ tilts[2]>>
      /\ sigma = <<<<s[1][1] ** year, s[1][2] ** year>>, <<s[2][1] ** year, s[2][2] ** year>>>>
  BY DEF estimate_inputs, apply_view_tilts, capm_expected_returns, capm_expected_return, Both
<1>2. /\ xx \in Nat \ {0} /\ yy \in Nat /\ xy \in Int /\ xy * xy <= xx * yy
      /\ Is(slope, xy, xx) /\ slope \in Rationals
  <2>1. xx # 0 /\ Fits(estimate_beta(Excess(y), Excess(x)), xx, xy, yy)
    BY ExcessFits
  <2> QED
    BY <2>1, MeasuresFit DEF Fits, Is
<1>3. P \in Nat \ {0} /\ Is(year, P, 1)
  BY TrackRecordAssumption, IsWhole
<1>4. Is(intensity, I, J) /\ I \in Nat /\ J \in Nat \ {0} /\ I <= J /\ (Zero \prec intensity => I > 0)
  <2>1. Is(intensity, I, J) /\ I \in Int /\ J \in Nat \ {0}
    BY IsItself, RationalParts
  <2> HIDE DEF I, J
  <2>2. Is(One, J, J)
    BY <2>1, ZeroIs
  <2>3. I <= J
    BY <2>1, <2>2, IsOrder
  <2>4. I >= 0 /\ (Zero \prec intensity => I > 0)
    BY <2>1, PositiveIs
  <2> QED
    BY <2>1, <2>3, <2>4
<1> HIDE DEF in, slope, s, I, J, premium
<1>5. w \in Nat /\ v \in Nat /\ (w > 0 \/ I = J) /\ (I > 0 => v > 0)
  <2> DEFINE t == xx + yy
  <2>1. t \in Nat \ {0}
    BY <1>2
  <2>2. w \in Nat /\ (w > 0 \/ I = J)
    BY <1>4
  <2> HIDE DEF t
  <2>3. I * t \in Nat /\ (I \in Nat \ {0} => I * t \in Nat \ {0})
    BY <1>4, <2>1, ProductIsNat, ProductIsPositive
  <2> QED
    BY <1>4, <2>2, <2>3 DEF t
<1> HIDE DEF w, v, P
<1>6. /\ Semi(A, B, C) /\ (v > 0 => A + B - 2 * C > 0)
      /\ (w > 0 /\ xy # xx) => A + B - 2 * C > 0
  BY <1>2, <1>3, <1>5, ShrunkFits
<1>7. /\ s[1][2] = s[2][1]
      /\ Is(s[1][1], w * yy + v, E) /\ Is(s[2][2], w * xx + v, E) /\ Is(s[1][2], w * xy, E)
  <2>1. /\ s = <<<<s[1][1], s[1][2]>>, <<s[1][2], s[2][2]>>>>
        /\ Is(s[1][1], w * yy + v, E) /\ Is(s[2][2], w * xx + v, E) /\ Is(s[1][2], w * xy, E)
    BY <1>4, CovarianceIs DEF s, w, v
  <2> QED
    BY <2>1
<1>8. Is(sigma[1][1], A, E) /\ Is(sigma[2][2], B, E) /\ Is(sigma[1][2], C, E)
  <2> DEFINE one == 1
             a == w * yy + v
             b == w * xx + v
             c == w * xy
  <2>1. Is(year, P, one) /\ Is(s[1][1], a, E) /\ Is(s[2][2], b, E) /\ Is(s[1][2], c, E)
    BY <1>3, <1>7
  <2>2. E * one = E
    BY <2>1 DEF Is
  <2>3. sigma[1][1] = s[1][1] ** year /\ sigma[2][2] = s[2][2] ** year /\ sigma[1][2] = s[1][2] ** year
    BY <1>1
  <2> HIDE DEF one, a, b, c, E, sigma
  <2>4. Is(s[1][1] ** year, a * P, E * one) /\ Is(s[2][2] ** year, b * P, E * one)
        /\ Is(s[1][2] ** year, c * P, E * one)
    BY <2>1, TimesIs
  <2> QED
    BY <2>2, <2>3, <2>4 DEF a, b, c
<1>9. premium \in Rationals /\ rf \in Rationals /\ One \in Rationals
  BY ConstantsAreNumbers, Closed DEF premium
<1>10. mu[1] \in Rationals /\ mu[2] \in Rationals /\ mu = <<mu[1], mu[2]>>
  <2>1. slope ** premium \in Rationals /\ One ** premium \in Rationals
    BY <1>2, <1>9, Closed
  <2>2. rf ++ slope ** premium \in Rationals /\ rf ++ One ** premium \in Rationals
    BY <1>9, <2>1, Closed
  <2>3. (rf ++ slope ** premium) ++ tilts[1] \in Rationals /\ (rf ++ One ** premium) ++ tilts[2] \in Rationals
    BY <2>2, Closed
  <2> QED
    BY <1>1, <2>3
<1>11. PICK F \in Nat \ {0}, g, h, R \in Int : Is(mu[1], g, F) /\ Is(mu[2], h, F) /\ Is(rf, R, F)
  BY <1>9, <1>10, ThreeOver
<1>12. Framed(mu, sigma, g, h, F, A, B, C, E)
  <2>1. sigma = <<<<sigma[1][1], sigma[1][2]>>, <<sigma[1][2], sigma[2][2]>>>>
    BY <1>1, <1>7
  <2> HIDE DEF A, B, C, E, mu, sigma
  <2> QED
    BY <1>6, <1>8, <1>10, <1>11, <2>1 DEF Framed
<1>13. ASSUME g # h PROVE A + B - 2 * C > 0
  <2>1. CASE I > 0
    BY <1>5, <1>6, <2>1
  <2>2. CASE ~ (I > 0)
    <3>1. w > 0 /\ tilts[1] = tilts[2]
      BY <1>4, <1>5, <2>2
    <3>2. ASSUME xy = xx PROVE FALSE
      <4>1. slope = One
        <5>1. Is(One, xx, xx) /\ Is(slope, xx, xx)
          BY <1>2, <3>2, ZeroIs
        <5> QED
          BY <5>1, IsOrder
      <4>2. mu[1] = mu[2]
        BY <1>1, <3>1, <4>1
      <4>3. g = h
        BY <1>11, <4>2, IsOrder
      <4> QED
        BY <1>13, <4>3
    <3> QED
      BY <1>6, <3>1, <3>2
  <2> QED
    BY <2>1, <2>2
<1> QED
  <2> HIDE DEF A, B, C, E
  <2> QED
    BY <1>1, <1>11, <1>12, <1>13 DEF in, slope
-----------------------------------------------------------------------------
(* The closed forms.                                                       *)

LEMMA QuotientTimes ==
  ASSUME NEW a \in Rationals, NEW b \in Rationals, b # Zero
  PROVE  (a // b) ** b = a /\ a // b \in Rationals
<1> DEFINE i == a[1]
           e == a[2]
           n == b[1]
           d == b[2]
<1>1. Is(a, i, e) /\ Is(b, n, d) /\ i \in Int /\ e \in Nat \ {0} /\ n \in Int /\ d \in Nat \ {0} /\ n # 0
  <2>1. Is(a, i, e) /\ Is(b, n, d)
    BY IsItself
  <2> HIDE DEF i, e, n, d
  <2> QED
    BY <2>1, PositiveIs DEF Is
<1> HIDE DEF i, e, n, d
<1>2. CASE n > 0
  <2> DEFINE p == i * d
             q == e * n
  <2>1. Is(a // b, p, q) /\ a // b \in Rationals
    BY <1>1, <1>2, QuotientIs
  <2>2. (p * n) * e = i * (q * d)
    BY <1>1
  <2> HIDE DEF p, q
  <2>3. Is((a // b) ** b, p * n, q * d)
    BY <1>1, <2>1, TimesIs
  <2> QED
    BY <1>1, <2>1, <2>2, <2>3, IsSame
<1>3. CASE n < 0
  <2> DEFINE p == i * (-d)
             q == e * (-n)
  <2>1. Is(Reciprocal(b), -d, -n)
    BY <1>1, <1>3, ReciprocalIs
  <2>2. Is(a // b, p, q) /\ a // b \in Rationals
    BY <1>1, <2>1, TimesIs DEF //
  <2>3. (p * n) * e = i * (q * d)
    BY <1>1
  <2> HIDE DEF p, q
  <2>4. Is((a // b) ** b, p * n, q * d)
    BY <1>1, <2>2, TimesIs
  <2> QED
    BY <1>1, <2>2, <2>3, <2>4, IsSame
<1> QED
  BY <1>1, <1>2, <1>3

\* The weights that solve the matrix, in proportion to its inverse.
LEMMA NormalizedIs ==
  ASSUME NEW mu, NEW sigma, NEW x, NEW y, NEW F, NEW A, NEW B, NEW C, NEW E,
         Framed(mu, sigma, x, y, F, A, B, C, E),
         NEW b1, NEW b2, NEW p, NEW q, NEW G, Is(b1, p, G), Is(b2, q, G),
         Normalized(Solved(sigma, <<b1, b2>>)) # Undefined
  PROVE  LET u == B * p - C * q
             v == A * q - C * p
             weights == Normalized(Solved(sigma, <<b1, b2>>))
         IN /\ A * B - C * C > 0 /\ u + v # 0
            /\ \E g \in Rationals, D \in Nat \ {0}, S \in Int :
                 /\ weights = <<g, One -- g>> /\ Is(g, S, D)
                 /\ S * (u + v) = D * u /\ (D - S) * (u + v) = D * v
<1> DEFINE u == B * p - C * q
           v == A * q - C * p
           det == A * B - C * C
           delta == sigma[1][1] ** sigma[2][2] -- sigma[1][2] ** sigma[2][1]
           U == sigma[2][2] ** b1 -- sigma[1][2] ** b2
           V == sigma[1][1] ** b2 -- sigma[2][1] ** b1
           raw == <<U // delta, V // delta>>
           weights == Normalized(Solved(sigma, <<b1, b2>>))
           total == Sum(raw)
<1>1. /\ Is(sigma[1][1], A, E) /\ Is(sigma[2][2], B, E) /\ Is(sigma[1][2], C, E)
      /\ sigma[2][1] = sigma[1][2] /\ Semi(A, B, C)
  <2>1. /\ Is(sigma[1][1], A, E) /\ Is(sigma[2][2], B, E) /\ Is(sigma[1][2], C, E) /\ Semi(A, B, C)
    BY DEF Framed
  <2>2. sigma = <<<<sigma[1][1], sigma[1][2]>>, <<sigma[1][2], sigma[2][2]>>>>
    BY DEF Framed
  <2>3. sigma[2] = <<sigma[1][2], sigma[2][2]>>
    BY <2>2
  <2>4. sigma[2][1] = sigma[1][2]
    BY <2>3
  <2> QED
    BY <2>1, <2>4
<1>2. A \in Int /\ B \in Int /\ C \in Int /\ E \in Nat \ {0} /\ p \in Int /\ q \in Int /\ G \in Nat \ {0}
  BY <1>1 DEF Is
<1>3. u \in Int /\ v \in Int /\ det \in Int /\ det >= 0
  <2>1. A * B \in Int /\ C * C \in Int /\ C * C <= A * B
    BY <1>1, <1>2 DEF Semi
  <2>2. det \in Int /\ det >= 0
    BY <2>1
  <2> QED
    BY <1>2, <2>2
<1>4. Is(delta, det, E * E) /\ delta \in Rationals
  <2>1. Is(sigma[1][1] ** sigma[2][2], A * B, E * E) /\ Is(sigma[1][2] ** sigma[2][1], C * C, E * E)
    BY <1>1, TimesIs
  <2> QED
    BY <2>1, DifferenceIs
<1>5. Is(U, u, E * G) /\ Is(V, v, E * G) /\ U \in Rationals /\ V \in Rationals
  <2>1. /\ Is(sigma[2][2] ** b1, B * p, E * G) /\ Is(sigma[1][2] ** b2, C * q, E * G)
        /\ Is(sigma[1][1] ** b2, A * q, E * G) /\ Is(sigma[2][1] ** b1, C * p, E * G)
    BY <1>1, TimesIs
  <2> QED
    BY <2>1, DifferenceIs
<1>6. delta # Zero /\ weights = Normalized(raw)
  <2>1. Solved(sigma, <<b1, b2>>) = IF delta = Zero THEN Undefined ELSE raw
    BY DEF Solved
  <2>2. Normalized(Undefined) = Undefined
    BY DEF Normalized
  <2> HIDE DEF delta, raw
  <2> QED
    BY <2>1, <2>2
<1>7. det > 0
  <2> HIDE DEF det, delta
  <2>1. det # 0
    BY <1>4, <1>6, PositiveIs
  <2> QED
    BY <1>3, <2>1
<1> HIDE DEF u, v, det, delta, U, V
<1>8. total # Zero /\ weights = <<(U // delta) // total, (V // delta) // total>>
  <2>1. Normalized(raw) = IF raw = Undefined THEN Undefined ELSE IF total = Zero THEN Undefined
                          ELSE <<raw[1] // total, raw[2] // total>>
    BY DEF Normalized, Both
  <2>2. raw[1] = U // delta /\ raw[2] = V // delta
    OBVIOUS
  <2> HIDE DEF raw, total, weights
  <2> QED
    BY <1>6, <2>1, <2>2 DEF weights
<1> DEFINE k == U // delta
           l == V // delta
<1>9. k ** delta = U /\ l ** delta = V /\ k \in Rationals /\ l \in Rationals
  BY <1>4, <1>5, <1>6, QuotientTimes
<1>10. total = k ++ l /\ total \in Rationals
  <2> HIDE DEF k, l
  <2>1. <<k, l>> \in Seq(Rationals) /\ Len(<<k, l>>) = 2 /\ <<k, l>>[1] = k /\ <<k, l>>[2] = l
    BY <1>9, PairIsSeries
  <2>2. Sum(<<k, l>>) = k ++ l /\ Sum(<<k, l>>) \in Rationals
    BY <2>1, SumOfTwo
  <2> QED
    BY <2>2 DEF k, l
<1> HIDE DEF k, l, total, weights
<1> DEFINE g == k // total
           h == l // total
<1>11. /\ g ** total = k /\ h ** total = l /\ g \in Rationals /\ h \in Rationals
       /\ weights = <<g, h>>
  BY <1>8, <1>9, <1>10, QuotientTimes DEF k, l
<1> HIDE DEF g, h
<1>12. g ** (total ** delta) = U /\ h ** (total ** delta) = V /\ total ** delta = U ++ V
  <2>1. g ** (total ** delta) = (g ** total) ** delta /\ h ** (total ** delta) = (h ** total) ** delta
    BY <1>4, <1>10, <1>11, TimesLaws
  <2>2. total ** delta = delta ** (k ++ l)
    BY <1>4, <1>10, TimesLaws
  <2>3. delta ** (k ++ l) = delta ** k ++ delta ** l
    BY <1>4, <1>9, TimesLaws
  <2>4. delta ** k = k ** delta /\ delta ** l = l ** delta
    BY <1>4, <1>9, TimesLaws
  <2> QED
    BY <1>9, <1>11, <2>1, <2>2, <2>3, <2>4
<1> DEFINE s == u + v
           d == E * G
<1>13. Is(U ++ V, s, d)
  BY <1>5, PlusIs
<1>14. s # 0 /\ s \in Int /\ d \in Nat \ {0}
  <2>1. total ** delta # Zero
    <3>1. ASSUME total ** delta = Zero PROVE FALSE
      <4>2. U = Zero /\ V = Zero
        <5>1. g ** Zero = Zero /\ h ** Zero = Zero
          BY <1>11, ConstantsAreNumbers, TimesLaws
        <5> QED
          BY <1>12, <3>1, <5>1
      <4>3. u = 0 /\ v = 0
        BY <1>5, <4>2, PositiveIs
      <4>4. Is(k, 0, 1) /\ Is(l, 0, 1)
        <5> DEFINE one == 1
                   D == det
                   e == E * E
                   z == 0
        <5>1. Is(U, z, d) /\ Is(V, z, d) /\ Is(delta, D, e) /\ D > 0
          BY <1>4, <1>5, <1>7, <4>3
        <5>2. D \in Int /\ e \in Nat \ {0} /\ d \in Nat \ {0}
          BY <5>1 DEF Is
        <5>3. z * e = z /\ z \in Int /\ one \in Nat \ {0}
          BY <5>2
        <5> HIDE DEF D, e, d, one
        <5>4. Is(k, z * e, d * D) /\ Is(l, z * e, d * D)
          BY <5>1, QuotientIs DEF k, l
        <5>5. z * one = z * (d * D)
          BY <5>2, <5>3
        <5>6. Is(k, z, d * D) /\ Is(l, z, d * D)
          BY <5>3, <5>4
        <5> HIDE DEF z
        <5>7. Is(k, z, one) /\ Is(l, z, one)
          BY <5>3, <5>5, <5>6, IsAlso
        <5> QED
          BY <5>7 DEF z, one
      <4>5. k = Zero /\ l = Zero
        BY <4>4, PositiveIs
      <4>6. total = Zero
        BY <1>10, <4>5, ConstantsAreNumbers, PlusLaws
      <4> QED
        BY <1>8, <4>6
    <3> QED
      BY <3>1
  <2> HIDE DEF s
  <2> QED
    BY <1>12, <1>13, <2>1, PositiveIs DEF Is
<1>15. PICK D \in Nat \ {0}, S, T \in Int : Is(g, S, D) /\ Is(h, T, D)
  BY <1>11, IsCommon
<1>16. S * s = D * u /\ T * s = D * v
  <2> HIDE DEF s, d
  <2>1. Is(U, S * s, D * d) /\ Is(V, T * s, D * d)
    BY <1>12, <1>13, <1>15, TimesIs
  <2>2. (S * s) * d = u * (D * d) /\ (T * s) * d = v * (D * d)
    BY <1>5, <2>1, IsUnique DEF d
  <2>3. (S * s) * d = (D * u) * d /\ (T * s) * d = (D * v) * d
    BY <1>3, <1>14, <1>15, <2>2
  <2>4. S * s \in Int /\ T * s \in Int /\ D * u \in Int /\ D * v \in Int
    BY <1>3, <1>14, <1>15
  <2> QED
    BY <1>14, <2>3, <2>4, CancelsEqual
<1>17. T = D - S
  <2> DEFINE w == S + T - D
  <2>1. w \in Int /\ w * s = 0
    BY <1>3, <1>14, <1>15, <1>16
  <2> HIDE DEF w, s
  <2>2. w = 0
    BY <1>14, <2>1
  <2> QED
    BY <1>15, <2>2 DEF w
<1>18. h = One -- g
  <2>1. Is(One, D, D)
    BY <1>15, ZeroIs
  <2>2. Is(One -- g, D - S, D)
    BY <1>15, <2>1, DifferenceIs
  <2>3. Is(h, D - S, D)
    BY <1>15, <1>17
  <2> DEFINE t == D - S
  <2> HIDE DEF t
  <2>4. Is(h, t, D) /\ Is(One -- g, t, D)
    BY <2>2, <2>3 DEF t
  <2> QED
    BY <2>4, IsOrder
<1>19. weights = <<g, One -- g>>
  BY <1>11, <1>18
<1>20. S * (u + v) = D * u /\ (D - S) * (u + v) = D * v /\ u + v # 0
  BY <1>14, <1>16, <1>17
<1>21. \E f \in Rationals, e \in Nat \ {0}, t \in Int :
         /\ weights = <<f, One -- f>> /\ Is(f, t, e)
         /\ t * (u + v) = e * u /\ (e - t) * (u + v) = e * v
  BY <1>11, <1>15, <1>19, <1>20
<1> QED
  BY ONLY <1>7, <1>20, <1>21 DEF u, v, det, weights

LEMMA GapIsPositive ==
  ASSUME NEW a \in Rationals, NEW b \in Rationals
  PROVE  Zero \prec b -- a <=> a \prec b
<1>1. PICK n, m \in Int, d \in Nat \ {0} : Is(a, n, d) /\ Is(b, m, d)
  BY IsCommon
<1>2. Is(b -- a, m - n, d)
  BY <1>1, DifferenceIs
<1> DEFINE g == m - n
<1>3. g > 0 <=> n < m
  BY <1>1
<1> HIDE DEF g
<1>4. Is(b -- a, g, d)
  BY <1>2 DEF g
<1> QED
  BY <1>1, <1>3, <1>4, PositiveIs, IsOrder

\* Of two ratios of a return to a risk, both positive.
LEMMA RatiosInOrder ==
  ASSUME NEW d \in Nat \ {0}, NEW D \in Nat \ {0}, NEW e \in Nat \ {0}, NEW f \in Nat \ {0},
         NEW i, NEW j, NEW p, NEW q, NEW a, NEW b, NEW v, NEW w,
         Is(a, i, d * f), Is(v, p, (d * d) * e), i > 0, p > 0,
         Is(b, j, D * f), Is(w, q, (D * D) * e), j > 0, q > 0,
         (i * i) * q <= (j * j) * p
  PROVE  Ratio(a, v) \preceq Ratio(b, w)
<1> DEFINE r == Ratio(a, v)
           t == Ratio(b, w)
           m == i * i
           n == j * j
           h == f * f
<1>1. i \in Nat \ {0} /\ j \in Nat \ {0} /\ p \in Nat \ {0} /\ q \in Nat \ {0}
  BY DEF Is
<1>2. h \in Nat \ {0} /\ m \in Nat \ {0} /\ n \in Nat \ {0} /\ Kept(i) = m /\ Kept(j) = n
  BY <1>1, ProductIsPositive DEF Kept
<1>3. Is(r, m * e, h * p)
  <2> DEFINE c == (d * d) * e
             k == d * f
             u == m * c
             z == (k * k) * p
             x == m * e
             y == h * p
  <2>1. k \in Nat \ {0} /\ c \in Nat \ {0} /\ y \in Nat \ {0} /\ x \in Int
    <3>1. k \in Nat \ {0} /\ d * d \in Nat \ {0} /\ y \in Nat \ {0}
      BY <1>1, <1>2, ProductIsPositive
    <3> QED
      BY <1>2, <3>1, ProductIsPositive
  <2>2. u * y = x * z
    BY <1>1, <1>2
  <2>3. Is(a, i, k) /\ Is(v, p, c) /\ p > 0
    OBVIOUS
  <2> HIDE DEF c, k, m, h
  <2>4. Is(r, u, z)
    BY <1>2, <2>3, RatioIs
  <2> HIDE DEF u, z, x, y, r
  <2>5. Is(r, x, y)
    BY ONLY <2>1, <2>2, <2>4, IsAlso
  <2> QED
    BY <2>5 DEF x, y
<1>4. Is(t, n * e, h * q)
  <2> DEFINE c == (D * D) * e
             k == D * f
             u == n * c
             z == (k * k) * q
             x == n * e
             y == h * q
  <2>1. k \in Nat \ {0} /\ c \in Nat \ {0} /\ y \in Nat \ {0} /\ x \in Int
    <3>1. k \in Nat \ {0} /\ D * D \in Nat \ {0} /\ y \in Nat \ {0}
      BY <1>1, <1>2, ProductIsPositive
    <3> QED
      BY <1>2, <3>1, ProductIsPositive
  <2>2. u * y = x * z
    BY <1>1, <1>2
  <2>3. Is(b, j, k) /\ Is(w, q, c) /\ q > 0
    OBVIOUS
  <2> HIDE DEF c, k, n, h
  <2>4. Is(t, u, z)
    BY <1>2, <2>3, RatioIs
  <2> HIDE DEF u, z, x, y, t
  <2>5. Is(t, x, y)
    BY ONLY <2>1, <2>2, <2>4, IsAlso
  <2> QED
    BY <2>5 DEF x, y
<1> DEFINE y == (h * p) * q
           k == (m * e) * q
           l == (n * e) * p
<1>5. Is(r, k, y)
  BY <1>1, <1>3, IsScaled
<1>6. Is(t, l, y)
  <2>1. Is(t, (n * e) * p, (h * q) * p)
    BY <1>1, <1>4, IsScaled
  <2>2. (h * q) * p = y
    BY <1>1, <1>2
  <2> QED
    BY <2>1, <2>2
<1>7. k <= l
  <2> DEFINE g == m * q
             o == n * p
  <2>1. g \in Int /\ o \in Int /\ g <= o /\ k = g * e /\ l = o * e
    BY <1>1, <1>2
  <2> HIDE DEF g, o, k, l
  <2>2. g * e <= o * e
    BY <2>1, ProductIsMonotone
  <2> QED
    BY <2>1, <2>2
<1> HIDE DEF r, t, y, k, l
<1>8. r \preceq t
  BY <1>5, <1>6, <1>7, IsOrder
<1> QED
  BY <1>8 DEF r, t

\* Of the least risk is what the inverse says, where there is one.
LEMMA LeastIs ==
  ASSUME NEW mu, NEW sigma, NEW x, NEW y, NEW F, NEW A, NEW B, NEW C, NEW E,
         Framed(mu, sigma, x, y, F, A, B, C, E), A + B - 2 * C > 0,
         minimum_variance_portfolio(sigma) # Undefined
  PROVE  LET closed == minimum_variance_portfolio(sigma)
         IN closed = <<closed[1], One -- closed[1]>> /\ closed[1] = Unbounded(sigma)
<1> DEFINE one == 1
           u == B * one - C * one
           v == A * one - C * one
           K == A + B - 2 * C
           N == B - C
           closed == minimum_variance_portfolio(sigma)
<1>1. A \in Int /\ B \in Int /\ C \in Int
  BY DEF Framed, Is
<1>2. one \in Nat \ {0} /\ u = N /\ u + v = K /\ K \in Nat \ {0} /\ N \in Int
  BY <1>1
<1> HIDE DEF one
<1>3. Is(One, one, one)
  BY <1>2, ZeroIs
<1>4. closed = Normalized(Solved(sigma, <<One, One>>))
  BY DEF minimum_variance_portfolio
<1> HIDE DEF closed
<1>5. \E g \in Rationals, D \in Nat \ {0}, S \in Int :
        /\ closed = <<g, One -- g>> /\ Is(g, S, D) /\ S * (u + v) = D * u /\ (D - S) * (u + v) = D * v
  <2>1. Normalized(Solved(sigma, <<One, One>>)) # Undefined
    BY <1>4 DEF closed
  <2> QED
    BY <1>3, <1>4, <2>1, NormalizedIs
<1>6. PICK g \in Rationals, D \in Nat \ {0}, S \in Int :
        closed = <<g, One -- g>> /\ Is(g, S, D) /\ S * (u + v) = D * u
  BY <1>5
<1> HIDE DEF u, v, K, N
<1>7. Is(Unbounded(sigma), N, K)
  BY UnboundedIs DEF N, K
<1>8. S * K = N * D
  <2>1. S * K = D * N
    BY <1>2, <1>6
  <2> QED
    BY <1>2, <1>6, <2>1
<1>9. g = Unbounded(sigma)
  BY <1>6, <1>7, <1>8, IsSame
<1> QED
  BY <1>6, <1>9 DEF closed

\* No portfolio beats the one the inverse says.
LEMMA TangentIs ==
  ASSUME NEW mu, NEW sigma, NEW x, NEW y, NEW F, NEW A, NEW B, NEW C, NEW E, NEW R,
         Framed(mu, sigma, x, y, F, A, B, C, E), Is(rf, R, F),
         tangency_portfolio(mu, sigma, rf) # Undefined,
         NEW w, NEW G, NEW M, Is(w, G, M)
  PROVE  LET p == Point(w, mu, sigma)
             t == Point(tangency_portfolio(mu, sigma, rf)[1], mu, sigma)
         IN /\ t.return \in Rationals
            /\ (Zero \prec p.variance /\ rf \prec p.return /\ rf \prec t.return) =>
                  sharpe_ratio(p.return, rf, p.variance) \preceq sharpe_ratio(t.return, rf, t.variance)
<1> DEFINE weights == tangency_portfolio(mu, sigma, rf)
           b1 == mu[1] -- rf
           b2 == mu[2] -- rf
           i == x - R
           j == y - R
           u == B * i - C * j
           v == A * j - C * i
<1>1. /\ Is(mu[1], x, F) /\ Is(mu[2], y, F) /\ Semi(A, B, C)
      /\ x \in Int /\ y \in Int /\ R \in Int /\ F \in Nat \ {0} /\ E \in Nat \ {0}
      /\ A \in Int /\ B \in Int /\ C \in Int
  BY DEF Framed, Is
<1>2. Is(b1, i, F) /\ Is(b2, j, F) /\ i \in Int /\ j \in Int
  <2> DEFINE m == mu[1]
             n == mu[2]
  <2>1. Is(m, x, F) /\ Is(n, y, F)
    BY <1>1
  <2> HIDE DEF m, n
  <2>2. Is(m -- rf, x - R, F) /\ Is(n -- rf, y - R, F)
    BY <2>1, DifferenceIs
  <2> QED
    BY <1>1, <2>2 DEF m, n
<1>3. weights = Normalized(Solved(sigma, <<b1, b2>>))
  BY DEF tangency_portfolio, Both
<1> HIDE DEF weights, b1, b2, i, j
<1>4. /\ A * B - C * C > 0 /\ u + v # 0
      /\ \E g \in Rationals, D \in Nat \ {0}, S \in Int :
           /\ weights = <<g, One -- g>> /\ Is(g, S, D)
           /\ S * (u + v) = D * u /\ (D - S) * (u + v) = D * v
  <2>1. Normalized(Solved(sigma, <<b1, b2>>)) # Undefined
    BY <1>3 DEF weights
  <2> QED
    BY <1>2, <1>3, <2>1, NormalizedIs
<1>5. PICK g \in Rationals, D \in Nat \ {0}, S \in Int :
        /\ weights = <<g, One -- g>> /\ Is(g, S, D)
        /\ S * (u + v) = D * u /\ (D - S) * (u + v) = D * v
  BY <1>4
<1> DEFINE p == Point(w, mu, sigma)
           t == Point(g, mu, sigma)
           H == M - G
           T == D - S
           V == Quad(A, B, C, G, H)
           W == Quad(A, B, C, S, T)
           r == G * i + H * j
           q == S * i + T * j
<1>6. /\ Is(p.return, G * x + (M - G) * y, M * F) /\ p.return \in Rationals
      /\ Is(p.variance, V, (M * M) * E) /\ p.variance \in Rationals
  BY PointIs
<1>7. /\ Is(t.return, S * x + (D - S) * y, D * F) /\ t.return \in Rationals
      /\ Is(t.variance, W, (D * D) * E) /\ t.variance \in Rationals
  BY <1>5, PointIs
<1>8. G \in Int /\ M \in Nat \ {0} /\ H \in Int /\ T \in Int
  <2>1. G \in Int /\ M \in Nat \ {0}
    BY DEF Is
  <2> QED
    BY <1>5, <2>1
<1> HIDE DEF p, t, V, W
<1>9. Is(p.return -- rf, r, M * F)
  <2> DEFINE k == G * x + (M - G) * y
             l == R * M
             e == M * F
  <2>1. Is(p.return, k, e)
    BY <1>6
  <2>2. Is(rf, l, F * M)
    BY <1>1, <1>8, IsScaled
  <2>3. F * M = e /\ k - l = r
    BY <1>1, <1>8 DEF i, j
  <2> HIDE DEF k, l, e, r
  <2>4. Is(rf, l, e)
    BY <2>2, <2>3
  <2>5. Is(p.return -- rf, k - l, e)
    BY <2>1, <2>4, DifferenceIs
  <2> QED
    BY <2>3, <2>5 DEF e
<1>10. Is(t.return -- rf, q, D * F)
  <2> DEFINE k == S * x + (D - S) * y
             l == R * D
             e == D * F
  <2>1. Is(t.return, k, e)
    BY <1>7
  <2>2. Is(rf, l, F * D)
    BY <1>1, <1>5, IsScaled
  <2>3. F * D = e /\ k - l = q
    BY <1>1, <1>5, <1>8 DEF i, j
  <2> HIDE DEF k, l, e, q
  <2>4. Is(rf, l, e)
    BY <2>2, <2>3
  <2>5. Is(t.return -- rf, k - l, e)
    BY <2>1, <2>4, DifferenceIs
  <2> QED
    BY <2>3, <2>5 DEF e
<1>11. (r * r) * W <= (q * q) * V
  <2>1. S * (u + v) = D * u /\ T * (u + v) = D * v /\ u + v # 0
    BY <1>4, <1>5
  <2>2. D \in Int /\ S \in Int
    BY <1>5
  <2> HIDE DEF H, T
  <2>3. (r * r) * Quad(A, B, C, S, T) <= (q * q) * Quad(A, B, C, G, H)
    BY ONLY <1>1, <1>2, <1>8, <2>1, <2>2, TangentIsBest
  <2> QED
    BY <2>3 DEF V, W
<1>12. W > 0
  <2>1. S # 0 \/ T # 0
    BY <1>5
  <2>2. S \in Int /\ T \in Int
    BY <1>5, <1>8
  <2> HIDE DEF T
  <2>3. Quad(A, B, C, S, T) > 0
    BY <1>1, <1>4, <2>1, <2>2, QuadIsNat
  <2> QED
    BY <2>3 DEF W
<1> HIDE DEF r, q, H, T
<1>13. ASSUME Zero \prec p.variance, rf \prec p.return, rf \prec t.return
       PROVE  sharpe_ratio(p.return, rf, p.variance) \preceq sharpe_ratio(t.return, rf, t.variance)
  <2>1. Zero \in Rationals /\ rf \in Rationals
    BY ConstantsAreNumbers
  <2>2. V > 0
    BY <1>6, <1>13, PositiveIs
  <2>3. Zero \prec t.variance
    BY <1>7, <1>12, PositiveIs
  <2>4. ~ (p.variance \preceq Zero) /\ ~ (t.variance \preceq Zero)
    BY <1>6, <1>7, <1>13, <2>1, <2>3, Transitive
  <2>5. /\ sharpe_ratio(p.return, rf, p.variance) = Ratio(p.return -- rf, p.variance)
        /\ sharpe_ratio(t.return, rf, t.variance) = Ratio(t.return -- rf, t.variance)
    BY <2>4 DEF sharpe_ratio
  <2>6. r > 0 /\ q > 0
    <3>1. Zero \prec p.return -- rf /\ Zero \prec t.return -- rf
      BY <1>6, <1>7, <1>13, <2>1, GapIsPositive
    <3> QED
      BY <1>9, <1>10, <3>1, PositiveIs
  <2>7. Ratio(p.return -- rf, p.variance) \preceq Ratio(t.return -- rf, t.variance)
    <3> DEFINE a == p.return -- rf
               b == t.return -- rf
               l == p.variance
               n == t.variance
    <3>1. /\ Is(a, r, M * F) /\ Is(l, V, (M * M) * E) /\ r > 0 /\ V > 0
          /\ Is(b, q, D * F) /\ Is(n, W, (D * D) * E) /\ q > 0 /\ W > 0
      BY <1>6, <1>7, <1>9, <1>10, <1>12, <2>2, <2>6
    <3>2. M \in Nat \ {0} /\ D \in Nat \ {0} /\ E \in Nat \ {0} /\ F \in Nat \ {0}
      BY <1>1, <1>5, <1>8
    <3> HIDE DEF a, b, l, n
    <3>3. Ratio(a, l) \preceq Ratio(b, n)
      BY ONLY <1>11, <3>1, <3>2, RatiosInOrder, ZenonT(40)
    <3> QED
      BY <3>3 DEF a, b, l, n
  <2> QED
    BY <2>5, <2>7
<1>14. weights[1] = g
  BY <1>5
<1> QED
  BY <1>7, <1>13, <1>14 DEF p, t, weights
-----------------------------------------------------------------------------
(* What is on the frontier, and what is permitted.                         *)

\* Away from the least risk and within the bounds, more return is more risk.
LEMMA ReturnCostsRisk ==
  ASSUME NEW A \in Int, NEW B \in Int, NEW C \in Int, A + B - 2 * C > 0,
         NEW sigma, NEW cap, NEW D, NEW U, NEW L, Bounded(sigma, cap, A, B, C, D, U, L),
         NEW m \in Nat \ {0}, NEW a \in Int, NEW b \in Int
  PROVE  /\ (L * m <= a /\ a < b /\ b <= U * m) =>
              Quad(A, B, C, a, D * m - a) < Quad(A, B, C, b, D * m - b)
         /\ (a <= L * m /\ b < a /\ (D - U) * m <= b) =>
              Quad(A, B, C, a, D * m - a) < Quad(A, B, C, b, D * m - b)
<1> DEFINE K == A + B - 2 * C
           t == (B - C) * D
           l == L * m
           Z == D * m
<1>1. /\ D \in Int /\ U \in Int /\ L \in Int /\ K \in Int /\ t \in Int /\ m \in Int /\ l \in Int /\ Z \in Int
      /\ K * L \in Int
      /\ K * L >= t \/ L = U
      /\ K * L <= t \/ L = D - U
  BY DEF Bounded
<1>2. K * l = (K * L) * m /\ (B - C) * Z = t * m
  BY <1>1
<1>3. ASSUME l <= a, a < b, b <= U * m
      PROVE  Quad(A, B, C, a, Z - a) < Quad(A, B, C, b, Z - b)
  <2>1. L # U
    BY <1>1, <1>3
  <2>2. t <= K * L
    BY <1>1, <2>1
  <2> HIDE DEF t, K
  <2>3. t * m <= (K * L) * m
    BY <1>1, <2>2, ProductIsMonotone
  <2>4. (K * L) * m \in Int /\ t * m \in Int
    BY <1>1
  <2>5. K * l >= (B - C) * Z
    BY <1>2, <2>3, <2>4
  <2> HIDE DEF l, Z
  <2> QED
    BY <1>1, <1>3, <2>5, VarianceRises DEF K
<1>4. ASSUME a <= l, b < a, (D - U) * m <= b
      PROVE  Quad(A, B, C, a, Z - a) < Quad(A, B, C, b, Z - b)
  <2>1. L # D - U
    BY <1>1, <1>4
  <2>2. K * L <= t
    BY <1>1, <2>1
  <2> HIDE DEF t, K
  <2>3. (K * L) * m <= t * m
    BY <1>1, <2>2, ProductIsMonotone
  <2>4. (K * L) * m \in Int /\ t * m \in Int
    BY <1>1
  <2>5. K * l <= (B - C) * Z
    BY <1>2, <2>3, <2>4
  <2> HIDE DEF l, Z
  <2> QED
    BY <1>1, <1>4, <2>5, VarianceRises DEF K
<1> QED
  BY <1>3, <1>4

\* Permitted is what lies within the bounds.
LEMMA PermittedIs ==
  ASSUME NEW cap \in Rationals, NEW g, NEW a, NEW U, NEW D, NEW m \in Nat \ {0},
         Is(Smaller(cap, One), U, D), Is(g, a, D * m)
  PROVE  Permitted(g, cap) <=> a <= U * m /\ (D - U) * m <= a
<1> DEFINE most == Smaller(cap, One)
<1>1. g \in Rationals /\ One \in Rationals /\ a \in Int /\ D \in Nat \ {0} /\ U \in Int
  BY ConstantsAreNumbers DEF Is
<1>2. PICK E \in Nat \ {0}, N, M, Z \in Int : Is(cap, N, E) /\ Is(g, M, E) /\ Is(One, Z, E)
  BY <1>1, ThreeOver
<1> DEFINE V == IF N < E THEN N ELSE E
<1>3. Is(One, E, E)
  BY <1>2, ZeroIs
<1>4. Is(most, V, E) /\ V \in Int
  <2>1. Is(most, V, E)
    BY <1>2, <1>3, LargerIs
  <2>2. V \in Int
    BY <1>2
  <2> QED
    BY <2>1, <2>2
<1>5. Is(One -- g, E - M, E) /\ E - M \in Int
  <2>1. Is(One -- g, E - M, E)
    BY <1>2, <1>3, DifferenceIs
  <2>2. E - M \in Int
    BY <1>2
  <2> QED
    BY <2>1, <2>2
<1>6. Permitted(g, cap) <=> 0 <= M /\ M <= N /\ 0 <= E - M /\ E - M <= N
  <2>1. Permitted(g, cap) <=> /\ Zero \preceq g /\ g \preceq cap
                              /\ Zero \preceq One -- g /\ One -- g \preceq cap
    BY DEF Permitted
  <2>2. (Zero \preceq g <=> M >= 0) /\ (Zero \preceq One -- g <=> E - M >= 0)
    BY <1>2, <1>5, PositiveIs
  <2>3. (g \preceq cap <=> M <= N) /\ (One -- g \preceq cap <=> E - M <= N)
    BY <1>2, <1>5, IsOrder
  <2> QED
    BY <1>2, <1>5, <2>1, <2>2, <2>3
<1>7. Permitted(g, cap) <=> M <= V /\ E - V <= M
  BY <1>2, <1>6
<1> DEFINE Y == D * m
           u == U * m
<1>8. Is(most, u, Y) /\ Y \in Nat \ {0} /\ Is(One, Y, Y)
  <2>1. Is(most, u, Y)
    BY IsScaled
  <2> HIDE DEF u, Y
  <2>2. Y \in Nat \ {0}
    BY <2>1 DEF Is
  <2> QED
    BY <2>1, <2>2, ZeroIs
<1> HIDE DEF V, most
<1>9. M <= V <=> a <= u
  <2>1. g \preceq most <=> M <= V
    BY <1>2, <1>4, IsOrder
  <2> HIDE DEF u, Y
  <2>2. Is(g, a, Y)
    BY DEF Y
  <2>3. g \preceq most <=> a <= u
    BY <1>8, <2>2, IsOrder
  <2> QED
    BY <2>1, <2>3
<1>10. E - V <= M <=> Y - u <= a
  <2>1. Is(One -- most, E - V, E)
    BY <1>3, <1>4, DifferenceIs
  <2>2. One -- most \preceq g <=> E - V <= M
    BY <1>2, <2>1, IsOrder
  <2> HIDE DEF u, Y
  <2>3. Is(g, a, Y)
    BY DEF Y
  <2>4. Is(One -- most, Y - u, Y)
    BY <1>8, DifferenceIs
  <2>5. One -- most \preceq g <=> Y - u <= a
    BY <2>3, <2>4, IsOrder
  <2> QED
    BY <2>2, <2>5
<1>11. Y - u = (D - U) * m
  BY <1>1
<1> QED
  BY <1>7, <1>9, <1>10, <1>11

\* Two portfolios over one denominator.
LEMMA PointsInOrder ==
  ASSUME NEW mu, NEW sigma, NEW x, NEW y, NEW F, NEW A, NEW B, NEW C, NEW E,
         Framed(mu, sigma, x, y, F, A, B, C, E),
         NEW f, NEW g, NEW a, NEW b, NEW Z, Is(f, a, Z), Is(g, b, Z)
  PROVE  LET p == Point(f, mu, sigma)
             q == Point(g, mu, sigma)
         IN /\ p.return \preceq q.return <=> 0 <= (b - a) * (x - y)
            /\ p.return \prec q.return <=> 0 < (b - a) * (x - y)
            /\ q.variance \preceq p.variance <=> Quad(A, B, C, b, Z - b) <= Quad(A, B, C, a, Z - a)
            /\ q.variance \prec p.variance <=> Quad(A, B, C, b, Z - b) < Quad(A, B, C, a, Z - a)
<1> DEFINE p == Point(f, mu, sigma)
           q == Point(g, mu, sigma)
           i == a * x + (Z - a) * y
           j == b * x + (Z - b) * y
           e == Z * F
           k == (Z * Z) * E
           v == Quad(A, B, C, a, Z - a)
           w == Quad(A, B, C, b, Z - b)
           gap == (b - a) * (x - y)
<1>1. Is(p.return, i, e) /\ Is(p.variance, v, k) /\ Is(q.return, j, e) /\ Is(q.variance, w, k)
  BY PointIs
<1>2. a \in Int /\ b \in Int /\ Z \in Int /\ x \in Int /\ y \in Int
  BY DEF Framed, Is
<1>3. j - i = gap /\ i \in Int /\ j \in Int /\ gap \in Int
  BY <1>2
<1> HIDE DEF p, q, i, j, e, k, v, w, gap
<1>4. /\ (p.return \preceq q.return <=> i <= j) /\ (p.return \prec q.return <=> i < j)
      /\ (q.variance \preceq p.variance <=> w <= v) /\ (q.variance \prec p.variance <=> w < v)
  BY <1>1, IsOrder
<1> QED
  BY <1>3, <1>4 DEF p, q, v, w, gap

\* What the optimizer is told, where names differ in return and in risk.
Mandated(mu, sigma, cap, x, y, F, A, B, C, E, D, U, L) ==
  /\ Framed(mu, sigma, x, y, F, A, B, C, E) /\ A + B - 2 * C > 0 /\ x # y
  /\ cap \in Rationals /\ Bounded(sigma, cap, A, B, C, D, U, L)

LEMMA MandatedParts ==
  ASSUME NEW mu, NEW sigma, NEW cap, NEW x, NEW y, NEW F, NEW A, NEW B, NEW C, NEW E,
         NEW D, NEW U, NEW L, Mandated(mu, sigma, cap, x, y, F, A, B, C, E, D, U, L)
  PROVE  /\ x \in Int /\ y \in Int /\ x # y /\ A \in Int /\ B \in Int /\ C \in Int
         /\ D \in Nat \ {0} /\ U \in Int /\ L \in Int /\ D - U <= L /\ L <= U /\ D - U <= U
         /\ Is(Smaller(cap, One), U, D) /\ Is(LowestRisk(sigma, cap), L, D)
         /\ Highest(x, y, D, U) = IF y < x THEN U ELSE D - U
BY DEF Mandated, Framed, Bounded, Is, Highest

LEMMA SameSide ==
  ASSUME NEW i \in Int, NEW s \in Int
  PROVE  /\ s > 0 => (0 <= i * s <=> 0 <= i) /\ (0 < i * s <=> 0 < i)
         /\ s < 0 => (0 <= i * s <=> i <= 0) /\ (0 < i * s <=> i < 0)
<1>1. CASE s > 0
  <2>1. s \in Nat \ {0} /\ i * s = s * i
    BY <1>1
  <2> DEFINE p == i * s
  <2>2. p = s * i
    BY <2>1
  <2> HIDE DEF p
  <2>3. (p >= 0 <=> i >= 0) /\ (p > 0 <=> i > 0) /\ p \in Int
    BY <2>1, <2>2, FactorKeepsSign
  <2>4. (0 <= p <=> 0 <= i) /\ (0 < p <=> 0 < i)
    BY <2>3
  <2> QED
    BY <1>1, <2>4 DEF p
<1>2. CASE s < 0
  <2> DEFINE t == -s
             p == i * s
             j == -i
  <2>1. t \in Nat \ {0} /\ j \in Int /\ (j >= 0 <=> i <= 0) /\ (j > 0 <=> i < 0) /\ p = t * j
    BY <1>2
  <2> HIDE DEF t, p, j
  <2>2. (p >= 0 <=> j >= 0) /\ (p > 0 <=> j > 0) /\ p \in Int
    BY <2>1, FactorKeepsSign
  <2>3. (0 <= p <=> i <= 0) /\ (0 < p <=> i < 0)
    BY <2>1, <2>2
  <2> QED
    BY <1>2, <2>3 DEF p
<1> QED
  BY <1>1, <1>2

Beats(q, p) ==
  /\ p.return \preceq q.return /\ q.variance \preceq p.variance
  /\ p.return \prec q.return \/ q.variance \prec p.variance

\* No permitted portfolio beats one that returns more than the one of least risk.
LEMMA NotBeaten ==
  ASSUME NEW mu, NEW sigma, NEW cap, NEW x, NEW y, NEW F, NEW A, NEW B, NEW C, NEW E,
         NEW D, NEW U, NEW L, Mandated(mu, sigma, cap, x, y, F, A, B, C, E, D, U, L),
         NEW m \in Nat \ {0}, NEW f, NEW g, NEW a, NEW b, Is(f, a, D * m), Is(g, b, D * m),
         0 <= (a - L * m) * (x - y), Permitted(g, cap)
  PROVE  ~ Beats(Point(g, mu, sigma), Point(f, mu, sigma))
<1> DEFINE Z == D * m
           v == Quad(A, B, C, a, Z - a)
           w == Quad(A, B, C, b, Z - b)
           i == b - a
           k == a - L * m
           s == x - y
<1>1. /\ x \in Int /\ y \in Int /\ x # y /\ A \in Int /\ B \in Int /\ C \in Int
      /\ D \in Nat \ {0} /\ U \in Int /\ L \in Int /\ Is(Smaller(cap, One), U, D)
  BY MandatedParts
<1>2. a \in Int /\ b \in Int /\ m \in Int /\ L * m \in Int /\ i \in Int /\ k \in Int /\ s \in Int /\ s # 0
  <2>1. a \in Int /\ b \in Int
    BY DEF Is
  <2> QED
    BY <1>1, <2>1
<1>3. b <= U * m /\ (D - U) * m <= b
  BY <1>1, PermittedIs DEF Mandated
<1>4. /\ (L * m <= a /\ a < b) => v < w
      /\ (a <= L * m /\ b < a) => v < w
  BY <1>1, <1>2, <1>3, ReturnCostsRisk DEF Mandated
<1>5. v \in Int /\ w \in Int /\ (a = b => v = w)
  BY <1>1, <1>2 DEF Quad
<1>6. /\ Point(f, mu, sigma).return \preceq Point(g, mu, sigma).return <=> 0 <= i * s
      /\ Point(f, mu, sigma).return \prec Point(g, mu, sigma).return <=> 0 < i * s
      /\ Point(g, mu, sigma).variance \preceq Point(f, mu, sigma).variance <=> w <= v
      /\ Point(g, mu, sigma).variance \prec Point(f, mu, sigma).variance <=> w < v
  BY PointsInOrder DEF Mandated
<1>7. 0 <= k * s
  OBVIOUS
<1> SUFFICES ASSUME 0 <= i * s, w <= v, 0 < i * s \/ w < v PROVE FALSE
  BY <1>6 DEF Beats
<1> HIDE DEF v, w, Z
<1>8. CASE s > 0
  <2> HIDE DEF i, k, s
  <2>1. 0 <= i /\ 0 <= k /\ (0 < i * s <=> 0 < i)
    BY <1>2, <1>7, <1>8, SameSide
  <2> QED
    BY <1>2, <1>4, <1>5, <2>1 DEF i, k
<1>9. CASE s < 0
  <2> HIDE DEF i, k, s
  <2>1. i <= 0 /\ k <= 0 /\ (0 < i * s <=> i < 0)
    BY <1>2, <1>7, <1>9, SameSide
  <2> QED
    BY <1>2, <1>4, <1>5, <2>1 DEF i, k
<1> QED
  BY <1>2, <1>8, <1>9

\* What is on the frontier is permitted, and nothing permitted beats it.
LEMMA FrontierHolds ==
  ASSUME NEW mu, NEW sigma, NEW cap, NEW x, NEW y, NEW F, NEW A, NEW B, NEW C, NEW E,
         NEW D, NEW U, NEW L, Mandated(mu, sigma, cap, x, y, F, A, B, C, E, D, U, L),
         (Highest(x, y, D, U) - L) * (x - y) > 0,
         NEW N \in Nat \ {0}, NEW j \in 0..N,
         NEW f, Is(f, L * (N - j) + Highest(x, y, D, U) * j, D * N)
  PROVE  /\ Permitted(f, cap)
         /\ \A g \in Rationals : Permitted(g, cap) => ~ Beats(Point(g, mu, sigma), Point(f, mu, sigma))
<1> DEFINE H == Highest(x, y, D, U)
           a == L * (N - j) + H * j
<1>1. /\ x \in Int /\ y \in Int /\ D \in Nat \ {0} /\ U \in Int /\ L \in Int
      /\ D - U <= L /\ L <= U /\ Is(Smaller(cap, One), U, D) /\ cap \in Rationals
      /\ H \in Int /\ D - U <= H /\ H <= U
  <2>1. /\ x \in Int /\ y \in Int /\ D \in Nat \ {0} /\ U \in Int /\ L \in Int
        /\ D - U <= L /\ L <= U /\ Is(Smaller(cap, One), U, D) /\ D - U <= U
        /\ H = IF y < x THEN U ELSE D - U
    BY MandatedParts
  <2> HIDE DEF H
  <2> QED
    BY <2>1 DEF Mandated
<1>2. j \in Nat /\ N - j \in Nat
  OBVIOUS
<1> HIDE DEF H
<1>3. a <= U * N /\ (D - U) * N <= a /\ a \in Int
  <2> DEFINE p == U - L
             q == U - H
             r == L - (D - U)
             t == H - (D - U)
             k == N - j
  <2>1. p \in Nat /\ q \in Nat /\ r \in Nat /\ t \in Nat /\ k \in Nat
    BY <1>1, <1>2
  <2>2. U * N - a = p * k + q * j /\ a - (D - U) * N = r * k + t * j /\ a \in Int /\ U * N \in Int /\ (D - U) * N \in Int
    BY <1>1, <1>2
  <2> HIDE DEF p, q, r, t, k
  <2>3. p * k \in Nat /\ q * j \in Nat /\ r * k \in Nat /\ t * j \in Nat
    BY <1>2, <2>1, ProductIsNat
  <2> HIDE DEF a
  <2> QED
    BY <2>2, <2>3
<1>4. Is(f, a, D * N)
  BY DEF H
<1>5. Permitted(f, cap)
  <2> HIDE DEF a
  <2> QED
    BY <1>1, <1>3, <1>4, PermittedIs
<1>6. ASSUME NEW g \in Rationals, Permitted(g, cap)
      PROVE  ~ Beats(Point(g, mu, sigma), Point(f, mu, sigma))
  <2> DEFINE G == g[1]
             M == g[2]
             m == N * M
             k == a * M
             b == G * (D * N)
             s == (H - L) * (x - y)
             i == j * M
  <2>1. Is(g, G, M) /\ G \in Int /\ M \in Nat \ {0} /\ D * N \in Nat \ {0}
    BY <1>1, IsItself, RationalParts, ProductIsPositive
  <2> HIDE DEF G, M
  <2>2. m \in Nat \ {0} /\ i \in Nat
    BY <1>2, <2>1, ProductIsPositive, ProductIsNat
  <2>3. (k - L * m) * (x - y) = s * i
    BY <1>1, <1>2, <2>1
  <2>4. s \in Nat
    <3>1. s \in Int
      BY <1>1
    <3>2. s > 0
      BY DEF H
    <3> QED
      BY <3>1, <3>2
  <2>5. (D * N) * M = D * m /\ M * (D * N) = D * m
    BY <1>1, <2>1
  <2> DEFINE d == D * N
  <2>6. d \in Nat \ {0} /\ Is(f, a, d)
    BY <1>4, <2>1
  <2> HIDE DEF a, d, m
  <2>7. Is(f, a * M, d * M) /\ Is(g, G * d, M * d)
    BY <2>1, <2>6, IsScaled
  <2>8. Is(f, k, D * m) /\ Is(g, b, D * m)
    BY <2>5, <2>7 DEF d
  <2> HIDE DEF k, b, s, i
  <2>9. s * i \in Nat
    BY <2>2, <2>4, ProductIsNat
  <2>10. 0 <= (k - L * m) * (x - y)
    BY <2>3, <2>9
  <2> QED
    BY <1>6, <2>2, <2>8, <2>10, NotBeaten
<1> QED
  BY <1>5, <1>6

\* Where there is no frontier, the portfolio of least risk returns most.
LEMMA NoneReturnsMore ==
  ASSUME NEW mu, NEW sigma, NEW cap, NEW x, NEW y, NEW F, NEW A, NEW B, NEW C, NEW E,
         NEW D, NEW U, NEW L, Mandated(mu, sigma, cap, x, y, F, A, B, C, E, D, U, L),
         (Highest(x, y, D, U) - L) * (x - y) <= 0, NEW g \in Rationals, Permitted(g, cap)
  PROVE  Point(g, mu, sigma).return \preceq Point(LowestRisk(sigma, cap), mu, sigma).return
<1> DEFINE H == Highest(x, y, D, U)
           low == LowestRisk(sigma, cap)
           G == g[1]
           M == g[2]
           b == G * D
           l == L * M
           Z == D * M
           s == x - y
           i == l - b
<1>1. /\ x \in Int /\ y \in Int /\ x # y /\ D \in Nat \ {0} /\ U \in Int /\ L \in Int
      /\ D - U <= L /\ L <= U /\ Is(Smaller(cap, One), U, D) /\ Is(low, L, D)
      /\ cap \in Rationals /\ H = IF y < x THEN U ELSE D - U
  BY MandatedParts DEF Mandated
<1>2. Is(g, G, M) /\ G \in Int /\ M \in Nat \ {0}
  BY IsItself, RationalParts
<1> HIDE DEF low, G, M
<1>3. Is(g, b, Z) /\ Is(low, l, Z) /\ b \in Int /\ l \in Int /\ s \in Int /\ s # 0
  <2>1. Is(g, G * D, M * D) /\ Is(low, L * M, D * M)
    BY <1>1, <1>2, IsScaled
  <2>2. M * D = Z
    BY <1>1, <1>2
  <2> QED
    BY <1>1, <1>2, <2>1, <2>2
<1>4. b <= U * M /\ (D - U) * M <= b
  <2>1. Is(g, b, D * M)
    BY <1>3
  <2> HIDE DEF b
  <2> QED
    BY <1>1, <1>2, <2>1, PermittedIs
<1>5. 0 <= i * s
  <2> DEFINE k == H - L
  <2>1. k \in Int /\ k * s \in Int /\ k * s <= 0 /\ i \in Int
    BY <1>1, <1>3
  <2>2. (s > 0 => H = U) /\ (s < 0 => H = D - U)
    BY <1>1
  <2> HIDE DEF s, k
  <2>3. (s > 0 => ~ (0 < k)) /\ (s < 0 => ~ (k < 0))
    BY <1>3, <2>1, SameSide
  <2>4. (s > 0 => L = U) /\ (s < 0 => L = D - U)
    BY <1>1, <2>1, <2>2, <2>3 DEF k
  <2>5. (s > 0 => 0 <= i) /\ (s < 0 => i <= 0)
    BY <1>2, <1>3, <1>4, <2>4
  <2> HIDE DEF i
  <2> QED
    BY <1>3, <2>1, <2>5, SameSide
<1> HIDE DEF b, l, Z
<1>6. Framed(mu, sigma, x, y, F, A, B, C, E)
  BY DEF Mandated
<1>7. Point(g, mu, sigma).return \preceq Point(low, mu, sigma).return
  BY <1>3, <1>5, <1>6, PointsInOrder
<1> QED
  BY <1>7 DEF low

\* The last of the frontier returns most, and not without risk.
LEMMA LastReturnsMost ==
  ASSUME NEW mu, NEW sigma, NEW cap, NEW x, NEW y, NEW F, NEW A, NEW B, NEW C, NEW E,
         NEW D, NEW U, NEW L, Mandated(mu, sigma, cap, x, y, F, A, B, C, E, D, U, L),
         (Highest(x, y, D, U) - L) * (x - y) > 0,
         NEW N \in Nat \ {0}, NEW f, Is(f, Highest(x, y, D, U) * N, D * N)
  PROVE  /\ Zero \prec Point(f, mu, sigma).variance
         /\ \A g \in Rationals : Permitted(g, cap) =>
              Point(g, mu, sigma).return \preceq Point(f, mu, sigma).return
<1> DEFINE H == Highest(x, y, D, U)
           s == x - y
           h == H * N
           l == L * N
           d == D * N
<1>1. /\ x \in Int /\ y \in Int /\ x # y /\ D \in Nat \ {0} /\ U \in Int /\ L \in Int
      /\ A \in Int /\ B \in Int /\ C \in Int
      /\ D - U <= L /\ L <= U /\ D - U <= U /\ Is(Smaller(cap, One), U, D)
      /\ cap \in Rationals /\ H = IF y < x THEN U ELSE D - U
  BY MandatedParts DEF Mandated
<1>2. Framed(mu, sigma, x, y, F, A, B, C, E) /\ Semi(A, B, C)
  BY DEF Mandated, Framed
<1>3. H \in Int /\ s \in Int /\ s # 0 /\ (s > 0 => H = U) /\ (s < 0 => H = D - U)
  BY <1>1
<1>4. (s > 0 => L < H) /\ (s < 0 => H < L)
  <2> DEFINE k == H - L
  <2>1. k \in Int /\ 0 < k * s
    BY <1>1, <1>3
  <2> HIDE DEF k, s, H
  <2>2. (s > 0 => 0 < k) /\ (s < 0 => k < 0)
    BY <1>3, <2>1, SameSide
  <2> QED
    BY <1>1, <1>3, <2>2 DEF k
<1>5. Is(f, h, d) /\ d \in Nat \ {0}
  BY <1>1, ProductIsPositive
<1> HIDE DEF H
<1>6. Zero \prec Point(f, mu, sigma).variance
  <2> DEFINE v == Quad(A, B, C, l, d - l)
             w == Quad(A, B, C, h, d - h)
  <2>1. h \in Int /\ l \in Int /\ d \in Int /\ (s > 0 => l < h) /\ (s < 0 => h < l)
    <3> DEFINE k == H - L
               j == L - H
    <3>1. h - l = k * N /\ l - h = j * N /\ h \in Int /\ l \in Int /\ d \in Int
      BY <1>1, <1>3
    <3>2. (s > 0 => k \in Nat \ {0}) /\ (s < 0 => j \in Nat \ {0})
      BY <1>1, <1>3, <1>4
    <3> HIDE DEF k, j, h, l, d, s
    <3>3. (s > 0 => k * N \in Nat \ {0}) /\ (s < 0 => j * N \in Nat \ {0})
      BY <3>2, ProductIsPositive
    <3> QED
      BY <3>1, <3>3
  <2>2. /\ (L * N <= l /\ l < h /\ h <= U * N) => v < w
        /\ (l <= L * N /\ h < l /\ (D - U) * N <= h) => v < w
    <3>1. l \in Int /\ h \in Int
      BY <2>1
    <3>2. A + B - 2 * C > 0 /\ Bounded(sigma, cap, A, B, C, D, U, L)
      BY DEF Mandated
    <3> DEFINE a == l
               b == h
    <3>3. a \in Int /\ b \in Int
      BY <3>1
    <3> HIDE DEF a, b
    <3>4. /\ (L * N <= a /\ a < b /\ b <= U * N) =>
               Quad(A, B, C, a, D * N - a) < Quad(A, B, C, b, D * N - b)
          /\ (a <= L * N /\ b < a /\ (D - U) * N <= b) =>
               Quad(A, B, C, a, D * N - a) < Quad(A, B, C, b, D * N - b)
      BY <1>1, <3>2, <3>3, ReturnCostsRisk
    <3> QED
      BY <3>4 DEF a, b
  <2>3. (s > 0 => h = U * N) /\ (s < 0 => h = (D - U) * N)
    BY <1>3
  <2>4. v \in Nat
    <3> DEFINE a == l
               b == d - l
    <3>1. a \in Int /\ b \in Int
      BY <2>1
    <3> HIDE DEF a, b
    <3>2. Quad(A, B, C, a, b) \in Nat
      BY <1>2, <3>1, QuadIsNat
    <3> QED
      BY <3>2 DEF a, b
  <2>5. v < w
    <3>1. l <= L * N /\ L * N <= l
      BY <2>1
    <3> HIDE DEF v, w, l, h, s
    <3>2. (D - U) * N \in Int /\ U * N \in Int
      BY <1>1
    <3> QED
      BY <1>3, <2>1, <2>2, <2>3, <3>1, <3>2
  <2> DEFINE e == (d * d) * E
  <2> HIDE DEF l, h, d
  <2>6. Is(Point(f, mu, sigma).variance, Quad(A, B, C, h, d - h), (d * d) * E)
    BY <1>2, <1>5, PointIs
  <2>7. Is(Point(f, mu, sigma).variance, w, e) /\ w \in Int
    BY <2>6 DEF Is
  <2> HIDE DEF v, w, e
  <2>8. w > 0
    BY <2>4, <2>5, <2>7
  <2> QED
    BY <2>7, <2>8, PositiveIs
<1>7. ASSUME NEW g \in Rationals, Permitted(g, cap)
      PROVE  Point(g, mu, sigma).return \preceq Point(f, mu, sigma).return
  <2> DEFINE G == g[1]
             M == g[2]
             Z == d * M
             k == h * M
             b == G * d
             i == k - b
             m == N * M
  <2>1. Is(g, G, M) /\ G \in Int /\ M \in Nat \ {0}
    BY IsItself, RationalParts
  <2> HIDE DEF G, M
  <2>2. Is(f, h * M, d * M) /\ Is(g, G * d, M * d)
    <3> HIDE DEF h, d
    <3> QED
      BY <1>5, <2>1, IsScaled
  <2>3. M * d = Z /\ k \in Int /\ b \in Int /\ i \in Int
    BY <1>1, <1>3, <2>1
  <2>4. Is(f, k, Z) /\ Is(g, b, Z)
    BY <2>2, <2>3
  <2>5. b <= U * m /\ (D - U) * m <= b
    <3>1. m \in Nat \ {0}
      BY <2>1, ProductIsPositive
    <3>2. Z = D * m
      BY <1>1, <2>1
    <3> HIDE DEF m, Z, b
    <3>3. Is(g, b, D * m)
      BY <2>4, <3>2
    <3> QED
      BY <1>1, <1>7, <3>1, <3>3, PermittedIs
  <2>6. 0 <= i * s
    <3>1. (s > 0 => k = U * m) /\ (s < 0 => k = (D - U) * m)
      BY <1>1, <1>3, <2>1
    <3>2. (s > 0 => 0 <= i) /\ (s < 0 => i <= 0)
      <4> HIDE DEF k, m, b, s
      <4> QED
        BY <2>3, <2>5, <3>1
    <3> HIDE DEF i, s
    <3> QED
      BY <1>3, <2>3, <3>2, SameSide
  <2> HIDE DEF k, b, Z
  <2> QED
    BY <1>2, <2>4, <2>6, PointsInOrder
<1> QED
  BY <1>6, <1>7
-----------------------------------------------------------------------------
(* What is chosen.                                                         *)

LEMMA CapLeaves ==
  ASSUME NEW cap \in Rationals, NEW g \in Rationals, Permitted(g, cap)
  PROVE  One \preceq Whole(2) ** cap
<1> DEFINE two == 2
           one == 1
<1>1. One \in Rationals
  BY ConstantsAreNumbers
<1>2. PICK E \in Nat \ {0}, N, M, Z \in Int : Is(cap, N, E) /\ Is(g, M, E) /\ Is(One, Z, E)
  BY <1>1, ThreeOver
<1>3. Is(One, E, E)
  BY <1>2, ZeroIs
<1>4. Is(One -- g, E - M, E)
  BY <1>2, <1>3, DifferenceIs
<1>5. g \preceq cap /\ One -- g \preceq cap
  BY DEF Permitted
<1>6. M <= N /\ E - M <= N
  BY <1>2, <1>4, <1>5, IsOrder
<1>7. two \in Int
  OBVIOUS
<1>8. Is(Whole(two), two, 1)
  BY ONLY <1>7, IsWhole
<1>9. Is(Whole(two), two, one) /\ one * E = E /\ two * N = 2 * N
  BY <1>2, <1>8
<1>10. Whole(2) = Whole(two)
  OBVIOUS
<1> HIDE DEF two, one
<1>11. Is(Whole(two) ** cap, two * N, one * E)
  BY <1>2, <1>9, TimesIs
<1>12. Is(Whole(2) ** cap, 2 * N, E)
  BY <1>9, <1>10, <1>11
<1> DEFINE t == 2 * N
           c == Whole(2) ** cap
<1>13. E <= t
  BY <1>2, <1>6
<1> HIDE DEF t, c
<1>14. One \preceq c <=> E <= t
  <2>1. Is(c, t, E)
    BY <1>12 DEF t, c
  <2> QED
    BY <1>3, <2>1, IsOrder
<1> QED
  BY <1>13, <1>14 DEF c

LEMMA OptimizeIs ==
  ASSUME NEW in, NEW cap, NEW points
  PROVE  LET frontier == efficient_frontier(in.mu, in.sigma, points, cap)
         IN optimize(in, cap, points) =
              IF frontier = Undefined THEN Undefined
              ELSE Chosen(frontier, Listed([k \in 1..points |->
                     sharpe_ratio(frontier[k].return, in.rf, frontier[k].variance)]))
BY DEF optimize

Decisions == [method : {"MINIMUM_VARIANCE", "MAX_SHARPE"}, chosen : Points, frontier : Seq(Points)]

Tangent(mu, sigma, weights) ==
  IF weights = Undefined THEN Undefined ELSE Point(weights[1], mu, sigma)

Rated(frontier, points) ==
  Listed([k \in 1..points |-> sharpe_ratio(frontier[k].return, rf, frontier[k].variance)])
Praised(target, mu, sigma, cap, grid) ==
  Efficient(target, cap, {Point(g, mu, sigma) : g \in grid}, minimum_variance_portfolio(sigma),
            Tangent(mu, sigma, tangency_portfolio(mu, sigma, rf)))

\* What is chosen of a frontier is efficient.
LEMMA ChosenIsEfficient ==
  ASSUME NEW mu, NEW sigma, NEW cap, NEW x, NEW y, NEW F, NEW A, NEW B, NEW C, NEW E,
         NEW D, NEW U, NEW L, Mandated(mu, sigma, cap, x, y, F, A, B, C, E, D, U, L),
         NEW R, Is(rf, R, F), (Highest(x, y, D, U) - L) * (x - y) > 0,
         Permitted(Unbounded(sigma), cap) => LowestRisk(sigma, cap) = Unbounded(sigma),
         NEW points \in Nat \ {0, 1}, NEW w \in [1..points -> Rationals],
         NEW frontier, Drawn(frontier, w, mu, sigma, points, Highest(x, y, D, U), L, D),
         NEW grid, grid \subseteq Rationals, \A g \in grid : Permitted(g, cap)
  PROVE  /\ Praised(Chosen(frontier, Rated(frontier, points)), mu, sigma, cap, grid)
         /\ Picked(Chosen(frontier, Rated(frontier, points)), frontier, points, rf)
<1> DEFINE H == Highest(x, y, D, U)
           N == points - 1
           permitted == {Point(g, mu, sigma) : g \in grid}
           closed == minimum_variance_portfolio(sigma)
           tangency == tangency_portfolio(mu, sigma, rf)
           tangent == Tangent(mu, sigma, tangency)
           ratios == Rated(frontier, points)
           target == Chosen(frontier, ratios)
<1>1. /\ Framed(mu, sigma, x, y, F, A, B, C, E) /\ A + B - 2 * C > 0 /\ x # y /\ cap \in Rationals
      /\ D \in Nat \ {0} /\ U \in Int /\ L \in Int /\ H \in Int
      /\ Is(LowestRisk(sigma, cap), L, D)
  BY MandatedParts DEF Mandated
<1>2. N \in Nat \ {0} /\ points \in Nat \ {0} /\ 1 \in 1..points /\ points \in 1..points /\ points - 1 = N
  OBVIOUS
<1>3. rf \in Rationals /\ Zero \in Rationals
  BY ConstantsAreNumbers
<1>4. \A k \in 1..points : Is(w[k], L * (N - (k - 1)) + H * (k - 1), D * N)
  BY DEF Drawn
<1>drawn. /\ frontier \in [1..points -> Points]
      /\ \A k \in 1..points : frontier[k] = Point(w[k], mu, sigma)
  BY DEF Drawn
<1>5. \A k \in 1..points : /\ frontier[k].weights = <<w[k], One -- w[k]>>
                           /\ frontier[k].return \in Rationals /\ frontier[k].variance \in Rationals
  <2> HIDE DEF target
  <2>1. \A k \in 1..points : frontier[k] \in Points
    BY <1>drawn
  <2>2. \A k \in 1..points : frontier[k].return \in Rationals /\ frontier[k].variance \in Rationals
    BY ONLY <2>1 DEF Points
  <2>3. \A k \in 1..points : Point(w[k], mu, sigma).weights = <<w[k], One -- w[k]>>
    BY ONLY DEF Point
  <2> QED
    BY <1>drawn, <2>2, <2>3
<1>6. /\ Picked(target, frontier, points, rf)
      /\ target \in [method : {"MINIMUM_VARIANCE", "MAX_SHARPE"}, chosen : Points, frontier : {frontier}]
      /\ target.method = "MINIMUM_VARIANCE" =>
           \A k \in 1..points : Zero \prec frontier[k].variance => frontier[k].return \preceq rf
      /\ target.method = "MAX_SHARPE" =>
           \E k \in 1..points : /\ target.chosen = frontier[k]
                                /\ Zero \prec frontier[k].variance /\ rf \prec frontier[k].return
  <2> DEFINE n == points
             rate == rf
  <2>1. n \in Nat \ {0} /\ frontier \in [1..n -> Points] /\ rate \in Rationals
    BY <1>drawn, <1>2, <1>3
  <2>2. ratios = Listed([k \in 1..n |->
                   sharpe_ratio(frontier[k].return, rate, frontier[k].variance)])
    BY DEF Rated, rate, n
  <2> HIDE DEF n, rate, ratios
  <2>3. Picked(Chosen(frontier, ratios), frontier, n, rate)
    BY ONLY <2>1, <2>2, ChosenIs
  <2> QED
    BY ONLY <2>3 DEF n, rate, target, ratios, Picked
<1>7. target.frontier = frontier /\ DOMAIN frontier = 1..points
  BY <1>drawn, <1>6
<1> HIDE DEF H, N, target, tangency, closed
<1>8. ASSUME NEW k \in DOMAIN target.frontier
      PROVE  LET p == target.frontier[k]
             IN Permitted(p.weights[1], cap) /\ ~ Beaten(p, permitted)
  <2> DEFINE p == target.frontier[k]
             j == k - 1
             f == w[k]
  <2>1. k \in 1..points /\ p = frontier[k] /\ p = Point(f, mu, sigma) /\ p.weights[1] = f
    BY <1>drawn, <1>5, <1>7, <1>8
  <2>2. j \in 0..N
    BY <1>2, <2>1 DEF N
  <2>3. Is(f, L * (N - j) + H * j, D * N)
    BY <1>4, <2>1
  <2>4. (Highest(x, y, D, U) - L) * (x - y) > 0 /\ Mandated(mu, sigma, cap, x, y, F, A, B, C, E, D, U, L)
    OBVIOUS
  <2> HIDE DEF j, f, p
  <2>5. /\ Permitted(f, cap)
        /\ \A g \in Rationals : Permitted(g, cap) => ~ Beats(Point(g, mu, sigma), Point(f, mu, sigma))
    BY ONLY <1>2, <2>2, <2>3, <2>4, FrontierHolds DEF H
  <2>6. \A q \in permitted : ~ Beats(q, p)
    BY <2>1, <2>5
  <2>7. ~ Beaten(p, permitted)
    BY <2>6 DEF Beaten, Beats
  <2> QED
    BY <2>1, <2>5, <2>7 DEF p
<1>9. ASSUME closed # Undefined, Permitted(closed[1], cap)
      PROVE  target.frontier[1].weights = closed
  <2>1. closed = <<closed[1], One -- closed[1]>> /\ closed[1] = Unbounded(sigma)
    BY <1>1, <1>9, LeastIs DEF closed
  <2>2. LowestRisk(sigma, cap) = closed[1]
    BY <1>9, <2>1
  <2>3. Is(w[1], L * N, D * N)
    <3>1. Is(w[1], L * (N - (1 - 1)) + H * (1 - 1), D * N)
      BY <1>2, <1>4
    <3>2. L * (N - (1 - 1)) + H * (1 - 1) = L * N
      BY <1>1, <1>2
    <3> QED
      BY <3>1, <3>2
  <2>4. Is(LowestRisk(sigma, cap), L * N, D * N)
    BY <1>1, <1>2, IsScaled
  <2> DEFINE l == L * N
             e == D * N
             a == w[1]
  <2>5. Is(a, l, e) /\ Is(LowestRisk(sigma, cap), l, e)
    BY <2>3, <2>4
  <2> HIDE DEF l, e, a
  <2>6. a = LowestRisk(sigma, cap)
    BY <2>5, IsOrder
  <2>7. frontier[1].weights = <<a, One -- a>>
    BY <1>2, <1>5 DEF a
  <2> QED
    BY <1>7, <2>1, <2>2, <2>6, <2>7
<1>10. ASSUME tangent # Undefined, target.method = "MAX_SHARPE"
       PROVE  \/ tangent.return \preceq rf
              \/ sharpe_ratio(target.chosen.return, rf, target.chosen.variance)
                   \preceq sharpe_ratio(tangent.return, rf, tangent.variance)
  <2>1. tangency # Undefined /\ tangent = Point(tangency[1], mu, sigma)
    BY <1>10 DEF Tangent
  <2>2. PICK k \in 1..points : /\ target.chosen = frontier[k]
                               /\ Zero \prec frontier[k].variance /\ rf \prec frontier[k].return
    BY <1>6, <1>10
  <2> DEFINE f == w[k]
             G == L * (N - (k - 1)) + H * (k - 1)
             M == D * N
             p == Point(f, mu, sigma)
  <2>3. Is(f, G, M) /\ target.chosen = p
    BY <1>drawn, <1>4, <2>2
  <2>4. Zero \prec p.variance /\ rf \prec p.return
    BY <1>drawn, <2>2
  <2> HIDE DEF f, G, M, p, tangent
  <2>5. /\ tangent.return \in Rationals
        /\ (Zero \prec p.variance /\ rf \prec p.return /\ rf \prec tangent.return) =>
              sharpe_ratio(p.return, rf, p.variance) \preceq sharpe_ratio(tangent.return, rf, tangent.variance)
    BY <1>1, <2>1, <2>3, TangentIs DEF tangency, p
  <2>6. tangent.return \preceq rf \/ rf \prec tangent.return
    BY <1>3, <2>5, Transitive
  <2> QED
    BY <2>3, <2>4, <2>5, <2>6
<1>11. ASSUME target.method = "MINIMUM_VARIANCE"
       PROVE  \A q \in permitted : Zero \prec q.variance => q.return \preceq rf
  <2> DEFINE f == w[points]
             p == Point(f, mu, sigma)
  <2>1. frontier[points] = p /\ Is(f, H * N, D * N)
    <3>1. Is(f, L * (N - (points - 1)) + H * (points - 1), D * N)
      BY <1>2, <1>4
    <3>2. L * (N - (points - 1)) + H * (points - 1) = H * N
      BY <1>1, <1>2
    <3> QED
      BY <1>drawn, <1>2, <3>1, <3>2
  <2> HIDE DEF f, p
  <2>2. /\ Zero \prec p.variance
        /\ \A g \in Rationals : Permitted(g, cap) => Point(g, mu, sigma).return \preceq p.return
    <3>1. (Highest(x, y, D, U) - L) * (x - y) > 0 /\ Mandated(mu, sigma, cap, x, y, F, A, B, C, E, D, U, L)
      OBVIOUS
    <3> QED
      BY ONLY <1>2, <2>1, <3>1, LastReturnsMost DEF H, p
  <2>3. p.return \preceq rf /\ p.return \in Rationals
    BY <1>2, <1>5, <1>6, <1>11, <2>1, <2>2
  <2>4. ASSUME NEW g \in grid PROVE Point(g, mu, sigma).return \preceq rf
    <3>1. g \in Rationals /\ Permitted(g, cap)
      OBVIOUS
    <3> DEFINE i == g[1]
               e == g[2]
    <3>2. Is(g, i, e)
      BY <3>1, IsItself
    <3> HIDE DEF i, e
    <3>3. Point(g, mu, sigma).return \in Rationals
      BY <1>1, <3>2, PointIs
    <3>4. Point(g, mu, sigma).return \preceq p.return
      BY <2>2, <3>1
    <3> QED
      BY <1>3, <2>3, <3>3, <3>4, Transitive
  <2> QED
    BY <2>4
<1>12. Efficient(target, cap, permitted, closed, tangent)
  <2> HIDE DEF permitted, tangent
  <2> QED
    BY <1>8, <1>9, <1>10, <1>11 DEF Efficient
<1> QED
  BY <1>6, <1>12 DEF target, closed, tangency, Praised
-----------------------------------------------------------------------------
(* What the optimizer answers.                                             *)

\* What ChoiceIsEfficient says of an answer.
Judged(target, in, cap, permitted) ==
  IF target = Undefined
  THEN in.mu[1] = in.mu[2] \/
       \A q \in permitted :
         q.return \preceq Point(LowestRisk(in.sigma, cap), in.mu, in.sigma).return
  ELSE Efficient(target, cap, permitted, minimum_variance_portfolio(in.sigma),
                 Tangent(in.mu, in.sigma, tangency_portfolio(in.mu, in.sigma, rf)))

LEMMA AnswerIs ==
  ASSUME NEW in, in.rf = rf, NEW x, NEW y, NEW F, NEW A, NEW B, NEW C, NEW E, NEW R,
         Framed(in.mu, in.sigma, x, y, F, A, B, C, E), Is(rf, R, F),
         x # y => A + B - 2 * C > 0,
         NEW cap \in Rationals, NEW points \in Nat \ {0, 1},
         Undefined \notin Seq(Points), Undefined \notin Decisions,
         NEW grid \in SUBSET {g \in Rationals : Permitted(g, cap)}
  PROVE  Judged(optimize(in, cap, points), in, cap, {Point(g, in.mu, in.sigma) : g \in grid})
<1> DEFINE mu == in.mu
           sigma == in.sigma
           frontier == efficient_frontier(mu, sigma, points, cap)
           target == optimize(in, cap, points)
           permitted == {Point(g, mu, sigma) : g \in grid}
           low == Point(LowestRisk(sigma, cap), mu, sigma).return
           closed == minimum_variance_portfolio(sigma)
           tangent == Tangent(mu, sigma, tangency_portfolio(mu, sigma, rf))
<1>1. target = IF frontier = Undefined THEN Undefined ELSE Chosen(frontier, Rated(frontier, points))
  BY OptimizeIs DEF Rated
<1>2. Judged(target, in, cap, permitted) <=>
        IF target = Undefined THEN mu[1] = mu[2] \/ \A q \in permitted : q.return \preceq low
        ELSE Efficient(target, cap, permitted, closed, tangent)
  BY ONLY DEF Judged
<1>3. Framed(mu, sigma, x, y, F, A, B, C, E)
  OBVIOUS
<1>4. mu[1] = mu[2] <=> x = y
  <2>1. Is(mu[1], x, F) /\ Is(mu[2], y, F)
    BY <1>3 DEF Framed
  <2> HIDE DEF mu
  <2> QED
    BY <2>1, IsOrder
<1> HIDE DEF target, mu, sigma
<1>5. CASE x = y
  <2>1. frontier = Undefined
    BY <1>4, <1>5 DEF efficient_frontier
  <2> QED
    BY <1>1, <1>2, <1>4, <1>5, <2>1 DEF target, mu, sigma
<1>6. CASE x # y /\ ~ (One \preceq Whole(2) ** cap)
  <2>1. Whole(2) ** cap \prec One
    <3> DEFINE two == 2
    <3>1. two \in Int
      OBVIOUS
    <3>2. Whole(two) \in Rationals
      BY ONLY <3>1, IsWhole
    <3>3. Whole(2) ** cap \in Rationals
      BY <3>2, Closed
    <3> QED
      BY <1>6, <3>3, ConstantsAreNumbers, Transitive
  <2>2. frontier = Undefined
    BY <2>1 DEF efficient_frontier
  <2>3. permitted = {}
    BY <1>6, CapLeaves
  <2> QED
    BY <1>1, <1>2, <2>2, <2>3 DEF target, mu, sigma
<1>7. CASE x # y /\ One \preceq Whole(2) ** cap
  <2>1. A + B - 2 * C > 0
    BY <1>7
  <2>2. /\ \E D, U, L : Bounded(sigma, cap, A, B, C, D, U, L)
        /\ Permitted(Unbounded(sigma), cap) => LowestRisk(sigma, cap) = Unbounded(sigma)
    BY <1>3, <1>7, <2>1, LowestIs
  <2>3. PICK D, U, L : Bounded(sigma, cap, A, B, C, D, U, L)
    BY <2>2
  <2>4. Mandated(mu, sigma, cap, x, y, F, A, B, C, E, D, U, L)
    BY <1>3, <1>7, <2>1, <2>3 DEF Mandated
  <2> DEFINE H == Highest(x, y, D, U)
             s == (H - L) * (x - y)
  <2>5. /\ s <= 0 => frontier = Undefined
        /\ s > 0 => \E w \in [1..points -> Rationals] :
                      Drawn(frontier, w, mu, sigma, points, H, L, D)
    BY <1>3, <1>7, <2>3, FrontierIs
  <2>6. s \in Int
    <3>1. /\ x \in Int /\ y \in Int /\ D \in Int /\ U \in Int /\ L \in Int
          /\ Highest(x, y, D, U) = IF y < x THEN U ELSE D - U
      BY ONLY <2>4, MandatedParts
    <3>2. Highest(x, y, D, U) \in Int
      BY ONLY <3>1
    <3> QED
      BY ONLY <3>1, <3>2
  <2>7. CASE s <= 0
    <3>1. ASSUME NEW g \in grid PROVE Point(g, mu, sigma).return \preceq low
      <4>1. g \in Rationals /\ Permitted(g, cap) /\ (Highest(x, y, D, U) - L) * (x - y) <= 0
        BY <2>7
      <4> QED
        BY ONLY <2>4, <4>1, NoneReturnsMore
    <3>2. \A q \in permitted : q.return \preceq low
      BY <3>1
    <3> QED
      BY <1>1, <1>2, <2>5, <2>7, <3>2 DEF target, mu, sigma
  <2>8. CASE s > 0
    <3>1. PICK w \in [1..points -> Rationals] : Drawn(frontier, w, mu, sigma, points, H, L, D)
      BY <2>5, <2>8
    <3>2. /\ (Highest(x, y, D, U) - L) * (x - y) > 0
          /\ Drawn(frontier, w, mu, sigma, points, Highest(x, y, D, U), L, D)
          /\ points \in Nat \ {0, 1} /\ w \in [1..points -> Rationals] /\ Is(rf, R, F)
          /\ grid \subseteq Rationals /\ \A g \in grid : Permitted(g, cap)
      BY <2>8, <3>1
    <3> HIDE DEF frontier, H, s
    <3>3. frontier # Undefined /\ frontier \in Seq(Points)
      BY <3>1 DEF Drawn
    <3> DEFINE picked == Chosen(frontier, Rated(frontier, points))
    <3>4. Praised(picked, mu, sigma, cap, grid) /\ Picked(picked, frontier, points, rf)
      BY ONLY <2>2, <2>4, <3>2, ChosenIsEfficient
    <3>5. Efficient(picked, cap, permitted, closed, tangent)
      BY <3>4 DEF Praised
    <3>6. target = picked
      BY <1>1, <3>3
    <3> HIDE DEF picked, permitted, closed, tangent
    <3>7. picked # Undefined
      <4>1. picked \in Decisions
        BY <3>3, <3>4 DEF Decisions, Picked
      <4> QED
        BY <4>1
    <3>8. IF target = Undefined THEN mu[1] = mu[2] \/ \A q \in permitted : q.return \preceq low
          ELSE Efficient(target, cap, permitted, closed, tangent)
      BY <3>5, <3>6, <3>7
    <3>9. Judged(target, in, cap, permitted)
      BY ONLY <1>2, <3>8
    <3> QED
      BY <3>9 DEF target, permitted, mu, sigma
  <2> QED
    BY <2>6, <2>7, <2>8
<1> QED
  BY <1>5, <1>6, <1>7

\* Mandates an optimizer is run with.  Names that are one in risk may be tilted
\* apart only where something is shrunk: two names of one risk and two returns
\* have no portfolio of least risk.
PoliciesFit ==
  /\ Policies \subseteq [cap : Rationals, tilts : Rationals \X Rationals, intensity : Rationals]
  /\ \A p \in Policies : /\ Zero \preceq p.intensity /\ p.intensity \preceq One
                         /\ Zero \prec p.intensity \/ p.tilts[1] = p.tilts[2]
  /\ market_return \in Rationals /\ frontier_points \in Nat \ {0, 1}
  /\ Undefined \notin Seq(Points) \cup Decisions

\* What ChoiceIsEfficient says of one fit and one mandate.
Sound(in, cap) ==
  Judged(optimize(in, cap, frontier_points), in, cap,
         {Point(g, in.mu, in.sigma) : g \in {q \in Offered : Permitted(q, cap)}})

LEMMA ChoiceIs ==
  ASSUME PoliciesFit, SeriesFit, Years >= 3, NEW policy \in Policies,
         estimate_beta(Excess(stock), Excess(market)) # Undefined
  PROVE  Sound(InputsOf(estimate_beta(Excess(stock), Excess(market)), policy), policy.cap)
<1> DEFINE n == Years
           cap == policy.cap
           tilts == policy.tilts
           intensity == policy.intensity
           points == frontier_points
           grid == {q \in Offered : Permitted(q, cap)}
           in == estimate_inputs(<<stock, market>>,
                   <<estimate_beta(Excess(stock), Excess(market)).slope, One>>, market_return, rf,
                   tilts, intensity)
<1>1. n \in Nat \ {0, 1, 2} /\ stock \in [1..n -> Rationals] /\ market \in [1..n -> Rationals]
  BY DEF SeriesFit, Years
<1>2. /\ cap \in Rationals /\ tilts \in Rationals \X Rationals /\ intensity \in Rationals
      /\ Zero \preceq intensity /\ intensity \preceq One
      /\ Zero \prec intensity \/ tilts[1] = tilts[2]
      /\ market_return \in Rationals /\ points \in Nat \ {0, 1}
      /\ Undefined \notin Seq(Points) /\ Undefined \notin Decisions
  BY DEF PoliciesFit
<1>3. grid \subseteq Rationals /\ \A g \in grid : Permitted(g, cap)
  BY TrackRecordAssumption
<1> HIDE DEF n, cap, tilts, intensity, points, grid
<1>4. PICK d, X, Y, xx, xy, yy : Measured(market, stock, n, d, X, Y, xx, xy, yy)
  BY <1>1, MeasuresExist
<1>5. /\ in.rf = rf
      /\ \E g, h, F, A, B, C, E, R : /\ Framed(in.mu, in.sigma, g, h, F, A, B, C, E)
                                     /\ Is(rf, R, F) /\ (g # h => A + B - 2 * C > 0)
  BY <1>2, <1>4, InputsAre
<1> HIDE DEF in
<1>6. PICK g, h, F, A, B, C, E, R : /\ Framed(in.mu, in.sigma, g, h, F, A, B, C, E)
                                    /\ Is(rf, R, F) /\ (g # h => A + B - 2 * C > 0)
  BY <1>5
<1>7. grid \in SUBSET {g_1 \in Rationals : Permitted(g_1, cap)}
  BY <1>3
<1>8. Judged(optimize(in, cap, points), in, cap, {Point(g_1, in.mu, in.sigma) : g_1 \in grid})
  BY ONLY <1>2, <1>5, <1>6, <1>7, AnswerIs
<1>9. Sound(in, cap)
  BY <1>8 DEF Sound, grid, points
<1> QED
  BY <1>9 DEF InputsOf, in, cap, tilts, intensity

LEMMA ChoiceFollows ==
  ASSUME PoliciesFit
  PROVE  SeriesFit => ChoiceIsEfficient
<1> SUFFICES ASSUME SeriesFit PROVE ChoiceIsEfficient
  OBVIOUS
<1> DEFINE fit == estimate_beta(Excess(stock), Excess(market))
<1>1. ASSUME Years >= 3, fit # Undefined, NEW policy \in Policies
      PROVE  Sound(InputsOf(fit, policy), policy.cap)
  BY <1>1, ChoiceIs
<1> HIDE DEF fit
<1>2. (Years >= 3 /\ fit # Undefined) => \A policy \in Policies : Sound(InputsOf(fit, policy), policy.cap)
  BY <1>1
<1> QED
  BY <1>2 DEF ChoiceIsEfficient, Sound, Judged, Tangent, fit
-----------------------------------------------------------------------------
(* What is told is true, and what is priced is fair.                       *)

\* Whatever the record, what is told of it is what its holder had: linked
\* returns are the growth of the curve, the drawdown is the worst loss and
\* someone had it, unsmoothed appraisals are the returns, equal returns are the
\* internal rate of whatever is paid in, under every fee agreement the incentive
\* fees are a share of the rise of the mark, the fit, the correlation and the
\* decomposition of risk agree, and the report ranks book and index one way and,
\* where it can fit the index to itself, finds nothing to praise in it.  A record
\* has any length, shorter or longer than a year; of the power that makes a
\* year of it only that it is a number is assumed (returns.py, metrics.py,
\* portfolio.py, alternatives.py).
THEOREM ReportsHold ==
  ASSUME YearlyFits
  PROVE  RecordSpec => []ReportsAreTrue
<1>1. RecordInv => ReportsAreTrue
  BY ReturnsHold, FitHolds, ReportHolds DEF RecordInv, ReportsAreTrue
<1> QED
  BY <1>1, RecordHolds, PTL

\* Wherever the stock goes, positions that pay the same cost the same, at every
\* strike and premium, and time value, where the code gives one, is worth the
\* interest on the strike.  Of a negative rate it is not said: a strike in bills
\* is then worth more than the strike, and the bounds the code puts on an
\* American option cross (derivatives.py).
THEOREM OptionsHold ==
  ASSUME Zero \preceq rf, \A strike \in Strikes : Zero \preceq strike
  PROVE  RecordSpec => []OptionsAreFair
<1>1. RecordInv => OptionsAreFair
  BY OptionsFollow DEF RecordInv
<1> QED
  BY <1>1, RecordHolds, PTL

\* Whatever the record, the optimizer picks no portfolio another permitted one
\* beats: every point of its frontier is within the mandate and none of Offered,
\* any set of weights up to that of all, returns as much at less risk; the
\* frontier starts at the closed form of least risk where that is permitted, no
\* Sharpe ratio passes that of the tangency portfolio, and cash is preferred only
\* where nothing risky returns more.  It makes no choice only where no permitted
\* portfolio returns more than that of least risk (portfolio.py, optimizer.py).
THEOREM ChoiceHolds ==
  ASSUME PoliciesFit
  PROVE  RecordSpec => []ChoiceIsEfficient
<1>1. RecordInv => ChoiceIsEfficient
  BY ChoiceFollows DEF RecordInv
<1> QED
  BY <1>1, RecordHolds, PTL

\* All of it, at any rate of at least zero, any strikes, bills, bonds and yields
\* within the bracket of the search, and any mandates.
THEOREM NoFreeLunchHolds ==
  ASSUME Zero \preceq rf, \A strike \in Strikes : Zero \preceq strike,
         Bonds \subseteq [coupon : Rationals, years : Nat \ {0}, frequency : Nat \ {0}],
         \A bond \in Bonds : Zero \preceq bond.coupon,
         Yields \subseteq Rationals,
         \A yield \in Yields : Q(-99, 100) \preceq yield /\ yield \preceq Whole(10),
         PoliciesFit
  PROVE  RecordSpec => []NoFreeLunch
<1>1. BondsAreFair
  BY BondsHold
<1>2. RecordInv => NoFreeLunch
  BY <1>1, OptionsFollow, BillsHold, ChoiceFollows DEF RecordInv, NoFreeLunch
<1> QED
  BY <1>2, RecordHolds, PTL
=============================================================================
