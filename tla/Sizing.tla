------------------------------- MODULE Sizing -------------------------------
(***************************************************************************)
(* Mandates and share-count sizing: src/decision/mandate.py build_mandate  *)
(* and mandate_id, src/execution/base.py size_orders.                      *)
(*                                                                         *)
(* Weights are integers out of WeightUnit, money and prices are integers.  *)
(* A symbol is its rank in the alphabetical order the code sorts by.       *)
(***************************************************************************)
EXTENDS Integers

CONSTANTS
  NumSymbols,       \* how many instruments there are
  WeightUnit,       \* the weight 1.0
  MinTradeNotional  \* mandate.constraints.min_trade_notional

ASSUME SizingAssumption ==
  /\ NumSymbols \in Nat
  /\ WeightUnit \in Nat \ {0}
  /\ MinTradeNotional \in Nat

Symbols == 1..NumSymbols

\* market.price(symbol) is None or not positive
NoPrice == 0

Weights == 0..WeightUnit

\* Whole books of target weights, and the part of one a mandate mentions.
WeightBooks == [Symbols -> Weights]
Targets == UNION {[D -> Weights] : D \in SUBSET Symbols}

Magnitude(n) == IF n < 0 THEN -n ELSE n

\* Mutant: a position that is not wanted any more is left out.
MentionedWanted(book, current) == {s \in Symbols : book[s] # 0}

(***************************************************************************)
(* build_mandate keeps a symbol that is wanted or whose current weight is  *)
(* not zero: an exit is a target of zero.  The identity is the content:    *)
(* two mandates are the same one when time, value and targets agree,       *)
(* whatever the book they were decided from (current_weight is not hashed).*)
(***************************************************************************)
Mentioned(book, current) ==
  {s \in Symbols : book[s] # 0 \/ current[s] # 0}

BuildMandate(time, value, book, current) ==
  [decision_time   |-> time,
   portfolio_value |-> value,
   targets         |-> [s \in Mentioned(book, current) |-> book[s]]]

MandateId(m) == <<m.decision_time, m.portfolio_value, m.targets>>

\* Mutant: rounded up.
DesiredSharesRoundedUp(weight, value, price) ==
  (weight * value + WeightUnit * price - 1) \div (WeightUnit * price)

(***************************************************************************)
(* size_orders, one symbol at a time.  DesiredShares rounds towards zero;  *)
(* SizedQuantity is the signed size of the order, 0 when none is made.     *)
(***************************************************************************)
DesiredShares(weight, value, price) ==
  (weight * value) \div (WeightUnit * price)

Priced(m, prices) == {s \in DOMAIN m.targets : prices[s] # NoPrice}

\* Mutant: what is held is not netted.
ShareDeltaGross(m, held, value, prices, s) ==
  DesiredShares(m.targets[s], value, prices[s])

ShareDelta(m, held, value, prices, s) ==
  DesiredShares(m.targets[s], value, prices[s]) - held[s]

BelowMinimum(delta, price) ==
  /\ delta # 0
  /\ Magnitude(delta) * price < MinTradeNotional

SizedQuantity(m, held, value, prices, s) ==
  LET delta == ShareDelta(m, held, value, prices, s)
  IN  IF s \notin Priced(m, prices) \/ BelowMinimum(delta, prices[s])
        THEN 0
        ELSE delta

\* Mutant: a trade below the minimum is dropped without a word.
SizingRejectionsSilent(m, held, value, prices) ==
  {<<s, "NO_PRICE">> : s \in DOMAIN m.targets \ Priced(m, prices)}

(***************************************************************************)
(* Why size_orders made no order although the mandate asked for a change.  *)
(***************************************************************************)
SizingRejections(m, held, value, prices) ==
  {<<s, "NO_PRICE">> : s \in DOMAIN m.targets \ Priced(m, prices)}
    \cup
  {<<s, "BELOW_MIN_NOTIONAL">> :
     s \in {t \in Priced(m, prices) :
              BelowMinimum(ShareDelta(m, held, value, prices, t), prices[t])}}
=============================================================================
