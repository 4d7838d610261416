------------------------- MODULE SimulatedExecution -------------------------
(***************************************************************************)
(* src/execution/simulated.py and fill_models.py: SimulatedExecutor        *)
(* working one mandate after another for run_backtest, which rebuilds its  *)
(* account from each report (src/backtest/engine.py:179-220, 343-363).     *)
(*                                                                         *)
(* A session brings new closes and the book of weights the risk engine     *)
(* approves; a close of zero is a price the executor cannot use.  Orders   *)
(* are worked one by one, in the order of their symbols.                   *)
(***************************************************************************)
EXTENDS Sizing, FiniteSetsExt

CONSTANTS
  InitialCash,         \* BacktestConfig.initial_cash
  Markets,             \* closes a session may bring
  Books,               \* books of target weights that may be approved
  SpreadBps,           \* SpreadCrossFillModel.spread_bps, 0 for Instant
  BpsUnit,             \* what SpreadBps is out of
  CommissionPerShare,  \* SpreadCrossFillModel.commission_per_share
  MaxSessions          \* bound: how often the closes change

HalfSpread(price) == (price * SpreadBps) \div (2 * BpsUnit)

\* SpreadCrossFillModel: the far side of the spread, the price itself when the
\* spread would drive it to zero or below.
FillPrice(qty, price) ==
  LET crossed == IF qty > 0 THEN price + HalfSpread(price)
                            ELSE price - HalfSpread(price)
  IN  IF crossed > 0 THEN crossed ELSE price

\* Mutant: charged on the signed quantity.
CommissionSigned(qty) == CommissionPerShare * qty

Commission(qty) == CommissionPerShare * Magnitude(qty)

ASSUME SimulatedAssumption ==
  /\ InitialCash \in Nat
  /\ Markets \subseteq [Symbols -> Nat]
  /\ Books \subseteq WeightBooks
  /\ SpreadBps \in Nat
  /\ BpsUnit \in Nat \ {0}
  /\ CommissionPerShare \in Nat
  /\ MaxSessions \in Nat
  \* half a spread is exact, as it is in the code's decimals
  /\ \A closes \in Markets, s \in Symbols :
       (closes[s] * SpreadBps) % (2 * BpsUnit) = 0

\* A sale brings in at least its commission: no share is worth less than what
\* it costs to sell it.
ASSUME SellsPay ==
  \A closes \in Markets, s \in Symbols :
    closes[s] # NoPrice => CommissionPerShare <= FillPrice(-1, closes[s])

VARIABLES
  session,    \* how many sessions were opened
  prices,     \* latest close per symbol
  approved,   \* the weights the risk engine lets through
  cash,       \* account.cash
  position,   \* account.positions
  pc,         \* "idle" between rebalances, "working" inside execute
  mandate,    \* the mandate being worked
  todo,       \* symbols whose order is still to be worked
  sized,      \* signed size of the order per symbol
  wcash,      \* execute: the local cash
  wposition,  \* execute: the local positions
  rejections, \* execute: <<symbol, code>> of what was not traded
  start,      \* execute: starting_value
  costs       \* auxiliary: commission and half spreads paid by this execution

offered == <<session, prices, approved>>
book == <<cash, position>>
progress == <<wcash, wposition, rejections, costs>>
work == <<mandate, sized, start>>
vars == <<offered, book, pc, todo, work, progress>>

Quiet == [s \in Symbols |-> 0]
NoMandate == [decision_time |-> 0, portfolio_value |-> 0, targets |-> <<>>]

\* Account.total_value: cash plus the holdings at the latest closes.
Holdings(held) == SumFunctionOnSet([s \in Symbols |-> held[s] * prices[s]], Symbols)
TotalValue(money, held) == money + Holdings(held)

-----------------------------------------------------------------------------
(* The event loop around the executor.                                     *)

\* A session with other closes or another approved book; a session like the
\* one before it is not counted.
NewSession ==
  /\ pc = "idle"
  /\ session < MaxSessions
  /\ session' = session + 1
  /\ prices' \in Markets
  /\ approved' \in Books
  /\ UNCHANGED <<book, pc, todo, work, progress>>

\* _rebalance once the risk engine has let the weights through: the mandate is
\* built, and size_orders sizes it at the very same closes.  A worthless
\* portfolio raises ExecutionError, which ends the run.
Rebalance ==
  LET value == TotalValue(cash, position)
      m == BuildMandate(session, value, approved,
                        [s \in Symbols |-> position[s] * prices[s]])
  IN  /\ pc = "idle"
      /\ value \in Nat \ {0}
      /\ mandate' = m
      /\ sized' = [s \in Symbols |->
                     SizedQuantity(m, position, value, prices, s)]
      /\ todo' = {s \in Symbols : sized'[s] # 0}
      /\ rejections' = SizingRejections(m, position, value, prices)
      /\ start' = value
      /\ wcash' = cash
      /\ wposition' = position
      /\ costs' = 0
      /\ pc' = "working"
      /\ UNCHANGED <<offered, book>>

-----------------------------------------------------------------------------
(* SimulatedExecutor.execute.                                              *)

\* orders.sort(key=symbol): the next order in line is that of s.
InLine(s) ==
  /\ pc = "working"
  /\ s \in todo
  /\ \A t \in todo : s <= t

Notional(s) == Magnitude(sized[s]) * FillPrice(sized[s], prices[s])

\* Mutant: the commission is not part of what a buy must be able to pay.
AffordableBeforeCommission(s) == sized[s] > 0 => Notional(s) <= wcash

\* Only a buy is checked, against the cash left by the orders before it.
Affordable(s) ==
  sized[s] > 0 => Notional(s) + Commission(sized[s]) <= wcash

\* Mutant: the commission is reported and never paid.
FillOrderUnpaid(s) ==
  /\ InLine(s)
  /\ Affordable(s)
  /\ wposition' = [wposition EXCEPT ![s] = @ + sized[s]]
  /\ wcash' = wcash - sized[s] * FillPrice(sized[s], prices[s])
  /\ costs' = costs + Commission(sized[s])
      + Magnitude(sized[s]) * Magnitude(FillPrice(sized[s], prices[s]) - prices[s])
  /\ todo' = todo \ {s}
  /\ UNCHANGED <<offered, book, pc, work, rejections>>

\* Mutant: the fill replaces the holding.
FillOrderOverwrites(s) ==
  /\ InLine(s)
  /\ Affordable(s)
  /\ wposition' = [wposition EXCEPT ![s] = sized[s]]
  /\ wcash' = wcash - sized[s] * FillPrice(sized[s], prices[s])
                    - Commission(sized[s])
  /\ costs' = costs + Commission(sized[s])
      + Magnitude(sized[s]) * Magnitude(FillPrice(sized[s], prices[s]) - prices[s])
  /\ todo' = todo \ {s}
  /\ UNCHANGED <<offered, book, pc, work, rejections>>

FillOrder(s) ==
  /\ InLine(s)
  /\ Affordable(s)
  /\ wposition' = [wposition EXCEPT ![s] = @ + sized[s]]
  /\ wcash' = wcash - sized[s] * FillPrice(sized[s], prices[s])
                    - Commission(sized[s])
  /\ costs' = costs + Commission(sized[s])
      + Magnitude(sized[s]) * Magnitude(FillPrice(sized[s], prices[s]) - prices[s])
  /\ todo' = todo \ {s}
  /\ UNCHANGED <<offered, book, pc, work, rejections>>

\* Mutant: break where the code continues.
RejectForCashBreaks(s) ==
  /\ InLine(s)
  /\ ~ Affordable(s)
  /\ rejections' = rejections \cup {<<s, "INSUFFICIENT_CASH">>}
  /\ todo' = {}
  /\ UNCHANGED <<offered, book, pc, work, wcash, wposition, costs>>

\* INSUFFICIENT_CASH: the order is dropped, the ones after it still run.
RejectForCash(s) ==
  /\ InLine(s)
  /\ ~ Affordable(s)
  /\ rejections' = rejections \cup {<<s, "INSUFFICIENT_CASH">>}
  /\ todo' = todo \ {s}
  /\ UNCHANGED <<offered, book, pc, work, wcash, wposition, costs>>

\* The report is yielded, and run_backtest makes it the account.
Adopt ==
  /\ pc = "working"
  /\ todo = {}
  /\ cash' = wcash
  /\ position' = wposition
  /\ pc' = "idle"
  /\ UNCHANGED <<offered, todo, work, progress>>

-----------------------------------------------------------------------------
Init ==
  /\ session = 1
  /\ prices \in Markets
  /\ approved \in Books
  /\ cash = InitialCash
  /\ position = Quiet
  /\ pc = "idle"
  /\ mandate = NoMandate
  /\ todo = {}
  /\ sized = Quiet
  /\ start = 0
  /\ wcash = InitialCash
  /\ wposition = Quiet
  /\ rejections = {}
  /\ costs = 0

WorkOrder(s) == FillOrder(s) \/ RejectForCash(s)

Cycle == Rebalance \/ (\E s \in Symbols : WorkOrder(s)) \/ Adopt

Next == NewSession \/ Cycle

Spec == Init /\ [][Next]_vars

\* The loop is one thread that never waits: as long as there are events it
\* rebalances and works every order to the report.
FairSpec == Spec /\ WF_vars(Cycle)
-----------------------------------------------------------------------------
(* Properties.                                                             *)

Rejected(s) == \E r \in rejections : r[1] = s

Executed == mandate # NoMandate /\ todo = {}

TypeOK ==
  /\ session \in Nat
  /\ prices \in Markets
  /\ approved \in Books
  /\ cash \in Int
  /\ position \in [Symbols -> Int]
  /\ pc \in {"idle", "working"}
  /\ mandate = NoMandate \/ mandate.targets \in Targets
  /\ todo \subseteq Symbols
  /\ sized \in [Symbols -> Int]
  /\ \A s \in todo : sized[s] # 0
  /\ start \in Nat
  /\ wcash \in Int
  /\ wposition \in [Symbols -> Int]
  /\ costs \in Nat

\* An order that would overdraw cash is rejected rather than silently creating
\* leverage (simulated.py:40-42): cash never goes below zero, whatever the
\* order in which buys and the sales that should fund them are worked.
NeverOverdrawn == wcash >= 0 /\ cash >= 0

\* Nothing is sold that is not held: the book stays long-only across moving
\* prices, rejected orders and partial rebalances.
NeverShort == \A s \in Symbols : wposition[s] >= 0 /\ position[s] >= 0

\* Trading neither makes nor loses money but for its costs: at every point of
\* an execution, cash and holdings at the closes it was sized with are the
\* starting value less spread and commission paid (simulated.py:96-107).
ValueConserved ==
  pc = "working" => TotalValue(wcash, wposition) + costs = start

\* A position the approved book leaves out is sold to the last share and never
\* stranded (mandate.py:175-179), unless the report names it as rejected.
ExitsAreSold ==
  Executed /\ pc = "working" =>
    \A s \in Symbols :
      approved[s] = 0 /\ prices[s] # NoPrice /\ ~ Rejected(s) => wposition[s] = 0

\* No symbol that was bought is worth more than its target share of the value
\* it was sized from (base.py:275): rounding towards zero, the rejections and
\* the order of the fills only ever leave it below.
NeverAboveTarget ==
  \A s \in Symbols :
    pc = "working" /\ sized[s] > 0 =>
      wposition[s] * prices[s] * WeightUnit <= approved[s] * start

\* Whatever an account ends with is explained by the report: a priced symbol
\* is at its whole-share target or the report carries a rejection for it.
DriftIsExplained ==
  Executed /\ pc = "working" =>
    \A s \in DOMAIN mandate.targets :
      \/ Rejected(s)
      \/ wposition[s] = DesiredShares(mandate.targets[s], start, prices[s])

\* What the next rebalance would still order.
Missing(s) ==
  LET delta == DesiredShares(approved[s], TotalValue(cash, position), prices[s])
                 - position[s]
  IN  IF prices[s] = NoPrice \/ BelowMinimum(delta, prices[s]) THEN 0 ELSE delta

\* A buy rejected because the sale that would have paid for it came later is
\* made up for: once the closes and the approved weights stand still, the
\* only orders left undone are buys the account cannot pay for, for good.
TradesWhatItCan ==
  <>[](\A s \in Symbols :
         \/ Missing(s) = 0
         \/ /\ Missing(s) > 0
            /\ Missing(s) * FillPrice(1, prices[s]) + Commission(Missing(s)) > cash)
=============================================================================
