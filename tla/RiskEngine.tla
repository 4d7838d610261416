----------------------------- MODULE RiskEngine -----------------------------
(***************************************************************************)
(* src/risk/engine.py: evaluate, the function every book of target weights *)
(* passes, and the cycles around it: the market moves the weights held,    *)
(* the optimizer asks for others, the breaker trips and recovers, and what *)
(* is approved becomes the book.                                           *)
(*                                                                         *)
(* Weights are integers out of WeightUnit and quotients are rounded down,  *)
(* where the code rounds decimals: Tolerance is the slack for it.  The     *)
(* covariance has one factor (cov(a,b) = Loading[a] * Loading[b]), so that *)
(* the root of the quadratic form is exact.  A symbol a book does not      *)
(* mention has weight 0 in it.  The policy is long-only, as ips.yaml is.   *)
(***************************************************************************)
EXTENDS Integers, FiniteSetsExt

CONSTANTS
  NumSymbols,
  WeightUnit,    \* the weight 1.0
  Tolerance,     \* TOLERANCE
  Policy,        \* InvestmentPolicy: the limits, named as in the code
  Universe,      \* context.universe
  Sector,        \* context.sectors
  Beta,          \* context.betas, in the unit of Policy.max_portfolio_beta
  Loading,       \* the square root of each variance, in that of the limit
  Return,        \* context.expected_returns
  RiskFree,      \* context.risk_free_rate
  Books,         \* books held at the start
  Proposals,     \* books the optimizer may ask for
  MinVariance,   \* books minimum_variance_portfolio may find (none: singular)
  Blockings,     \* sets of symbols inside their wash-sale window
  MaxShocks      \* bound: how often market or context change

Symbols == 1..NumSymbols
Sectors == {Sector[s] : s \in Symbols}
Empty == [s \in Symbols |-> 0]

ASSUME RiskAssumption ==
  /\ NumSymbols \in Nat
  /\ WeightUnit \in Nat \ {0, 1}
  /\ Tolerance \in Nat
  /\ Universe \subseteq Symbols
  /\ DOMAIN Sector = Symbols
  /\ Beta \in [Symbols -> Int]
  /\ Loading \in [Symbols -> Nat]
  /\ Return \in [Symbols -> Int]
  /\ RiskFree \in Int
  /\ Policy \in [max_position_weight : Nat, max_sector_weight : Nat,
                 max_gross_exposure : Nat, min_cash_buffer : 0..WeightUnit,
                 max_portfolio_beta : Nat, max_annualized_volatility : Nat,
                 threshold_return : Int, minimum_ratio : Int,
                 corridor_absolute : Nat, max_turnover : Nat]
  /\ Books \subseteq [Symbols -> 0..WeightUnit]
  /\ Proposals \cup MinVariance \subseteq [Symbols -> Int]
  /\ Blockings \subseteq SUBSET Symbols
  /\ MaxShocks \in Nat

VARIABLES
  book,     \* context.current_weights: the weights held
  context,  \* what the next evaluation is asked, and under what conditions
  verdict,  \* the last assessment, with the book and context it was made in
  shocks    \* how often market or context changed

vars == <<book, context, verdict, shocks>>

Contexts == [proposed : Proposals, min_variance : MinVariance,
             tripped : BOOLEAN, blocked : Blockings]
-----------------------------------------------------------------------------
(* Measurement.                                                            *)

\* f itself; TLC evaluates it once, and not anew for each sum it goes into.
Tabulated(f) == CHOOSE g \in {f} : g = f

Magnitude(n) == IF n < 0 THEN -n ELSE n
Lesser(m, n) == IF m <= n THEN m ELSE n

OverSymbols(f) == SumFunctionOnSet(f, Symbols)

Gross(w) == OverSymbols(w)
portfolio_beta(w) == OverSymbols([s \in Symbols |-> w[s] * Beta[s]])
portfolio_volatility(w) == Magnitude(OverSymbols([s \in Symbols |-> w[s] * Loading[s]]))
SectorExposure(w, sector) ==
  OverSymbols([s \in Symbols |-> IF Sector[s] = sector THEN w[s] ELSE 0])

\* Twice the one-way turnover.
Traded(from, to) == OverSymbols([s \in Symbols |-> Magnitude(to[s] - from[s])])

max_drift(from, to) == Max({Magnitude(to[s] - from[s]) : s \in Symbols} \cup {0})

ExpectedReturn(w) ==
  OverSymbols([s \in Symbols |-> w[s] * Return[s]]) + (WeightUnit - Gross(w)) * RiskFree

\* Roy's ratio below its floor; a riskless book has none and passes.
BelowSafetyFirst(w) ==
  /\ portfolio_volatility(w) > 0
  /\ ExpectedReturn(w) - Policy.threshold_return * WeightUnit
       < Policy.minimum_ratio * portfolio_volatility(w)

\* The most a beta gains when weights are rounded down: by less than a unit
\* each, which matters where the beta of the symbol is negative.
BetaGain == OverSymbols([s \in Symbols |-> IF Beta[s] < 0 THEN -Beta[s] ELSE 0])

\* A book is bought with what there is: its weights add up to one at most.
ASSUME BooksArePaidFor == \A w \in Books : Gross(w) <= WeightUnit

\* Rounding loses far less than the tolerance, as it does in the code: 28
\* digits against 1e-12.
ASSUME ToleranceCoversRounding ==
  /\ NumSymbols <= Tolerance
  /\ 2 * BetaGain <= Tolerance * WeightUnit

-----------------------------------------------------------------------------
(* verify: the gate.                                                       *)

verify(w, blocked) ==
  {code \in {"NO_SHORTING", "MAX_POSITION_WEIGHT", "UNIVERSE_WHITELIST",
             "WASH_SALE_WINDOW"} :
     \E s \in Symbols :
       \/ code = "NO_SHORTING" /\ w[s] < -Tolerance
       \/ code = "MAX_POSITION_WEIGHT" /\ w[s] > Policy.max_position_weight + Tolerance
       \/ code = "UNIVERSE_WHITELIST" /\ w[s] # 0 /\ s \notin Universe
       \/ code = "WASH_SALE_WINDOW" /\ w[s] > Tolerance /\ s \in blocked}
    \cup
  {code \in {"MAX_SECTOR_WEIGHT", "NO_LEVERAGE", "MIN_CASH_BUFFER",
             "MAX_PORTFOLIO_BETA", "MAX_VOLATILITY", "SAFETY_FIRST_THRESHOLD"} :
     \/ /\ code = "MAX_SECTOR_WEIGHT"
        /\ \E c \in Sectors :
             SectorExposure(w, c) > Policy.max_sector_weight + Tolerance
     \/ /\ code = "NO_LEVERAGE"
        /\ Gross(w) > Policy.max_gross_exposure + Tolerance
     \/ /\ code = "MIN_CASH_BUFFER"
        /\ WeightUnit - Gross(w) < Policy.min_cash_buffer - Tolerance
     \/ /\ code = "MAX_PORTFOLIO_BETA"
        /\ portfolio_beta(w) > (Policy.max_portfolio_beta + Tolerance) * WeightUnit
     \/ /\ code = "MAX_VOLATILITY"
        /\ portfolio_volatility(w)
             > (Policy.max_annualized_volatility + Tolerance) * WeightUnit
     \/ code = "SAFETY_FIRST_THRESHOLD" /\ BelowSafetyFirst(w)}

-----------------------------------------------------------------------------
(* The repairs, in the order evaluate makes them.                          *)

\* Circuit breaker: the proposal is replaced outright.
Requested(c) ==
  IF c.tripped THEN [s \in Symbols |-> IF s \in Universe /\ c.min_variance[s] > 0
                                         THEN c.min_variance[s] ELSE 0]
               ELSE c.proposed

Keep(w, S) == [s \in Symbols |-> IF s \in S THEN w[s] ELSE 0]

Investable(c) == Keep(Requested(c), Universe \ c.blocked)

\* Mutant: shorts are let through.
LongOnlyOff(w) == w

LongOnly(w) == Keep(w, {s \in Symbols : w[s] >= 0})

PositionCapped(w) ==
  [s \in Symbols |-> Lesser(w[s], Policy.max_position_weight)]

SectorCapped(w) ==
  [s \in Symbols |->
     LET exposure == SectorExposure(w, Sector[s])
     IN  IF exposure > Policy.max_sector_weight
           THEN (w[s] * Policy.max_sector_weight) \div exposure
           ELSE w[s]]

effective_exposure_ceiling ==
  Lesser(Policy.max_gross_exposure, WeightUnit - Policy.min_cash_buffer)

\* Mutant: the breaker does not look at the book held.
VolatilityCeilingOfPolicy(c, held) == Policy.max_annualized_volatility * WeightUnit

\* Past the breaker the book may not become riskier than it already is.
VolatilityCeiling(c, held) ==
  LET ceiling == Policy.max_annualized_volatility * WeightUnit
      own == portfolio_volatility(held)
  IN  IF c.tripped /\ own > 0 THEN Lesser(ceiling, own) ELSE ceiling

\* Mutant: exposure and volatility only.
ScalesWithoutBeta(w, c, held) ==
  LET Tighter(limit, n) == IF n > limit THEN {<<limit, n>>} ELSE {}
  IN  {<<1, 1>>}
        \cup Tighter(effective_exposure_ceiling, Gross(w))
        \cup Tighter(VolatilityCeiling(c, held), portfolio_volatility(w))

\* The factors, as fractions, that uniform scaling takes the least of.
Scales(w, c, held) ==
  LET Tighter(limit, n) == IF n > limit THEN {<<limit, n>>} ELSE {}
  IN  {<<1, 1>>}
        \cup Tighter(effective_exposure_ceiling, Gross(w))
        \cup Tighter(Policy.max_portfolio_beta * WeightUnit, portfolio_beta(w))
        \cup Tighter(VolatilityCeiling(c, held), portfolio_volatility(w))

\* scale = min(...): the least of the factors.
Tightest(scales) ==
  CHOOSE f \in scales : \A g \in scales : f[1] * g[2] <= g[1] * f[2]

ScaledTowardCash(w, scale) == [s \in Symbols |-> (w[s] * scale[1]) \div scale[2]]

\* Mutant: only what is wanted is blended, an exit is made at once.
BlendWanted(held, target) ==
  LET traded == Traded(held, target)
      cap == 2 * Policy.max_turnover
  IN  IF traded <= cap THEN target
      ELSE [s \in Symbols |->
              IF target[s] = 0 THEN 0
              ELSE held[s] + ((target[s] - held[s]) * cap) \div traded]

\* Mutant: sales are blended and buys are not.
BlendSales(held, target) ==
  LET traded == Traded(held, target)
      cap == 2 * Policy.max_turnover
  IN  IF traded <= cap THEN target
      ELSE [s \in Symbols |->
              IF target[s] > held[s] THEN target[s]
              ELSE held[s] + ((target[s] - held[s]) * cap) \div traded]

\* Mutant: only what is held is blended, nothing new is bought.
BlendHeld(held, target) ==
  LET traded == Traded(held, target)
      cap == 2 * Policy.max_turnover
  IN  IF traded <= cap THEN target
      ELSE [s \in Symbols |->
              IF held[s] = 0 THEN 0
              ELSE held[s] + ((target[s] - held[s]) * cap) \div traded]

\* Turnover: as far towards the target as the cap on turnover lets the book go.
Blend(held, target) ==
  LET traded == Traded(held, target)
      cap == 2 * Policy.max_turnover
  IN  IF traded <= cap THEN target
      ELSE [s \in Symbols |-> held[s] + ((target[s] - held[s]) * cap) \div traded]

InCorridor(held, target) ==
  held # Empty /\ max_drift(held, target) <= Policy.corridor_absolute

\* The assessment of c, for the book held, once the target is repaired and
\* the weights are as far towards it as the turnover cap lets them go.
Assessment(c, held, target, weights) ==
  LET violations == IF InCorridor(held, target) THEN {"REBALANCE_CORRIDOR"}
                    ELSE verify(weights, c.blocked)
      repaired == c.tripped \/ target # c.proposed \/ weights # target
  IN  [decision   |-> IF violations # {} THEN "REJECTED"
                      ELSE IF repaired THEN "MODIFIED" ELSE "APPROVED",
       weights    |-> IF violations # {} THEN held ELSE weights,
       violations |-> violations,
       target     |-> target,
       from       |-> held,
       context    |-> c]

-----------------------------------------------------------------------------
(* The cycles.                                                             *)

NoVerdict == [decision |-> "NONE"]

\* evaluate: the proposal goes through the repairs, one after the other, the
\* turnover cap and the gate; what is approved becomes the book held.
Cycle ==
  /\ \E named \in {Tabulated(PositionCapped(LongOnly(Investable(context))))} :
     \E sectored \in {Tabulated(SectorCapped(named))} :
     \E scale \in {Tightest(Scales(sectored, context, book))} :
     \E target \in {Tabulated(ScaledTowardCash(sectored, scale))} :
     \E weights \in {Tabulated(Blend(book, target))} :
       verdict' = Assessment(context, book, target, weights)
  /\ book' = verdict'.weights
  /\ UNCHANGED <<context, shocks>>

\* The price of one symbol halves or doubles, and every weight with it.
MarketMove(s) ==
  /\ shocks < MaxShocks
  /\ shocks' = shocks + 1
  /\ \E f \in {<<1, 2>>, <<2, 1>>} :
       LET worth == (book[s] * f[1]) \div f[2]
           total == WeightUnit - book[s] + worth
       IN  book' = [t \in Symbols |->
                      ((IF t = s THEN worth ELSE book[t]) * WeightUnit) \div total]
  /\ verdict' = NoVerdict
  /\ UNCHANGED context

\* The next cycles see other estimates, another drawdown, other windows.
ContextChange ==
  /\ shocks < MaxShocks
  /\ shocks' = shocks + 1
  /\ context' \in Contexts
  /\ verdict' = NoVerdict
  /\ UNCHANGED book

Init ==
  /\ book \in Books
  /\ context \in Contexts
  /\ verdict = NoVerdict
  /\ shocks = 0

Next == Cycle \/ ContextChange \/ \E s \in Symbols : MarketMove(s)

Spec == Init /\ [][Next]_vars

\* Decision cycles keep coming (the schedule, or the backtest's next bar).
FairSpec == Spec /\ WF_vars(Cycle)
-----------------------------------------------------------------------------
(* Properties.                                                             *)

Decided == verdict # NoVerdict
Approved == Decided /\ verdict.decision # "REJECTED"

TypeOK ==
  /\ book \in [Symbols -> 0..WeightUnit]
  /\ context \in Contexts
  /\ shocks \in 0..MaxShocks
  /\ Decided => /\ verdict.decision \in {"APPROVED", "MODIFIED", "REJECTED"}
                /\ verdict.weights \in [Symbols -> 0..WeightUnit]

\* "Every constraint it targets is monotone in the scale factor, so it can
\* never undo an earlier repair" (engine.py:13-14): before turnover, a repaired
\* book fails no check but the safety-first floor, which nothing repairs.
RepairsStand ==
  Decided =>
    verify(verdict.target, verdict.context.blocked) \subseteq {"SAFETY_FIRST_THRESHOLD"}

\* The gate lets the book pass, and would if its beta were rounded up.
Inside(w, blocked) ==
  /\ verify(w, blocked) = {}
  /\ portfolio_beta(w) + BetaGain <= (Policy.max_portfolio_beta + Tolerance) * WeightUnit

\* A book that is inside the policy is never stuck: moving it as far as the
\* turnover cap allows towards a repaired target stays inside, so that only
\* the corridor and the safety-first floor can stop a cycle.
RejectedForCause ==
  Decided /\ Inside(verdict.from, verdict.context.blocked) =>
    verdict.violations \subseteq {"REBALANCE_CORRIDOR", "SAFETY_FIRST_THRESHOLD"}

\* An approved book is within the cap on turnover, exits included.
TurnoverHonoured ==
  Approved => Traded(verdict.from, verdict.weights) <= 2 * Policy.max_turnover + Tolerance

\* "Halt risk increases" (engine.py:421-423): past the drawdown limit a book
\* that carries risk never carries more after a cycle, whatever the cap on
\* turnover leaves of the way to the minimum-variance portfolio.
BreakerHoldsRisk ==
  Approved /\ verdict.context.tripped /\ portfolio_volatility(verdict.from) > 0 =>
    portfolio_volatility(verdict.weights) <= portfolio_volatility(verdict.from)

\* When market and context stand still, the cycles bring the book within the
\* corridor of the repaired target, unless the gate vetoes the way there.
ReachesTarget ==
  <>[](Decided /\ \/ max_drift(book, verdict.target) <= Policy.corridor_absolute
                  \/ verdict.violations \ {"REBALANCE_CORRIDOR"} # {})

\* "Past the drawdown limit, risk may never increase"
\* (tests/test_risk_properties.py:338), for a book of cash too.
RiskNeverIncreases ==
  Approved /\ verdict.context.tripped =>
    portfolio_volatility(verdict.weights)
      <= portfolio_volatility(verdict.from) + Tolerance * WeightUnit
=============================================================================
