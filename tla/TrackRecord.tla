----------------------------- MODULE TrackRecord -----------------------------
(***************************************************************************)
(* A record that grows period by period, and every measure src/cfa and     *)
(* src/backtest/metrics.py take of it: a stock against its market, a fund  *)
(* invested in the stock that charges the fees of src/cfa/alternatives.py, *)
(* an appraiser who smooths its returns, options on it, a bond, and the    *)
(* portfolio the optimizer makes of stock and market.                      *)
(***************************************************************************)
EXTENDS Portfolio, Derivatives, FixedIncome

CONSTANTS
  Moves,              \* returns a period may have: of the stock and the market
  Agreements,         \* fee agreements a fund may have
  smoothing,          \* weight of the last report in an appraisal
  rf,                 \* the risk-free rate of a year
  market_return,      \* what the market is expected to return
  Strikes, Premiums,  \* of the options on the stock
  Bonds, Yields,
  Bills,              \* the price and the days to run of each
  Policies,           \* of the optimizer: cap, tilts, shrinkage intensity
  frontier_points,
  Offered,            \* weights of the stock a choice is compared with
  MaxPeriods          \* bound on the record

ASSUME TrackRecordAssumption ==
  /\ periods_per_year \in Nat \ {0} /\ MaxPeriods \in Nat
  /\ Moves \subseteq Rationals \X Rationals
  /\ \A move \in Moves, i \in Names : Minus(One) \prec move[i]
  /\ {smoothing, rf} \cup Strikes \cup Premiums \cup Offered \subseteq Rationals
  /\ Minus(One) \prec smoothing /\ smoothing \prec One /\ Minus(One) \prec rf
  /\ Agreements \subseteq
       [management : Rationals, incentive : Rationals, hurdle : Rationals,
        basis : {"BEGINNING", "ENDING"}, net_of_management : BOOLEAN]
  /\ \A a \in Agreements : Zero \preceq a.management /\ Zero \preceq a.incentive
  /\ Bills \subseteq [price : Rationals, days : Nat \ {0}]
  /\ \A bill \in Bills : Zero \prec bill.price /\ bill.price \preceq One
  /\ Undefined \notin Rationals
  /\ Undefined \notin [total : Rationals, systematic : Rationals, unsystematic : Rationals]

VARIABLES
  stock, market,  \* their returns, period by period
  funds,          \* under each agreement: values net of fees, mark, and the
                  \* management and incentive fees so far
  appraised       \* the returns the appraiser reports

record == <<stock, market, funds, appraised>>

\* Mutant: the mark follows the value down.
hedge_fund_fees_unratcheted(beginning, ending, mark, agreement) ==
  LET management == agreement.management ** (IF agreement.basis = "BEGINNING" THEN beginning ELSE ending)
      base == IF agreement.net_of_management THEN ending -- management ELSE ending
      threshold == Larger(mark, beginning ** (One ++ agreement.hurdle))
      incentive == agreement.incentive ** Larger(base -- threshold, Zero)
      net == ending -- (management ++ incentive)
  IN [net |-> net, management |-> management, incentive |-> incentive, mark |-> net]

\* The fees of a period, what is left, and the mark the next one has to pass.
hedge_fund_fees(beginning, ending, mark, agreement) ==
  LET management == agreement.management ** (IF agreement.basis = "BEGINNING" THEN beginning ELSE ending)
      base == IF agreement.net_of_management THEN ending -- management ELSE ending
      threshold == Larger(mark, beginning ** (One ++ agreement.hurdle))
      incentive == agreement.incentive ** Larger(base -- threshold, Zero)
      net == ending -- (management ++ incentive)
  IN [net |-> net, management |-> management, incentive |-> incentive, mark |-> Larger(mark, net)]

\* A fund of no value raises: its record ends.
FundAfter(fund, return, agreement) ==
  LET beginning == fund.values[Len(fund.values)]
      fees == hedge_fund_fees(beginning, beginning ** (One ++ return), fund.mark, agreement)
  IN IF beginning \preceq Zero THEN fund
     ELSE [values |-> Append(fund.values, fees.net), mark |-> fees.mark,
           managed |-> fund.managed ++ fees.management, earned |-> fund.earned ++ fees.incentive]

\* A report is part news, part the last report; the first is all news.
Report(return) ==
  IF appraised = <<>> THEN return
  ELSE (One -- smoothing) ** return ++ smoothing ** appraised[Len(appraised)]

RecordInit ==
  /\ stock = <<>> /\ market = <<>> /\ appraised = <<>>
  /\ funds = [a \in Agreements |->
               [values |-> <<One>>, mark |-> One, managed |-> Zero, earned |-> Zero]]

Period(move) ==
  /\ Len(stock) < MaxPeriods
  /\ stock' = Append(stock, move[1])
  /\ market' = Append(market, move[2])
  /\ funds' = [a \in Agreements |-> FundAfter(funds[a], move[1], a)]
  /\ appraised' = Append(appraised, Report(move[1]))

NextPeriod == \E move \in Moves : Period(move)
RecordSpec == RecordInit /\ [][NextPeriod]_record
-----------------------------------------------------------------------------
(* What is told of a record.                                               *)

CurveOf(returns) ==
  Listed([i \in 1..(Len(returns) + 1) |-> Growth(SubSeq(returns, 1, i - 1))])
Years == Len(stock)
Excess(returns) == Listed([i \in 1..Len(returns) |-> returns[i] -- rf // Whole(periods_per_year)])

\* A year is a period: one is paid in at first, another later, and both earn r.
Contributions(r, later) ==
  << [year |-> 0, amount |-> Minus(One)], [year |-> later, amount |-> Minus(One)],
     [year |-> Years, amount |-> Power(One ++ r, Years) ++ Power(One ++ r, Years - later)] >>

\* The measures of one series are those of what a holder went through, in
\* whatever order gains and losses came (returns.py, alternatives.py).
ReturnsAreThoseHad ==
  LET curve == CurveOf(stock)
  IN /\ periodic_returns(curve) = stock
     /\ time_weighted_return(stock) = holding_period_return(One, curve[Years + 1], Zero)
     /\ \A i, j \in DOMAIN curve : i <= j => (curve[i] -- curve[j]) // curve[i] \preceq max_drawdown(curve)
     /\ \E i, j \in DOMAIN curve : i <= j /\ (curve[i] -- curve[j]) // curve[i] = max_drawdown(curve)
     /\ Years >= 1 => geometric_mean_return(stock) = curve[Years + 1]
     /\ Years >= 2 =>
          /\ unsmooth_returns(appraised, smoothing) = Tail(stock)
          /\ downside_deviation(stock, arithmetic_mean_return(stock)) \preceq sample_variance(stock)
     /\ LET lag == first_order_autocorrelation(appraised)
        IN lag # Undefined => Minus(One) \prec lag /\ lag \prec One
     /\ \A r \in {stock[i] : i \in DOMAIN stock} :
          (\A i \in DOMAIN stock : stock[i] = r) =>
             \A later \in 0..(Years - 1) : money_weighted_return(Contributions(r, later), r)

\* No value is above the mark, and the incentive fees taken over the years are a
\* share of the mark's rise: of the rise itself where they are taken after the
\* management fees, else of the rise before them (hedge_fund_fees).
FeesAreEarned ==
  \A a \in Agreements :
    LET fund == funds[a]
        uncounted == IF a.net_of_management THEN Zero ELSE fund.managed
    IN /\ \A i \in DOMAIN fund.values : fund.values[i] \preceq fund.mark
       /\ (One -- a.incentive) ** fund.earned
            \preceq a.incentive ** ((fund.mark -- One) ++ uncounted)

\* A fit leaves unexplained what the decomposition calls unsystematic, and its
\* R squared is the squared correlation.
Explains(fit, parts, related) ==
  /\ parts # Undefined
  /\ parts.unsystematic = (One -- fit.r_squared) ** parts.total
  /\ related # Undefined =>
       Ratio(related, One) \in {Square(fit.r_squared), Minus(Square(fit.r_squared))}

\* Half of a market and half of cash have half its beta; the variance of a blend
\* is the same by the matrix and by the formula for two.
Blends(halved, blended, var_a, var_b, cov) ==
  /\ halved.slope = portfolio_beta(<<Q(1, 2), Q(1, 2)>>, <<One, Zero>>)
  /\ halved.intercept = Zero /\ halved.t_intercept = Undefined
  /\ blended = portfolio_variance(<<Q(1, 2), Q(1, 2)>>, <<<<var_a, cov>>, <<cov, var_b>>>>)
  /\ blended = two_asset_variance(Q(1, 2), Q(1, 2), var_a, var_b, cov)

\* Beta, R squared, correlation and the decomposition of risk tell one story,
\* of the stock and of a blend of stock and market (ols_regression).
FitExplainsRisk ==
  LET half == Listed([i \in 1..Years |-> (market[i] ++ rf // Whole(periods_per_year)) // Whole(2)])
      blend == Listed([i \in 1..Years |-> (stock[i] ++ market[i]) // Whole(2)])
      Consistent(fit, var_a, var_b) ==
        fit # Undefined =>
          /\ Explains(fit, risk_decomposition(fit.slope, var_b, var_a), correlation(stock, market))
          /\ Blends(estimate_beta(Excess(half), Excess(market)), sample_variance(blend),
                    var_a, var_b, covariance(stock, market))
  IN Years >= 3 => Consistent(estimate_beta(Excess(stock), Excess(market)),
                              sample_variance(stock), sample_variance(market))

\* The report on the book against that on the index.
Compares(m, index, market_var) ==
  /\ index.tracking_error = Zero /\ index.information_ratio = Undefined
  /\ index.regression # Undefined => index.beta = One /\ index.jensens_alpha = Zero
  /\ m.sharpe = safety_first_ratio(m.annualized_twr, rf, m.volatility)
  /\ Zero \prec m.beta =>
       (Zero \prec m.jensens_alpha <=> index.annualized_twr -- rf \prec m.treynor)
  /\ m.information_ratio # Undefined =>
       (Zero \prec m.information_ratio <=> index.annualized_twr \prec m.annualized_twr)
  /\ m.m_squared # Undefined /\ Zero \prec market_var =>
       (Ratio(index.annualized_twr -- rf, One) \prec m.m_squared
         <=> capital_allocation_line(rf, index.annualized_twr, market_var, m.volatility)
               \prec Ratio(m.annualized_twr -- rf, One))

\* The report ranks book and benchmark one way, whatever the measure, and where
\* it can fit the benchmark to itself finds nothing to praise in it
\* (compute_metrics).
ReportComparesWithMarket ==
  LET told(curve, benchmark) ==
        Compares(compute_metrics(curve, benchmark, rf), compute_metrics(benchmark, benchmark, rf),
                 annualized_volatility(market))
  IN Years >= 2 => told(CurveOf(stock), CurveOf(market))

\* What is told of a record is what its holder had.  Linked returns are the
\* growth of the curve, the drawdown is the worst loss of anyone who came and
\* went, unsmoothed appraisals are the returns, and the rate of return is blind
\* to the timing of flows only where no period differs.  All incentive fees
\* together were earned by the rise of the mark, over falls and recoveries.  A
\* fit leaves unexplained what the decomposition calls unsystematic, and the
\* index has no alpha unless the window was too short to fit its beta
\* (returns.py, metrics.py, portfolio.py, alternatives.py).
ReportsAreTrue ==
  ReturnsAreThoseHad /\ FeesAreEarned /\ FitExplainsRisk /\ ReportComparesWithMarket
-----------------------------------------------------------------------------
(* What the market offers.                                                 *)

Spot == Growth(stock)

\* Time is worth the interest on the strike, to a call more than to a put; a call
\* that is below its intrinsic value has a put that would be paid for taking.
TimeIsWorth(strike, premium, put) ==
  LET call_time == time_value(premium, intrinsic_value("CALL", One, strike))
      put_time == time_value(put, intrinsic_value("PUT", One, strike))
  IN /\ Undefined \notin {call_time, put_time} =>
          call_time -- put_time = strike -- discount(strike, rf, Years)
     /\ call_time = Undefined => premium \prec Zero \/ put \prec Zero

\* A call and the strike in bills against a put and the stock: the same at
\* expiry wherever the stock ends, and at the price parity implies.
OptionsAreFair ==
  \A strike \in Strikes, premium \in Premiums :
    LET put == implied_put_price(premium, One, strike, rf, Years)
        spread == american_put_call_parity_bounds(One, strike, rf, Years, Zero)
    IN /\ european_put_call_parity(premium, put, One, strike, rf, Years, Zero)
       /\ implied_call_price(put, One, strike, rf, Years) = premium
       /\ american_parity_breach(premium, put, One, strike, rf, Years, Zero) = Zero
       /\ spread.lower \preceq spread.upper
       /\ option_payoff("LONG_CALL", strike, Spot) ++ strike = protective_put_payoff(Spot, strike)
       /\ covered_call_profit(Spot, strike, One, premium)
            = (Spot -- One) ++ option_profit("SHORT_CALL", strike, premium, Spot)
       /\ protective_put_profit(Spot, strike, One, put) -- covered_call_profit(Spot, strike, One, premium)
            = option_profit("LONG_CALL", strike, premium, Spot)
                ++ option_profit("LONG_PUT", strike, put, Spot)
       /\ TimeIsWorth(strike, premium, put)
       /\ LET even == covered_call_breakeven(One, premium)
          IN even \preceq strike => covered_call_profit(even, strike, One, premium) = Zero
       /\ LET even == protective_put_breakeven(One, put)
          IN strike \preceq even => protective_put_profit(even, strike, One, put) = Zero
       /\ \A right \in {"CALL", "PUT"} :
            moneyness(right, Spot, strike) = "IN_THE_MONEY"
              <=> Zero \prec intrinsic_value(right, Spot, strike)
       /\ compound(One -- discount(strike, rf, Years), rf, Years)
            = forward_price(One, rf, Years, Zero) -- strike

\* A bond at an unchanged yield earns its yield whenever it is sold; what a
\* change of yield does to it lies between the line of its duration and the
\* curve of its convexity.
BondsAreFair ==
  \A bond \in Bonds, yield \in Yields :
    LET older == [bond EXCEPT !.years = @ - 1]
        price == bond_price(bond, yield)
    IN /\ yield = bond.coupon <=> price = One
       /\ price \prec One => current_yield(bond, price) \prec yield
       /\ One \prec price => yield \prec current_yield(bond, price)
       /\ {y \in Yields : yield_to_maturity(price, bond, y)} = {yield}
       /\ (bond.frequency = 1 /\ bond.years > 1) =>
            holding_period_yield(price, bond_price(older, yield), bond.coupon) = yield
       /\ macaulay_duration(bond, yield) \preceq Whole(bond.years)
       /\ macaulay_duration(bond, yield) = Whole(bond.years)
            <=> bond.coupon = Zero \/ _periods(bond) = 1
       /\ \A other \in Yields :
            LET change == other -- yield
                actual == (bond_price(bond, other) -- price) // price
            IN /\ Minus(modified_duration(bond, yield) ** change) \preceq actual
               /\ Zero \prec change => actual \preceq price_change_percent(bond, yield, change)
               /\ change \prec Zero => price_change_percent(bond, yield, change) \preceq actual

\* A quoted discount is that of one price, and the less of a yield the more its
\* convention flatters the price.
BillsAreFair ==
  \A bill \in Bills :
    LET price == bill.price
        days == bill.days
        discounted == bank_discount_yield(price, days)
        earned == holding_period_yield(price, One, Zero)
        equivalent == discount_to_bond_equivalent_yield(discounted, days)
    IN /\ ImpliedPrice(discounted, days) = price
       /\ equivalent = earned ** (BOND_YEAR // Whole(days))
       /\ price # One => /\ discounted \prec money_market_yield(earned, days)
                         /\ money_market_yield(earned, days) \prec equivalent

\* What the optimizer is given of the record under a policy.
InputsOf(fit, policy) ==
  estimate_inputs(<<stock, market>>, <<fit.slope, One>>, market_return, rf,
                  policy.tilts, policy.intensity)

\* Whether a permitted portfolio has as much return for as much risk, or better.
Beaten(p, permitted) ==
  \E q \in permitted :
    /\ p.return \preceq q.return /\ q.variance \preceq p.variance
    /\ p.return \prec q.return \/ q.variance \prec p.variance

\* The frontier and what is picked of it, against the permitted portfolios and
\* the closed forms.
Efficient(target, cap, permitted, closed, tangent) ==
  /\ \A k \in DOMAIN target.frontier :
       LET p == target.frontier[k]
       IN Permitted(p.weights[1], cap) /\ ~Beaten(p, permitted)
  /\ (closed # Undefined /\ Permitted(closed[1], cap)) =>
       target.frontier[1].weights = closed
  /\ (tangent # Undefined /\ target.method = "MAX_SHARPE") =>
       \/ tangent.return \preceq rf
       \/ sharpe_ratio(target.chosen.return, rf, target.chosen.variance)
            \preceq sharpe_ratio(tangent.return, rf, tangent.variance)
  /\ target.method = "MINIMUM_VARIANCE" =>
       \A q \in permitted : Zero \prec q.variance => q.return \preceq rf

\* No portfolio the mandate permits has more return than one of the frontier
\* at no more risk; cash is preferred only where no such portfolio beats it.
ChoiceIsEfficient ==
  LET tangent(in, weights) ==
        IF weights = Undefined THEN Undefined ELSE Point(weights[1], in.mu, in.sigma)
      judged(target, in, cap, permitted) ==
        IF target = Undefined
        THEN in.mu[1] = in.mu[2] \/
             \A q \in permitted :
               q.return \preceq Point(LowestRisk(in.sigma, cap), in.mu, in.sigma).return
        ELSE Efficient(target, cap, permitted, minimum_variance_portfolio(in.sigma),
                       tangent(in, tangency_portfolio(in.mu, in.sigma, rf)))
      chosen(in, cap) ==
        judged(optimize(in, cap, frontier_points), in, cap,
               {Point(g, in.mu, in.sigma) : g \in {w \in Offered : Permitted(w, cap)}})
      everywhere(fit) ==
        fit # Undefined => \A policy \in Policies : chosen(InputsOf(fit, policy), policy.cap)
  IN Years >= 3 => everywhere(estimate_beta(Excess(stock), Excess(market)))

\* Nothing the formulas price or choose leaves money on the table: positions
\* with the same payoff cost the same, a bond or a bill earns its yield, and the optimizer
\* picks no portfolio another one permitted beats (derivatives.py,
\* fixed_income.py, portfolio.py, optimizer.py).
NoFreeLunch == OptionsAreFair /\ BondsAreFair /\ BillsAreFair /\ ChoiceIsEfficient

=============================================================================
