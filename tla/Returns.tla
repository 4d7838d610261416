------------------------------ MODULE Returns ------------------------------
(***************************************************************************)
(* Measures of a record: src/cfa/returns.py, src/backtest/metrics.py and   *)
(* the return series of src/cfa/alternatives.py.                           *)
(***************************************************************************)
EXTENDS Rational

CONSTANTS
  periods_per_year,
  Yearly(_, _),      \* growth over a number of periods as that of a year, rounded
  Undefined          \* what a function that raises, or answers None, returns
-----------------------------------------------------------------------------
(* src/cfa/returns.py                                                      *)

holding_period_return(begin, end, income) == (end -- begin ++ income) // begin

Growth(returns) == Product(Listed([i \in 1..Len(returns) |-> One ++ returns[i]]))
time_weighted_return(returns) == Growth(returns) -- One

\* What the geometric mean, compounded over the record, makes of one.
geometric_mean_return(returns) ==
  IF returns = <<>> \/ \E i \in DOMAIN returns : returns[i] \preceq Minus(One)
  THEN Undefined ELSE Growth(returns)

\* rate is the internal rate of return of a dated series of flows.
npv(flows, rate) == Sum([i \in DOMAIN flows |-> flows[i].amount // Power(One ++ rate, flows[i].year)])
money_weighted_return(flows, rate) ==
  /\ Len(flows) >= 2
  /\ \E i, j \in DOMAIN flows : flows[i].amount \prec Zero /\ Zero \prec flows[j].amount
  /\ \E i \in DOMAIN flows : flows[i].year > 0
  /\ npv(flows, rate) = Zero

arithmetic_mean_return(x) == Sum(x) // Whole(Len(x))
Deviations(x) ==
  LET mean == arithmetic_mean_return(x) IN Listed([i \in 1..Len(x) |-> x[i] -- mean])
covariance(x, y) == Dot(Deviations(x), Deviations(y)) // Whole(Len(x) - 1)
sample_variance(x) == covariance(x, x)
correlation(x, y) ==
  LET relative(cov, v) == IF v = Zero THEN Undefined ELSE Ratio(cov, v)
  IN relative(covariance(x, y), sample_variance(x) ** sample_variance(y))

\* Squared: only what falls short counts, over all but one of the periods.
downside_deviation(x, minimum) ==
  LET shortfall(r) == IF r \prec minimum THEN Square(r -- minimum) ELSE Zero
  IN Sum([i \in DOMAIN x |-> shortfall(x[i])]) // Whole(Len(x) - 1)

safety_first_ratio(expected, threshold, variance) ==
  IF variance \preceq Zero THEN Undefined ELSE Ratio(expected -- threshold, variance)

\* What a line fits, given the sums of squares and of what it leaves over:
\* standard errors and t statistics squared, a t statistic undefined where the
\* fit is perfect.
Fitted(line, n, mean, sxx, syy, residual_ss) ==
  LET t(estimate, se) == IF se = Zero THEN Undefined ELSE Ratio(estimate, se)
      sigma_squared == residual_ss // Whole(n - 2)
  IN [slope |-> line.slope, intercept |-> line.intercept,
      r_squared |-> IF syy = Zero THEN One ELSE One -- residual_ss // syy,
      t_slope |-> t(line.slope, sigma_squared // sxx),
      t_intercept |-> t(line.intercept, sigma_squared ** (Q(1, n) ++ Square(mean) // sxx))]

\* A fit of y on x.
ols_regression(y, x) ==
  LET line(slope, mean_x, mean_y) ==
        [slope |-> slope, intercept |-> mean_y -- slope ** mean_x]
      residual_ss(l) ==
        Sum([i \in DOMAIN x |-> Square(y[i] -- (l.intercept ++ l.slope ** x[i]))])
      fit(l, mean_x, sxx, syy) == Fitted(l, Len(x), mean_x, sxx, syy, residual_ss(l))
      through(mean_x, mean_y, sxx, sxy, syy) ==
        IF sxx = Zero THEN Undefined
        ELSE fit(line(sxy // sxx, mean_x, mean_y), mean_x, sxx, syy)
      about(dx, dy) == through(arithmetic_mean_return(x), arithmetic_mean_return(y),
                               Dot(dx, dx), Dot(dx, dy), Dot(dy, dy))
  IN IF Len(x) < 3 THEN Undefined ELSE about(Deviations(x), Deviations(y))

estimate_beta(asset_excess, market_excess) == ols_regression(asset_excess, market_excess)
-----------------------------------------------------------------------------
(* src/cfa/alternatives.py                                                 *)

first_order_autocorrelation(returns) ==
  LET lagged(d) == Sum([t \in 1..(Len(d) - 1) |-> d[t + 1] ** d[t]])
      of(d) == IF Dot(d, d) = Zero THEN Undefined ELSE lagged(d) // Dot(d, d)
  IN IF Len(returns) < 3 THEN Undefined ELSE of(Deviations(returns))

\* The returns behind those a smoothing appraisal reports; the first is lost.
unsmooth_returns(returns, autocorrelation) ==
  IF Len(returns) < 2 \/ One \preceq autocorrelation \/ autocorrelation \preceq Minus(One)
  THEN Undefined
  ELSE Listed([t \in 1..(Len(returns) - 1) |-> (returns[t + 1] -- autocorrelation ** returns[t])
                            // (One -- autocorrelation)])
-----------------------------------------------------------------------------
(* src/backtest/metrics.py                                                 *)

periodic_returns(curve) ==
  IF \E i \in 1..(Len(curve) - 1) : curve[i] \preceq Zero THEN Undefined
  ELSE Listed([i \in 1..(Len(curve) - 1) |-> curve[i + 1] // curve[i] -- One])

\* The largest fall from a peak, as a fraction of the peak, in one pass.
max_drawdown(curve) ==
  LET peak[i \in DOMAIN curve] == IF i = 1 THEN curve[1] ELSE Larger(peak[i - 1], curve[i])
      decline(i) == IF Zero \prec peak[i] THEN (peak[i] -- curve[i]) // peak[i] ELSE Zero
      worst[i \in 0..Len(curve)] == IF i = 0 THEN Zero ELSE Larger(worst[i - 1], decline(i))
  IN worst[Len(curve)]

annualize(total_return, periods) ==
  IF periods <= 0 THEN Zero
  ELSE IF One ++ total_return \preceq Zero THEN Minus(One)
  ELSE Yearly(One ++ total_return, periods) -- One

\* Squared.
annualized_volatility(returns) ==
  IF Len(returns) < 2 THEN Zero ELSE sample_variance(returns) ** Whole(periods_per_year)
=============================================================================
