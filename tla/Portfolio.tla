------------------------------ MODULE Portfolio ------------------------------
(***************************************************************************)
(* Portfolio construction over two names, src/cfa/portfolio.py, and the    *)
(* choice of src/decision/optimizer.py.  With two names the constrained    *)
(* problems the code leaves to scipy have an exact solution, a weight on a *)
(* line.  A covariance matrix is a pair of pairs; a standard deviation is  *)
(* represented by the variance (see Rational).                             *)
(***************************************************************************)
EXTENDS Returns

Names == 1..2
Both(f(_)) == <<f(1), f(2)>>
-----------------------------------------------------------------------------
(* Risk and return of a portfolio.                                         *)

expected_portfolio_return(weights, mu) == Dot(weights, mu)
portfolio_beta(weights, betas) == Dot(weights, betas)

two_asset_variance(weight_a, weight_b, var_a, var_b, cov) ==
  Square(weight_a) ** var_a ++ Square(weight_b) ** var_b
    ++ Whole(2) ** weight_a ** weight_b ** cov

portfolio_variance(weights, sigma) ==
  Dot(weights, Both(LAMBDA i : Dot(sigma[i], weights)))

sharpe_ratio(return, rf, variance) ==
  IF variance \preceq Zero THEN Undefined ELSE Ratio(return -- rf, variance)
treynor_ratio(return, rf, beta) == IF beta = Zero THEN Undefined ELSE (return -- rf) // beta
information_ratio(return, benchmark, tracking) ==
  IF tracking \preceq Zero THEN Undefined ELSE Ratio(return -- benchmark, tracking)

\* What the line through a risky portfolio promises above the risk-free rate,
\* squared; M squared reads it at the risk of the market.
capital_allocation_line(rf, risky_return, risky_var, portfolio_var) ==
  IF risky_var \preceq Zero THEN Undefined
  ELSE Ratio(risky_return -- rf, risky_var) ** portfolio_var
m_squared(return, rf, variance, market_var) ==
  IF variance \preceq Zero THEN Undefined
  ELSE Ratio(return -- rf, variance) ** market_var

capm_expected_return(rf, beta, market_return) == rf ++ beta ** (market_return -- rf)
jensens_alpha(return, rf, beta, market_return) ==
  return -- capm_expected_return(rf, beta, market_return)

risk_decomposition(beta, market_var, variance) ==
  LET systematic == Square(beta) ** market_var
  IN IF variance \prec systematic THEN Undefined
     ELSE [total |-> variance, systematic |-> systematic,
           unsystematic |-> variance -- systematic]
-----------------------------------------------------------------------------
(* Closed forms, without bounds on the weights.                            *)

\* x such that sigma x = b, or Undefined.
Solved(sigma, b) ==
  LET det == sigma[1][1] ** sigma[2][2] -- sigma[1][2] ** sigma[2][1]
  IN IF det = Zero THEN Undefined
     ELSE <<(sigma[2][2] ** b[1] -- sigma[1][2] ** b[2]) // det,
            (sigma[1][1] ** b[2] -- sigma[2][1] ** b[1]) // det>>

Normalized(raw) ==
  IF raw = Undefined THEN Undefined
  ELSE IF Sum(raw) = Zero THEN Undefined
  ELSE Both(LAMBDA i : raw[i] // Sum(raw))

minimum_variance_portfolio(sigma) == Normalized(Solved(sigma, <<One, One>>))
tangency_portfolio(mu, sigma, rf) == Normalized(Solved(sigma, Both(LAMBDA i : mu[i] -- rf)))
-----------------------------------------------------------------------------
(* The frontier a long-only mandate with a cap per name can reach.         *)

\* Mutant: the best name takes the whole budget.
_max_attainable_return_uncapped(mu, cap) ==
  Larger(mu[1], mu[2])

\* The best names are filled up to the cap, until the budget is spent.
_max_attainable_return(mu, cap) ==
  LET best == <<Larger(mu[1], mu[2]), Smaller(mu[1], mu[2])>>
      spent(i) == Whole(i - 1) ** cap
      allocation(i) == Larger(Zero, Smaller(cap, One -- spent(i)))
  IN Sum([i \in DOMAIN mu |-> allocation(i) ** best[i]])

Permitted(first, cap) ==
  \A weight \in {first, One -- first} : Zero \preceq weight /\ weight \preceq cap
Within(first, cap) ==
  LET most == Smaller(cap, One) IN Larger(One -- most, Smaller(most, first))

\* scipy's minimum of the variance within the bounds: of names that do not
\* differ in risk, where its search starts.
LowestRisk(sigma, cap) ==
  LET curvature == sigma[1][1] ++ sigma[2][2] -- Whole(2) ** sigma[1][2]
  IN Within(IF curvature = Zero THEN Q(1, 2)
            ELSE (sigma[2][2] -- sigma[1][2]) // curvature, cap)

Point(first, mu, sigma) ==
  LET weights == <<first, One -- first>>
  IN [weights |-> weights, return |-> expected_portfolio_return(weights, mu),
      variance |-> portfolio_variance(weights, sigma)]

\* From one return to another, in equal steps.
Between(lowest, highest, mu, sigma, points) ==
  LET target(k) == lowest ++ Q(k - 1, points - 1) ** (highest -- lowest)
      first(k) == (target(k) -- mu[2]) // (mu[1] -- mu[2])
  IN IF highest \preceq lowest THEN Undefined
     ELSE Listed([k \in 1..points |-> Point(first(k), mu, sigma)])

\* From the portfolio of least risk to the highest return.
efficient_frontier(mu, sigma, points, cap) ==
  IF mu[1] = mu[2] \/ Whole(2) ** cap \prec One THEN Undefined
  ELSE Between(Point(LowestRisk(sigma, cap), mu, sigma).return,
               _max_attainable_return(mu, cap), mu, sigma, points)
-----------------------------------------------------------------------------
(* src/decision/optimizer.py                                               *)

capm_expected_returns(betas, market_return, rf) ==
  Both(LAMBDA i : capm_expected_return(rf, betas[i], market_return))
apply_view_tilts(mu, tilts) == Both(LAMBDA i : mu[i] ++ tilts[i])

\* sklearn's estimate: the biased sample covariance, drawn by an intensity of
\* its choice to the mean variance on the diagonal.
ledoit_wolf_covariance(observations, intensity) ==
  LET biased(i, j) ==
        Dot(Deviations(observations[i]), Deviations(observations[j])) // Whole(Len(observations[1]))
      mean == (biased(1, 1) ++ biased(2, 2)) // Whole(2)
  IN Both(LAMBDA i : Both(LAMBDA j :
       (One -- intensity) ** biased(i, j) ++ (IF i = j THEN intensity ** mean ELSE Zero)))

estimate_inputs(observations, betas, market_return, rf, tilts, intensity) ==
  LET shrunk == ledoit_wolf_covariance(observations, intensity)
  IN [mu |-> apply_view_tilts(capm_expected_returns(betas, market_return, rf), tilts),
      sigma |-> Both(LAMBDA i : Both(LAMBDA j : shrunk[i][j] ** Whole(periods_per_year))),
      rf |-> rf]

\* The best Sharpe ratio on the frontier, the first of equals; where nothing
\* beats cash, the point of least risk.
Chosen(frontier, ratios) ==
  LET points == DOMAIN frontier
      beats == {k \in points : Zero \prec frontier[k].variance /\ Zero \prec ratios[k]}
      sharpest == CHOOSE k \in beats : \A l \in beats :
                    ratios[l] \prec ratios[k] \/ (ratios[l] = ratios[k] /\ k <= l)
      safest == CHOOSE k \in points : \A l \in points :
                  \/ frontier[k].variance \prec frontier[l].variance
                  \/ frontier[k].variance = frontier[l].variance /\ k <= l
  IN IF beats = {}
     THEN [method |-> "MINIMUM_VARIANCE", chosen |-> frontier[safest], frontier |-> frontier]
     ELSE [method |-> "MAX_SHARPE", chosen |-> frontier[sharpest], frontier |-> frontier]

optimize(inputs, cap, points) ==
  LET ratio(p) == sharpe_ratio(p.return, inputs.rf, p.variance)
      of(frontier) ==
        IF frontier = Undefined THEN Undefined
        ELSE Chosen(frontier, Listed([k \in 1..points |-> ratio(frontier[k])]))
  IN of(efficient_frontier(inputs.mu, inputs.sigma, points, cap))
-----------------------------------------------------------------------------
(* src/backtest/metrics.py: the measures of a book against its benchmark.  *)

Measures(annual, annual_benchmark, variance, market_var, tracking, regression, drawdown, rf) ==
  LET beta == IF regression = Undefined THEN Zero ELSE regression.slope
  IN [annualized_twr |-> annual, annualized_benchmark |-> annual_benchmark,
      volatility |-> variance, max_drawdown |-> drawdown,
      beta |-> beta, regression |-> regression,
      sharpe |-> sharpe_ratio(annual, rf, variance),
      treynor |-> treynor_ratio(annual, rf, beta),
      jensens_alpha |-> jensens_alpha(annual, rf, beta, annual_benchmark),
      tracking_error |-> tracking,
      information_ratio |-> information_ratio(annual, annual_benchmark, tracking),
      m_squared |-> m_squared(annual, rf, variance, market_var)]

compute_metrics(curve, benchmark_curve, rf) ==
  LET excess(x) == Listed([i \in 1..Len(x) |-> x[i] -- rf // Whole(periods_per_year)])
      annual(returns) == annualize(time_weighted_return(returns), Len(returns))
      of(book, benchmark) ==
        Measures(annual(book), annual(benchmark),
                 annualized_volatility(book), annualized_volatility(benchmark),
                 annualized_volatility(Listed([i \in 1..Len(book) |-> book[i] -- benchmark[i]])),
                 IF Len(book) >= 3 THEN estimate_beta(excess(book), excess(benchmark))
                 ELSE Undefined,
                 max_drawdown(curve), rf)
  IN of(periodic_returns(curve), periodic_returns(benchmark_curve))
=============================================================================
