----------------------------- MODULE Derivatives -----------------------------
(***************************************************************************)
(* Forwards and options over whole years: src/cfa/derivatives.py.          *)
(***************************************************************************)
EXTENDS Returns

compound(value, rate, years) == value ** Power(One ++ rate, years)
discount(value, rate, years) == value // Power(One ++ rate, years)

\* What is paid out before delivery goes to the holder of the stock.
forward_price(spot, rate, years, dividends) == compound(spot -- dividends, rate, years)
-----------------------------------------------------------------------------
(* Parity.                                                                 *)

european_put_call_parity(call, put, spot, strike, rate, years, tolerance) ==
  LET difference == (call ++ discount(strike, rate, years)) -- (put ++ spot)
  IN difference \preceq tolerance /\ Minus(tolerance) \preceq difference

implied_put_price(call, spot, strike, rate, years) ==
  call ++ (discount(strike, rate, years) -- spot)
implied_call_price(put, spot, strike, rate, years) ==
  put ++ (spot -- discount(strike, rate, years))

american_put_call_parity_bounds(spot, strike, rate, years, dividends) ==
  [lower |-> (spot -- dividends) -- strike, upper |-> spot -- discount(strike, rate, years)]

\* How far call minus put lies outside the bounds.
american_parity_breach(call, put, spot, strike, rate, years, dividends) ==
  LET bounds == american_put_call_parity_bounds(spot, strike, rate, years, dividends)
      spread == call -- put
  IN IF bounds.lower \preceq spread /\ spread \preceq bounds.upper THEN Zero
     ELSE IF bounds.upper \prec spread THEN spread -- bounds.upper
     ELSE spread -- bounds.lower
-----------------------------------------------------------------------------
(* Value before and at expiry.                                             *)

intrinsic_value(option_type, spot, strike) ==
  IF option_type = "CALL" THEN Larger(spot -- strike, Zero) ELSE Larger(strike -- spot, Zero)
time_value(premium, intrinsic) ==
  IF premium \prec intrinsic THEN Undefined ELSE premium -- intrinsic

moneyness(option_type, spot, strike) ==
  IF spot = strike THEN "AT_THE_MONEY"
  ELSE IF option_type = "CALL" <=> strike \prec spot THEN "IN_THE_MONEY"
  ELSE "OUT_OF_THE_MONEY"

\* Of a LONG_CALL, SHORT_CALL, LONG_PUT or SHORT_PUT.
option_payoff(position, strike, spot) ==
  LET call == Larger(spot -- strike, Zero)
      put == Larger(strike -- spot, Zero)
  IN CASE position = "LONG_CALL" -> call
       [] position = "SHORT_CALL" -> Minus(call)
       [] position = "LONG_PUT" -> put
       [] position = "SHORT_PUT" -> Minus(put)
option_profit(position, strike, premium, spot) ==
  IF position \in {"LONG_CALL", "LONG_PUT"}
  THEN option_payoff(position, strike, spot) -- premium
  ELSE option_payoff(position, strike, spot) ++ premium

covered_call_payoff(spot, strike) == Smaller(spot, strike)
covered_call_profit(spot, strike, stock_cost, premium) ==
  covered_call_payoff(spot, strike) ++ (premium -- stock_cost)
covered_call_breakeven(stock_cost, premium) == stock_cost -- premium

protective_put_payoff(spot, strike) == Larger(spot, strike)
protective_put_profit(spot, strike, stock_cost, premium) ==
  protective_put_payoff(spot, strike) -- (stock_cost ++ premium)
protective_put_breakeven(stock_cost, premium) == stock_cost ++ premium
=============================================================================
