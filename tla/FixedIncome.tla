----------------------------- MODULE FixedIncome -----------------------------
(***************************************************************************)
(* Bonds and bills: src/cfa/fixed_income.py.  A bond is [coupon, years,    *)
(* frequency] with a face value of one.                                    *)
(***************************************************************************)
EXTENDS Rational

DISCOUNT_YEAR == Whole(360)
BOND_YEAR == Whole(365)

_periods(bond) == bond.years * bond.frequency
Rate(bond, yield) == yield // Whole(bond.frequency)

CashFlow(bond, period) ==
  bond.coupon // Whole(bond.frequency) ++ (IF period = _periods(bond) THEN One ELSE Zero)
PresentValue(bond, yield, period) ==
  CashFlow(bond, period) // Power(One ++ Rate(bond, yield), period)
Times(bond, yield, weight(_)) ==
  Sum([period \in 1.._periods(bond) |-> Whole(weight(period)) ** PresentValue(bond, yield, period)])

bond_price(bond, yield) == Times(bond, yield, LAMBDA period : 1)

\* yield solves for the price within the bracket of the search.
yield_to_maturity(price, bond, yield) ==
  /\ Q(-99, 100) \preceq yield /\ yield \preceq Whole(10)
  /\ bond_price(bond, yield) = price
current_yield(bond, price) == bond.coupon // price

macaulay_duration(bond, yield) ==
  Times(bond, yield, LAMBDA period : period)
    // (bond_price(bond, yield) ** Whole(bond.frequency))
modified_duration(bond, yield) == macaulay_duration(bond, yield) // (One ++ Rate(bond, yield))
convexity(bond, yield) ==
  Times(bond, yield, LAMBDA period : period * (period + 1))
    // (bond_price(bond, yield) ** Square(One ++ Rate(bond, yield)) ** Square(Whole(bond.frequency)))
price_change_percent(bond, yield, change) ==
  Q(1, 2) ** convexity(bond, yield) ** Square(change)
    -- modified_duration(bond, yield) ** change
-----------------------------------------------------------------------------
(* Bills, of a face value of one.                                          *)

bank_discount_yield(price, days) == (One -- price) ** (DISCOUNT_YEAR // Whole(days))
holding_period_yield(purchase, sale, income) == ((sale ++ income) -- purchase) // purchase
money_market_yield(holding_period, days) == holding_period ** (DISCOUNT_YEAR // Whole(days))

\* The price a quoted discount implies, and the yield on what is paid for it.
ImpliedPrice(discount_yield, days) == One -- discount_yield ** (Whole(days) // DISCOUNT_YEAR)
discount_to_bond_equivalent_yield(discount_yield, days) ==
  LET price == ImpliedPrice(discount_yield, days)
  IN ((One -- price) // price) ** (BOND_YEAR // Whole(days))
=============================================================================
