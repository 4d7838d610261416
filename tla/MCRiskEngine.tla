---------------------------- MODULE MCRiskEngine ----------------------------
(***************************************************************************)
(* Four symbols in two sectors, one of them outside the universe and one   *)
(* with a negative beta; books held inside and outside the policy;         *)
(* proposals that are short, levered, concentrated, too risky or nothing   *)
(* at all; limits that each bind for some of them.                         *)
(***************************************************************************)
EXTENDS RiskEngine

MCPolicy ==
  [max_position_weight |-> 40, max_sector_weight |-> 50,
   max_gross_exposure |-> 100, min_cash_buffer |-> 10,
   max_portfolio_beta |-> 40, max_annualized_volatility |-> 14,
   threshold_return |-> 0, minimum_ratio |-> 1,
   corridor_absolute |-> 5, max_turnover |-> 20]
MCUniverse == {1, 2, 3}
MCSector == <<"tech", "tech", "bonds", "bonds">>
MCBeta == <<150, 80, -20, 100>>
MCLoading == <<30, 20, 10, 20>>
MCReturn == <<40, 30, 10, 0>>
MCBooks == {<<0, 0, 0, 0>>, <<20, 20, 30, 0>>, <<60, 0, 0, 0>>, <<0, 0, 40, 20>>}
MCProposals == {<<60, 50, 60, 0>>, <<-10, 40, 60, 20>>, <<60, 0, 0, 0>>, <<0, 0, 0, 0>>}
MCMinVariance == {<<-20, 20, 100, 0>>, <<0, 0, 0, 0>>}
MCBlockings == {{}, {2}}
=============================================================================
