-------------------------- MODULE MCNaiveExecution --------------------------
(***************************************************************************)
(* Two symbols, one of them held, and two target books that trade both in  *)
(* opposite directions; a second market doubles one price and quotes none  *)
(* for the other, so that a replay sizes differently from the first try.   *)
(***************************************************************************)
EXTENDS NaiveExecution

MCInitialPositions == <<1, 0>>
MCMarkets == {<<1, 1>>, <<0, 2>>}
MCBooks == {<<1, 2>>, <<0, 0>>}
=============================================================================
