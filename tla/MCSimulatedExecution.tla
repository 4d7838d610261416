------------------------ MODULE MCSimulatedExecution ------------------------
(***************************************************************************)
(* Two symbols.  The closes move against each other and one of them falls  *)
(* to zero; the books swap the holdings in both directions, so that a buy  *)
(* is in line before the sale that pays for it, and one book is all in.    *)
(***************************************************************************)
EXTENDS SimulatedExecution

MCMarkets == {<<10, 10>>, <<20, 10>>, <<10, 30>>, <<0, 20>>}
MCBooks == {<<2, 1>>, <<0, 3>>, <<3, 0>>, <<4, 0>>}
=============================================================================
