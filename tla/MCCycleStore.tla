---------------------------- MODULE MCCycleStore ----------------------------
(***************************************************************************)
(* One scheduled event, one delivery too many and one killed run: three    *)
(* runs and a request that overlap in every order, with one mandate beside *)
(* "no mandate", so that the runs may agree or disagree.                   *)
(***************************************************************************)
EXTENDS CycleStore

MCMandates == {"m1"}
=============================================================================
