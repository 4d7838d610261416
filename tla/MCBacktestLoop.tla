--------------------------- MODULE MCBacktestLoop ---------------------------
(***************************************************************************)
(* Two symbols over seven stamps.  The bond may start late, either may     *)
(* miss one bar, one stamp may carry an event that is no bar, and prices   *)
(* rise, fall or crash and recover.  Spans give one fold, two, or two and  *)
(* a short last one.                                                       *)
(***************************************************************************)
EXTENDS BacktestLoop

MCSymbols == {"BND", "SPY"}
Stamps == 1..7

Paths == {<<10, 12, 11, 8, 9, 14, 13>>, <<10, 9, 8, 6, 7, 6, 5>>}

\* The bond prints from "starts" on; "gap" is the bar that is missing.
Printed(symbol, t, starts, gap) ==
  /\ symbol = "BND" => t >= starts
  /\ gap # <<symbol, t>>

Recording(path, starts, gap) ==
  FoldLeft(LAMBDA acc, t :
    acc \o (IF Printed("BND", t, starts, gap)
            THEN <<[stamp |-> t, symbol |-> "BND", price |-> 5]>> ELSE <<>>)
        \o (IF t = 4 THEN <<[stamp |-> t, symbol |-> "BND", price |-> 0]>> ELSE <<>>)
        \o (IF Printed("SPY", t, starts, gap)
            THEN <<[stamp |-> t, symbol |-> "SPY", price |-> path[t]]>> ELSE <<>>),
    <<>>, [i \in Stamps |-> i])

MCSources ==
  {Recording(path, starts, gap) : path \in Paths, starts \in {1, 3},
                               gap \in {<<"BND", 0>>, <<"BND", 5>>, <<"SPY", 2>>}}
MCSpans == {[start |-> 1, end |-> 7, estimation |-> 3, trade |-> 3],
            [start |-> 0, end |-> 7, estimation |-> 2, trade |-> 3],
            [start |-> 1, end |-> 8, estimation |-> 6, trade |-> 2]}
MCHoldings == {[s \in MCSymbols |-> 0],
               [s \in MCSymbols |-> IF s = "SPY" THEN 3 ELSE 0],
               [s \in MCSymbols |-> IF s = "SPY" THEN 2 ELSE 3]}
=============================================================================
