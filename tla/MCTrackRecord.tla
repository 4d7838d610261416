---------------------------- MODULE MCTrackRecord ----------------------------
(***************************************************************************)
(* Four periods of gains, losses and recoveries, of which two make a year: *)
(* records shorter and longer than a year are annualized.                  *)
(***************************************************************************)
EXTENDS TrackRecord

Half == Q(1, 2)

\* Growth to a whole power is exact, to another it lies on a chord.
MCYearly(growth, periods) ==
  LET years == periods_per_year \div periods
      rest == Q(periods_per_year % periods, periods)
  IN Power(growth, years) ** (One ++ rest ** (growth -- One))

MCMoves ==
  {<<Minus(Half), Half>>, <<Minus(Half), Minus(Half)>>, <<Half, Half>>, <<One, Half>>,
   <<One, Zero>>, <<Half, Zero>>}
Agreement(management, hurdle, basis, net) ==
  [management |-> management, incentive |-> Half, hurdle |-> hurdle, basis |-> basis,
   net_of_management |-> net]
MCAgreements ==
  {Agreement(Zero, Zero, "ENDING", TRUE), Agreement(Q(1, 4), Zero, "ENDING", TRUE),
   Agreement(Q(1, 4), Q(1, 4), "BEGINNING", TRUE), Agreement(Q(1, 4), Zero, "BEGINNING", FALSE),
   Agreement(One, Zero, "ENDING", TRUE)}
MCrf == Q(1, 4)
MCStrikes == {Half, One, Whole(2)}
MCPremiums == {Zero, Q(1, 8)}
MCBonds ==
  {[coupon |-> c, years |-> n, frequency |-> m] : c \in {Zero, Half}, n \in 1..2, m \in 1..2}
MCYields == {Zero, Half, One}
MCBills == [price : {Q(9, 10), Q(99, 100), One}, days : {90, 180}]
MCOffered == {Q(i, 12) : i \in 0..12}
Level == {<<Zero, Zero>>, <<Minus(Half), Minus(Half)>>}
Tilted == {<<Minus(Half), Zero>>, <<Half, Minus(Half)>>}
MCPolicies ==
  [cap : {Half, Q(3, 4), One}, tilts : Level, intensity : {Zero, Half}]
    \cup [cap : {Half, Q(3, 4), One}, tilts : Tilted, intensity : {Half}]

=============================================================================
