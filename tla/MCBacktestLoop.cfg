SPECIFICATION Spec
CONSTANTS
  Symbols <- MCSymbols
  Sources <- MCSources
  Spans <- MCSpans
  InitialCash = 40
  RebalanceEvery = 2
  EstimationWindow = 2
  Holdings <- MCHoldings
  Costs = {0, 1}
INVARIANTS
  DecidesOnWhatIsKnown
  RebalancesOnSchedule
  AlignedWithoutGaps
  BreakerSeesReportedDrawdown
CHECK_DEADLOCK FALSE
