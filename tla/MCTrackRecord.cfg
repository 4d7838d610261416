SPECIFICATION RecordSpec
CONSTANTS
  periods_per_year = 2
  Yearly <- MCYearly
  Undefined = Undefined
  Moves <- MCMoves
  Agreements <- MCAgreements
  smoothing <- Half
  rf <- MCrf
  market_return <- Half
  Strikes <- MCStrikes
  Premiums <- MCPremiums
  Bonds <- MCBonds
  Yields <- MCYields
  Bills <- MCBills
  Policies <- MCPolicies
  frontier_points = 3
  Offered <- MCOffered
  MaxPeriods = 4
INVARIANTS
  ReportsAreTrue
  NoFreeLunch
CHECK_DEADLOCK FALSE
