SPECIFICATION Spec
CONSTANTS
  NumSymbols = 4
  WeightUnit = 100
  Tolerance = 4
  Policy <- MCPolicy
  Universe <- MCUniverse
  Sector <- MCSector
  Beta <- MCBeta
  Loading <- MCLoading
  Return <- MCReturn
  RiskFree = 2
  Books <- MCBooks
  Proposals <- MCProposals
  MinVariance <- MCMinVariance
  Blockings <- MCBlockings
  MaxShocks = 2
INVARIANT RiskNeverIncreases
