SPECIFICATION Spec
CONSTANTS
  NumSymbols = 2
  WeightUnit = 2
  MinTradeNotional = 1
  InitialPositions <- MCInitialPositions
  Values = {2}
  Markets <- MCMarkets
  Books <- MCBooks
  MaxDecisions = 2
  MaxRestarts = 1
  MaxFlying = 1
INVARIANTS TypeOK NoDoubling ExactlyToTarget DuplicatesAreReal FillsAreBacked
PROPERTY ImplementsLedger
