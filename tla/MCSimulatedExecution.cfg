SPECIFICATION FairSpec
CONSTANTS
  NumSymbols = 2
  WeightUnit = 4
  MinTradeNotional = 15
  InitialCash = 100
  Markets <- MCMarkets
  Books <- MCBooks
  SpreadBps = 2
  BpsUnit = 10
  CommissionPerShare = 2
  MaxSessions = 3
CHECK_DEADLOCK FALSE
INVARIANTS TypeOK NeverOverdrawn NeverShort ValueConserved ExitsAreSold
  NeverAboveTarget DriftIsExplained
PROPERTY TradesWhatItCan
