SPECIFICATION Spec
CONSTANTS
  Stacks <- MCStacks
  Capacity = 2
  RefillRate = 2
  Catalogues <- MCCatalogues
  Views <- MCViews
  GuardPasses <- MCGuardPasses
  ModelsWithin <- MCModelsWithin
  NeutralAnswer <- MCNeutralAnswer
  MaxClock = 2
  MaxBack = 1
  WeightUnits = 10
  mapping <- MCMapping
  Symbols <- MCSymbols
  Headlines <- MCHeadlines
  LOOKBACK = 0
  minimum_citations = 1
  Ratios <- MCRatios
  NoFiling = NoFiling
  macro_signals <- MCSignals
  NoSignals = NoSignals
  Days = {1, 2}
  MaxCycles = 2
INVARIANTS
  OpinionsAreEarned
  CallsWithinBudget
PROPERTIES
  AnswersStand
CHECK_DEADLOCK FALSE
