SPECIFICATION Spec
CONSTANTS
  NumPages = 1
  Mandates <- MCMandates
  MaxEvents = 1
  MaxRuns = 3
  MaxRequests = 1
  MaxDuplicates = 1
  MaxTimeouts = 1
  MaxAgentEvents = 1
CHECK_DEADLOCK FALSE
PROPERTY SavedOnlyWhenMissing
