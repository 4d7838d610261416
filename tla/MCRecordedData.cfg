SPECIFICATION Spec
CONSTANTS
  Daily = {"DGS3MO"}
  Filed = {"Revenues", "SalesRevenueNet"}
  ConceptTags <- MCConceptTags
  PublicationLag = 1
  Recorders = {r1, r2}
  NumPages = 1
  Publications <- MCPublications
  Thin = {2}
  MaxDay = 4
  MaxRuns = 2
INVARIANTS
  ReplayMatchesLive
  YearOverYearCountsPositions
  ManifestIsReplayable
PROPERTIES
  RecordingIsStable
SYMMETRY Symmetry
CHECK_DEADLOCK FALSE
