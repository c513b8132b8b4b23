SPECIFICATION BoundedFairSpec
CONSTANTS
  Fixes = {TRUE, FALSE}
  Oldest = {1, 2}
  HistoryLimit = 0
  MaxCrashes = 1
INVARIANT RevisionsSurvive
PROPERTIES StatusAfterClaim HandedOver
