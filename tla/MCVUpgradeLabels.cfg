SPECIFICATION Spec
CONSTANTS
  Fixes = {FALSE}
  Oldest = {1}
  HistoryLimit = 1
  MaxCrashes = 0
INVARIANT LabelsProtect
