CONSTANTS
  MaxInt32 = 100
  MaxOrdinal = 1
  tA = tA
  tB = tB
  tC = tC
  c1 = c1
  c2 = c2
  NoRevision = NoRevision
  Templates = {tA, tB}
  Claims = {c1}
  InitialSpecs <- TwoA
  Specs <- UpdateOrNone
  Lagging = {}
  MaxEdits = 1
  Faults = {"error", "fail", "deleteSet"}
  MaxFaults = 1
SPECIFICATION FairSpec
PROPERTY ScaleDownInOrder
PROPERTY Converges
PROPERTY DeletedSetEmpties
CHECK_DEADLOCK FALSE
