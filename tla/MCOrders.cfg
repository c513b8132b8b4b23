CONSTANTS
  MaxInt32 = 100
  MaxOrdinal = 2
  tA = tA
  tB = tB
  tC = tC
  c1 = c1
  c2 = c2
  NoRevision = NoRevision
  Templates = {tA, tB}
  Claims = {}
  InitialSpecs <- OneA
  Specs <- OneOrThreeAB
  Lagging = {"pods"}
  MaxEdits = 3
  Faults = {}
  MaxFaults = 0
SPECIFICATION Spec
INVARIANT QuietHistory
PROPERTY CreateInOrder
PROPERTY TakeDownInOrder
PROPERTY UpdateInOrder
CHECK_DEADLOCK FALSE
