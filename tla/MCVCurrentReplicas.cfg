CONSTANTS
  MaxInt32 = 100
  MaxOrdinal = 2
  tA = tA
  tB = tB
  tC = tC
  c1 = c1
  c2 = c2
  NoRevision = NoRevision
  Templates = {tA, tB, tC}
  Claims = {c1}
  InitialSpecs <- ThreeA
  Specs <- ThreeABC
  Lagging = {}
  MaxEdits = 2
  Faults = {}
  MaxFaults = 0
SPECIFICATION Spec
INVARIANT CurrentReplicasIsANumber
CHECK_DEADLOCK FALSE
