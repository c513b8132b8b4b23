CONSTANTS
  MaxInt32 = 100
  MaxOrdinal = 2
  tA = tA
  tB = tB
  tC = tC
  c1 = c1
  c2 = c2
  NoRevision = NoRevision
  Templates = {tA, tB}
  Claims = {c1}
  InitialSpecs <- ThreeA
  Specs <- ScaleOrUpdate
  Lagging = {"set", "pods", "claims", "revisions"}
  MaxEdits = 1
  Faults = {}
  MaxFaults = 0
SPECIFICATION Spec
INVARIANT TypeOK
INVARIANT ObservedGenerationHonest
INVARIANT PodsHaveClaims
INVARIANT QuietPods
PROPERTY StatusRevisionsSpared
CHECK_DEADLOCK FALSE
