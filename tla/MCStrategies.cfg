CONSTANTS
  MaxInt32 = 100
  MaxOrdinal = 1
  tA = tA
  tB = tB
  tC = tC
  c1 = c1
  c2 = c2
  NoRevision = NoRevision
  Templates = {tA, tB, tC}
  Claims = {}
  InitialSpecs <- TwoA
  Specs <- StrategyChanges
  Lagging = {"pods", "revisions"}
  MaxEdits = 2
  Faults = {}
  MaxFaults = 0
SPECIFICATION Spec
INVARIANT QuietPods
INVARIANT QuietStatus
PROPERTY UpdateInOrder
PROPERTY CompletionSound
PROPERTY PodRevisionsSpared
PROPERTY PartitionHeld
CHECK_DEADLOCK FALSE
