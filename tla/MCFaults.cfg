CONSTANTS
  MaxInt32 = 100
  MaxOrdinal = 1
  tA = tA
  tB = tB
  tC = tC
  c1 = c1
  c2 = c2
  NoRevision = NoRevision
  Templates = {tA}
  Claims = {c1, c2}
  InitialSpecs <- TwoA
  Specs <- ToNone
  Lagging = {"pods"}
  MaxEdits = 1
  Faults = {"error", "fail", "unready", "drain", "relabel", "dropClaim"}
  MaxFaults = 2
SPECIFICATION Spec
INVARIANT QuietPods
INVARIANT QuietStatus
CHECK_DEADLOCK FALSE
