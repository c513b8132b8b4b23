CONSTANTS
  Manifests <- MCManifests
  Replicas = {2}
  MaxWrites = 1
  MaxBreaks = 1
SPECIFICATION Spec
INVARIANT UnreachableIsUnreachable
CHECK_DEADLOCK FALSE
