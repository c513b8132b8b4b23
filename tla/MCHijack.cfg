CONSTANTS
  Manifests <- MCManifests
  Replicas = {2}
  MaxWrites = 3
  MaxBreaks = 2
SPECIFICATION FairSpec
PROPERTY ImplementsContract
PROPERTY TemplateKept
PROPERTY ReaderConverges
PROPERTY StopReleases
CHECK_DEADLOCK FALSE
