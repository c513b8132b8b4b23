CONSTANTS
  MaxOps = 2
  MaxStale = 1
SPECIFICATION FairSpec
INVARIANT QuietOwned
PROPERTY AdoptionFresh
PROPERTY OwnsInTheEnd
CHECK_DEADLOCK FALSE
