CONSTANTS
  MaxInt32 = 8
  Replicas = {0, 1, 2, 3, 4}
  Slots = {0, 1, 2, 3, 5}
SPECIFICATION ScaleSpec
INVARIANT LoopInv
INVARIANT ResultIsFirstFree
INVARIANT MinIsLeastFree
PROPERTY ScaleInAtRemovesOnlyThatPod
PROPERTY ScaleAtEndMovesNoPod
PROPERTY ScaleOutAtBringsBackThatPod
