SPECIFICATION Spec
CONSTANTS
  executor = executor
  wifi = wifi
  Threads <- MCThreads
  Modulus = 5
  Delays <- MCDelays
  Epochs = 2
  MaxOverlaps = 3
INVARIANTS TypeOK ExactUntilOverlap StampsExactUntilOverlap NoWrapLost AheadByOverlaps
SYMMETRY MCSymmetry
