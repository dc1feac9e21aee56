CONSTANTS
  Threads = {t1, t2}
  kBatchSize = 2
  kRawAllocationThreshold = 2
  kMoveToGlobalThreshold = 3
  MaxBatches = 3
SPECIFICATION Spec
INVARIANTS OnePlace NoneLost
PROPERTIES ImplementsSizes
