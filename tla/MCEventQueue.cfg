CONSTANTS
  Consumers = {c1, c2}
  MaxTime = 3
  Delays = {0, 1, 2}
  MaxPending = 2
SPECIFICATION FairSpec
INVARIANTS NothingInThePast OnTime NoUseAfterFree
PROPERTIES TimeMonotone RunEnds
