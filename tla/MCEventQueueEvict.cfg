CONSTANTS
  Consumers = {c1, c2}
  MaxTime = 3
  Delays = {0, 1, 2}
  MaxPending = 2
SPECIFICATION Spec
INVARIANTS OutstandingMatches
