CONSTANTS
  Producers = {p1, p2}
  Consumers = {c1, c2}
  Timed = {p2, c2}
  Items = {a, b}
  NULL = NULL
  Size = 2
  AllowInvalidate = TRUE
  AllowDrain = TRUE
SPECIFICATION FairSpec
INVARIANTS TypeOK RingConsistent NoConsumerMissesWakeup
PROPERTIES CloseReleasesEveryone NoOverwrite ImplementsClosableQueue
