CONSTANTS
  Producers = {p1}
  Consumers = {c1}
  Timed = {}
  Items = {a, b}
  NULL = NULL
  Size = 2
  AllowInvalidate = FALSE
  AllowDrain = FALSE
SPECIFICATION FairSpec
INVARIANTS NoProducerMissesWakeup
PROPERTIES WillProduce WillConsume
