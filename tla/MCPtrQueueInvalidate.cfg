CONSTANTS
  Producers = {p1}
  Consumers = {c1}
  Timed = {}
  Items = {a, b}
  NULL = NULL
  Size = 2
  AllowInvalidate = TRUE
  AllowDrain = FALSE
SPECIFICATION FairSpec
PROPERTIES WillProduce
