CONSTANTS
  Keys = {k1, k2, k3, k4}
  Threads = {t1, t2, t3}
SPECIFICATION Spec
INVARIANTS MapMatchesList EachObjectOnce InsertionOrder FootprintBounded
PROPERTIES ImplementsRecencyList
