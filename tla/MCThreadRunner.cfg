CONSTANTS
  Workers = {w1, w2}
  MaxArgs = 2
  ParBatch = 2
  ParArgs = 3
SPECIFICATION MCSpec
INVARIANTS TypeOK BatchComplete NoDanglingBatch OneThreadPerArgument ParResultsComplete
PROPERTIES BatchCompletes DestructorReturns ParReturns
