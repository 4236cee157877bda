CONSTANTS
  Subject = {s1, s2}
  Predicate = {p1}
  Object = {o1, o2}
  None = None
SPECIFICATION BaseSpec
INVARIANTS BuffersConsistent QueriesReadPendingCommit
PROPERTY ImplementsTransactionalStore
