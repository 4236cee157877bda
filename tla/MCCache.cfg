CONSTANTS
  a = a
  b = b
  p1 = p1
  p2 = p2
  p3 = p3
  None = None
  Subject <- MCSubject
  Predicate <- MCPredicate
  Object <- MCObject
  Size = 4
  Backends <- MCBackends
  Queries <- MCQueries
  Additions <- MCAdditions
  Removals <- MCRemovals
SPECIFICATION Spec
INVARIANTS CacheConsistent CachedReadsExact NoPhantoms
