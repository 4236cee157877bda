CONSTANTS
  s1 = s1
  s2 = s2
  attr = attr
  o1 = o1
  o2 = o2
  Type = type
  None = None
  Subject <- MCSubject
  Predicate <- MCPredicate
  Object <- MCObject
  Caught <- MCCaught
  Faults = {"interface", "files"}
  EntityTracking = TRUE
SPECIFICATION Spec
INVARIANTS TypeOK TypedCommitAccepted
PROPERTIES ImplementsBackend AddedEntitiesExact ChangesReported
