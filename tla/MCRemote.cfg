CONSTANTS
  None = None
  Subject = {a, b, c}
  Predicate = {p}
  Object = {o}
  Falsy = {}
SPECIFICATION Spec
INVARIANTS NothingLeftAtServer
PROPERTIES StoresWhatWasRead CommitInvisible ReturnedIsStored RemovesMatching
