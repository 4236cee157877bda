CONSTANTS
  None = None
  Subject = {a}
  Predicate = {p}
  Object = {o, zero}
  Falsy = {zero}
SPECIFICATION Spec
PROPERTIES RemovesMatching
