CONSTANTS
  s1 = s1
  s2 = s2
  c1 = c1
  c2 = c2
  None = None
  Session = {s1, s2}
  Container = {c1, c2}
  default = s1
  Places = {c1}
  Lockable = {s2}
  MaxLocks = 1
  MaxDepth = 3
SPECIFICATION Spec
CONSTRAINT LocksNearTheTop
INVARIANTS SubscribersConsistent LinkFollowsParent CloseProgresses
PROPERTIES NoneLinkedToClosed
