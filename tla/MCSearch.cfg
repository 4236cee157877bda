CONSTANTS
  i1 = i1
  i2 = i2
  i3 = i3
  i4 = i4
  Unlimited = Unlimited
  Individual <- MCIndividual
  Roots <- MCRoots
  Edges <- MCEdges
  Defects <- MCDefects
  Criteria <- MCCriteria
  Depths = {1, 2, Unlimited}
  MaxEdits = 2
SPECIFICATION Spec
INVARIANTS SearchExact OncePerConnection
PROPERTY Ends
CHECK_DEADLOCK FALSE
