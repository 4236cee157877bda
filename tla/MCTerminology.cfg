CONSTANTS
  None = None
  Thing = Thing
  topData = topData
  topObject = topObject
  R = R
  N = N
  base = base
  f1 = f1
  f2 = f2
  f3 = f3
  A = A
  B = B
  C = C
  a = a
  b = b
  iri = iri
  iri1 = iri1
  iri2 = iri2
  simphony = simphony
  n1 = n1
  w1 = w1
  w2 = w2
  i1 = i1
  zero = zero
  one = one
  two = two
  File <- MCFile
  Base <- MCBase
  Entity <- MCEntity
  Kind <- MCKind
  Top <- MCTop
  Iri <- MCIri
  Name <- MCName
  Word <- MCWord
  Individual <- MCIndividual
  Declares <- MCDeclares
  SubOf <- MCSubOf
  Restricts <- MCRestricts
  Domains <- MCDomains
  Names <- MCNames
  Within <- MCWithin
  Rdfs <- MCRdfs
  Labelled <- MCLabelled
  Suffix <- MCSuffix
  Keywords <- MCKeywords
  Falsy <- MCFalsy
  Programs <- MCPrograms
  MaxClock = 1
SPECIFICATION Spec
INVARIANTS CachesConsistent ClosuresAgree CreationComplete
CONSTRAINT Relevant
