CONSTANTS
  None = None
  Broken = Broken
  Thing = Thing
  A = A
  B = B
  base = base
  f1 = f1
  f2 = f2
  f3 = f3
  f4 = f4
  iri1 = iri1
  iri2 = iri2
  n1 = n1
  w1 = w1
  p = p
  px = px
  u = u
  File <- MCFile
  Base <- MCBase
  Entity <- MCEntity
  Kind <- MCKind
  Top <- MCTop
  Iri <- MCIri
  Name <- MCName
  Word <- MCWord
  Individual = {}
  Declares <- MCDeclares
  SubOf <- MCSubOf
  Restricts <- MCNone
  Domains <- MCNone
  Names <- MCNames
  Within <- MCWithin
  Rdfs = {}
  Labelled <- MCLabelled
  Suffix <- MCSuffix
  Keywords <- MCNone
  Falsy = {None}
  Programs <- MCPrograms
  MaxClock = 1
  Identifier <- MCIdentifier
  Id <- MCId
  Requires <- MCRequires
  Bundled <- MCBundled
  Longer <- MCLonger
SPECIFICATION PicoSpec
INVARIANTS LoadedIsInstalled RequirementsInstalled RequirementsFirst LookupsFresh
CONSTRAINT FewDamaged
