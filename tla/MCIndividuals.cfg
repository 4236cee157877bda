CONSTANTS
  i1 = i1
  i2 = i2
  K = K
  includes = includes
  q = q
  a = a
  b = b
  n = n
  iri = iri
  one = one
  str1 = str1
  x = x
  int1 = int1
  int1en = int1en
  en = en
  nameA = nameA
  other = other
  Unknown <- MCUnknown
  contains = contains
  File = File
  Type = type
  None = None
  Container = K
  MainPredicate = n
  NoneText = x
  Individual <- MCIndividual
  Class <- MCClass
  Relationship <- MCRelationship
  Attribute <- MCAttribute
  Annotation <- MCAnnotation
  Iri <- MCIri
  Value <- MCValue
  Literal <- MCLiteral
  Name <- MCName
  Sub <- MCSub
  InverseOf <- MCInverseOf
  Python <- MCPython
  Cast <- MCCast
  Typed <- MCTyped
  LiteralOf <- MCLiteralOf
  Text <- MCText
  TextOf <- MCTextOf
  Named <- MCNamed
  AttributesOf <- MCAttributesOf
  LabelText <- MCLabelText
  Language <- MCLanguage
  LabelPredicates <- MCLabelPredicates
  LanguageOf <- MCLanguageOf
  Tagged <- MCTagged
  Rank <- MCRank
  AttributeArguments <- MCAttributeArguments
  RelationshipArguments <- MCRelationshipArguments
  AnnotationArguments <- MCAnnotationArguments
  ImportArguments <- MCImportArguments
  Sources <- MCSources
  NewStatements <- MCNewStatements
  Filter <- MCFilter
  MaxTriples = 3
  MaxStatements = 2
SPECIFICATION Spec
INVARIANTS TypeOK OnlyOwnStatements SetLaw SessionSetLaw ReadsAgree
CHECK_DEADLOCK FALSE
