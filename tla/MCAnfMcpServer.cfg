\* The process anf-mcp with two lines of any kind, fifteen namespace views.
CONSTANTS
  a = a
  b = b
  p = p
  q = q
  v1 = v1
  v2 = v2
  data = data
  NoImage = NoImage
  TooDeep = TooDeep
  Nothing = Nothing
  BadParams = BadParams
  UnknownName = UnknownName
  MissingName = MissingName
  Name <- MCName
  Image <- MCImage
  Registrations <- MCRegistrations
  FailingResource = {}
  View <- MCView
  Data <- MCData
  MaxLines = 2
  MaxPipeline = 2

SPECIFICATION FairSpec
INVARIANTS
  TypeOK
  AnswersMatchLines
  HealthAgrees
PROPERTIES
  ServesUntilTheEnd
\* The process ends.
CHECK_DEADLOCK FALSE
