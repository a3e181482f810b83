\* Every method; three requests of the client's own, two of them in flight.
CONSTANTS
  t1 = t1
  t2 = t2
  t3 = t3
  UnknownName = UnknownName
  BadParams = BadParams
  Nobody = Nobody
  Tool <- MCTool
  Tags <- MCTags
  Capability <- MCCapability
  AllCapabilities <- MCCapability
  WindowSizeOption = 2
  NarrowThresholdOption = 1
  HasForwarder = TRUE
  Method <- AllMethods
  MaxRequests = 3
  MaxPipeline = 2

SPECIFICATION FairSpec
INVARIANTS
  TypeOK
  AnsweredOnceInOrder
  CalledToolVisible
  SizeChangeAnnounced
PROPERTIES
  EveryRequestAnswered
  ViewSizeSettles
\* stdin may be closed and the process is then over.
CHECK_DEADLOCK FALSE
