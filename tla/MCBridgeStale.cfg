\* Lists and calls only: a surface that changes without changing its size.
CONSTANTS
  t1 = t1
  t2 = t2
  t3 = t3
  UnknownName = UnknownName
  BadParams = BadParams
  Nobody = Nobody
  Tool <- MCTool
  Tags <- MCTags
  Capability <- MCCapability
  AllCapabilities <- MCCapability
  WindowSizeOption = 2
  NarrowThresholdOption = 2
  HasForwarder = TRUE
  Method <- SurfaceMethods
  MaxRequests = 4
  MaxPipeline = 2

SPECIFICATION FairSpec
INVARIANTS
  ChangeAnnounced
\* stdin may be closed and the process is then over.
CHECK_DEADLOCK FALSE
