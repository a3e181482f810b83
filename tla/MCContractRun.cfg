\* Every contract of up to four actions.
CONSTANTS
  Tool <- MCTool
  Capability <- MCCapability
  Registries <- MCRegistries

SPECIFICATION FairSpec
INVARIANTS
  TypeOK
  OrderHonorsDependsOn
  CycleErrorIsReal
  FinishedRunIsWhole
PROPERTIES
  OrderKeepsPromise
  OneDependencyHonored
  RunEnds
\* A run ends.
CHECK_DEADLOCK FALSE
