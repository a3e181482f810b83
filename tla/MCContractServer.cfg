\* Two requests and one restart.
CONSTANTS
  r1 = r1
  r2 = r2
  a = a
  b = b
  Unknown = Unknown
  Request <- MCRequest
  Capability <- MCCapability
  Tool <- MCTool
  Registry <- MCRegistry
  MaxRestarts = 1

SPECIFICATION FairSpec
INVARIANTS
  TypeOK
  GivenIsStored
  CalledUnderContract
  AnswerMatchesEffect
PROPERTIES
  ShutdownEnds
  RequestAnswered
\* The process may stay down.
CHECK_DEADLOCK FALSE
