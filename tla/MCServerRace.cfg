\* Two requests: does the server run until it is told to stop?
CONSTANTS
  r1 = r1
  r2 = r2
  a = a
  b = b
  Unknown = Unknown
  Request <- MCRequest
  Capability <- MCCapability
  Tool <- MCTool
  Registry <- MCRegistry
  MaxRestarts = 0

SPECIFICATION FairSpec
INVARIANTS
  ServesUntilCancelled
\* The process may stay down.
CHECK_DEADLOCK FALSE
