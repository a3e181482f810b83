\* A server that makes a request of its own.
CONSTANTS
  c1 = c1
  c2 = c2
  NoCaller = NoCaller
  Caller <- MCCaller
  MaxCalls = 2
  MaxNoise = 1
  PipeCapacity = 2

SPECIFICATION Spec
INVARIANTS
  ResultIsAnswer
\* The requests are used up and the server is gone.
CHECK_DEADLOCK FALSE
