\* A call that times out, and the answer to the next one.
CONSTANTS
  c1 = c1
  c2 = c2
  NoCaller = NoCaller
  Caller <- MCCaller
  MaxCalls = 2
  MaxNoise = 0
  PipeCapacity = 2

SPECIFICATION FairSpec
PROPERTIES
  AnswerReachesCaller
\* The requests are used up and the server is gone.
CHECK_DEADLOCK FALSE
