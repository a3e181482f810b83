\* Two goroutines, two requests, two lines of noise.
CONSTANTS
  c1 = c1
  c2 = c2
  NoCaller = NoCaller
  Caller <- MCCaller
  MaxCalls = 2
  MaxNoise = 2
  PipeCapacity = 2

SPECIFICATION FairSpec
INVARIANTS
  TypeOK
  NoCrossDelivery
  OverlapNeedsTimeout
  WireInOrder
  AnswerNotLost
PROPERTIES
  CallsReturn
\* The requests are used up and the server is gone.
CHECK_DEADLOCK FALSE
