SPECIFICATION Spec
CONSTANTS
  p1 = p1
  p2 = p2
  p3 = p3
  Ptr = {p1, p2, p3}
  NoPtr = NoPtr
  Thread = {t1, t2}
  NoThread = NoThread
  Span <- MCSpan
  QuarantineSize = 3
  QuarantineNum = 2
  NumNodes = 3
  WordSize = 10
  Served <- MCServed
  Regimes = {TRUE, FALSE}
INVARIANTS
  TypeOK
  ChunksAllocated
  LengthWithinLimit
PROPERTIES
  MutexReleased
  FollowsOperations
CHECK_DEADLOCK FALSE
