SPECIFICATION Spec
CONSTANTS
  p1 = p1
  p2 = p2
  p3 = p3
  p4 = p4
  i1 = i1
  i2 = i2
  Ptr = {p1, p2, p3}
  NoPtr = NoPtr
  Thread = {t1, t2}
  NoThread = NoThread
  Id = {i1}
  NoId = NoId
  Span <- SpanMixed
  Serves <- ServesAll
  QuarantineSize = 5
  QuarantineNum = 2
  AllocZoneN = 1
  QuarantineOn = TRUE
  HaltOnError = TRUE
  Api = {}
  ReallocKinds = {}
  CoarseAllocs = FALSE
  ProgramErrors = {TRUE, FALSE}
  DeepFrees = FALSE
  NumBound = 3
  AllocBound = 9
INVARIANTS TypeOK DanglingPoisoned HandBackSound QuarantineHeld NothingLost CountersAccurate NumWithinLimit NotQuarantinedTwice
PROPERTIES FollowsCycle EvictsOnlyWhenFull
CHECK_DEADLOCK FALSE
