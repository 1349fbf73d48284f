SPECIFICATION Spec
CONSTANTS
  p1 = p1
  p2 = p2
  p3 = p3
  p4 = p4
  i1 = i1
  i2 = i2
  Ptr = {p1, p2, p3}
  NoPtr = NoPtr
  Thread = {t1}
  NoThread = NoThread
  Id = {i1, i2}
  NoId = NoId
  Span <- SpanMixed
  Serves <- ServesAll
  QuarantineSize = 5
  QuarantineNum = 2
  AllocZoneN = 5
  QuarantineOn = FALSE
  HaltOnError = TRUE
  Api = {"CLEAR", "REALLOC"}
  ReallocKinds = {"in_place", "free_api"}
  CoarseAllocs = FALSE
  ProgramErrors = {FALSE}
  DeepFrees = FALSE
  NumBound = 3
  AllocBound = 3
INVARIANTS DanglingPoisoned
PROPERTIES FollowsCycle
