SPECIFICATION Spec
CONSTANTS
  p1 = p1
  p2 = p2
  p3 = p3
  p4 = p4
  i1 = i1
  i2 = i2
  Ptr = {p1, p2, p3}
  NoPtr = NoPtr
  Thread = {t1, t2}
  NoThread = NoThread
  Id = {i1}
  NoId = NoId
  Span <- SpanUnit
  Serves <- ServesAll
  QuarantineSize = 5
  QuarantineNum = 1
  AllocZoneN = 1
  QuarantineOn = TRUE
  HaltOnError = TRUE
  Api = {"REALLOC", "GC"}
  ReallocKinds = {"in_place", "free_api", "direct", "fail", "zero"}
  CoarseAllocs = TRUE
  ProgramErrors = {FALSE}
  DeepFrees = FALSE
  NumBound = 2
  AllocBound = 9
SYMMETRY Symmetry
INVARIANTS HandBackSound QuarantineHeld NumWithinLimit Custody
PROPERTIES FollowsCycle
CHECK_DEADLOCK FALSE
