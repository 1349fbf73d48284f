SPECIFICATION Spec
CONSTANTS
  p1 = p1
  p2 = p2
  p3 = p3
  p4 = p4
  i1 = i1
  i2 = i2
  Ptr = {p1, p2, p3}
  NoPtr = NoPtr
  Thread = {t1}
  NoThread = NoThread
  Id = {i1, i2}
  NoId = NoId
  Span <- SpanUnit
  Serves <- ServesAll
  QuarantineSize = 5
  QuarantineNum = 2
  AllocZoneN = 1
  QuarantineOn = TRUE
  HaltOnError = FALSE
  Api = {"REALLOC"}
  ReallocKinds = {"in_place", "free_api", "direct"}
  CoarseAllocs = FALSE
  ProgramErrors = {TRUE, FALSE}
  DeepFrees = TRUE
  NumBound = 3
  AllocBound = 9
SYMMETRY Symmetry
INVARIANTS LiveGuarded NoFalseDoubleFree HandBackSound NothingLost DanglingPoisoned
