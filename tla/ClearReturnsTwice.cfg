SPECIFICATION Spec
CONSTANTS
  p1 = p1
  p2 = p2
  p3 = p3
  p4 = p4
  i1 = i1
  i2 = i2
  Ptr = {p1, p2, p3}
  NoPtr = NoPtr
  Thread = {t1}
  NoThread = NoThread
  Id = {i1}
  NoId = NoId
  Span <- SpanUnit
  Serves <- ServesAll
  QuarantineSize = 5
  QuarantineNum = 1
  AllocZoneN = 4
  QuarantineOn = TRUE
  HaltOnError = TRUE
  Api = {"CLEAR"}
  ReallocKinds = {}
  CoarseAllocs = FALSE
  ProgramErrors = {FALSE}
  DeepFrees = FALSE
  NumBound = 3
  AllocBound = 4
INVARIANT HandBackSound
