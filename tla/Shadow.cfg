SPECIFICATION Spec
CONSTANTS
  Word = 65536
  MinRZLog = 0
  MaxRZLog = 7
  NoChunk = NoChunk
  Granules = 10
  Starts = {4, 12, 44}
  Requests <- RequestsOf
  ZeroBytes = 8
INVARIANTS TypeOK ChecksPass Attributed LiveAccessible RedzoneKept FreedKept
