SPECIFICATION Spec
CONSTANTS
  TopSize = 16
  PageNumbers = 3
  Rec = {r1, r2, r3}
  NoRec = NoRec
  NoLayer = NoLayer
  NoChunk = NoChunk
  Memory <- MemoryOf
  Chunk <- ChunkOf
  BlockSizes = {16, 20, 40}
  Base = 192
  Granules = 5
  Starts = {0, 4, 16, 24}
  Sizes = {8, 12, 24}
PROPERTY ReleasesRange
