SPECIFICATION Spec
CONSTANTS
  Names = {n1, n2}
  Datas = {d1}
  ChunkBufSize = 2
  MaxBlocks = 4
  IoFails = FALSE
PROPERTIES
  OffsetNamesBlock
