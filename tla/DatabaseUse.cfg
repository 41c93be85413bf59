SPECIFICATION Spec
CONSTANTS
  Names = {n1, n2}
  Datas = {d1, d2}
  ChunkBufSize = 2
  MaxBlocks = 3
  IoFails = TRUE
INVARIANTS
  TypeOK
  SizeIsFileSize
PROPERTIES
  OnlyReplaceOverwrites
  ImplementsStore
SYMMETRY Symmetry
