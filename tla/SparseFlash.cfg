SPECIFICATION Spec
CONSTANTS
  MAX_UINT32 = 15
  BlockSize = 4
  LastBlock = 3
  WriteUnitSize = 8
  Headers <- SomeHeaders
  Chunks <- SomeChunks
  Sizes <- SomeSizes
  Bases <- SomeBases
CHECK_DEADLOCK FALSE
INVARIANTS
  StaysInside
  WrittenAsDescribed
  RefusedForCause
