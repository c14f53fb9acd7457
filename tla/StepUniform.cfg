SPECIFICATION Spec
CONSTANTS
  BlockSize = 2
  MinCascadePrefix = 2
  MinCascadeReqs = 2
  Interleave = 1
  Configs <- MCSpecOnly
  RowKinds <- MCRowKinds
  MaxRows = 3
  MaxCommon = 1
  ShortPrefills = TRUE
  MaxNumTokens = 10
  CaptureSizes <- MCSizes
  MaxCapture = 8
  MaxNumSeqs = 4
INVARIANTS
  UniformBatchSupported
