SPECIFICATION Spec
CONSTANTS
  CaptureSizes <- SizesWithGap
  MaxCapture = 10
  QueryLen = 2
  MaxNumSeqs = 4
  MaxLoras = 4
  SpecializeGraphs = TRUE
  SpecializeCount = TRUE
  MaxTokens = 11
INVARIANTS
  NoAssertionFails
  FitsItsGraph
  FittingBatchIsGraphed
  ReplaysCurrentGraph
