SPECIFICATION Spec
CONSTANTS
  BlockSize = 2
  MinCascadePrefix = 2
  MinCascadeReqs = 2
  Interleave = 1
  Configs <- MCConfigs
  RowKinds <- MCRowKinds
  MaxRows = 3
  MaxCommon = 1
  ShortPrefills = FALSE
  MaxNumTokens = 10
  CaptureSizes <- MCSizes
  MaxCapture = 8
  MaxNumSeqs = 4
INVARIANTS
  TypeOK
  RecurrentExact
  AttendsOwnPast
  VerifiesOwnDrafts
  RopeExact
  WritesOwnSlots
  FastPrefillInBatch
  SplitKeepsWriters
