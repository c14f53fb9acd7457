SPECIFICATION Spec
CONSTANTS
  a = a
  b = b
  Req = {a, b}
  NumSpec = 2
  MaxNumReqs = 2
  MaxChunk = 1
  PromptLen <- Prompts
  MaxTokens <- StrictTokens
  MaxGen = 0
  EarlyOutput = FALSE
  IdleSteps = FALSE
  ForgetRemoved = FALSE
INVARIANTS
  TypeOK
  PositionsExact
  DiscardExact
  CpuCountsExact
