SPECIFICATION HybridSpec
CONSTANTS
  a = a
  b = b
  Req = {a, b}
  NumSpec = 1
  MaxNumReqs = 2
  MaxChunk = 2
  PromptLen <- Prompts
  MaxTokens <- FourTokens
  MaxGen = 0
  EarlyOutput = TRUE
  IdleSteps = FALSE
  ForgetRemoved = TRUE
  SteadyDrafts = TRUE
INVARIANTS
  StateExact
