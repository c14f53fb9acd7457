SPECIFICATION HybridSpec
CONSTANTS
  a = a
  b = b
  Req = {a}
  NumSpec = 1
  MaxNumReqs = 2
  MaxChunk = 2
  PromptLen <- OnePrompt
  MaxTokens <- SixTokens
  MaxGen = 0
  EarlyOutput = TRUE
  IdleSteps = FALSE
  ForgetRemoved = TRUE
  SteadyDrafts = FALSE
INVARIANTS
  StateExact
