SPECIFICATION Spec
CONSTANTS
  a = a
  b = b
  Req = {a, b}
  NumSpec = 1
  MaxNumReqs = 2
  MaxChunk = 1
  PromptLen <- LongPrompt
  MaxTokens <- EarlyTokens
  MaxGen = 1
  EarlyOutput = TRUE
  IdleSteps = TRUE
  ForgetRemoved = TRUE
INVARIANTS
  PositionsExact
  FeedsOwnToken
PROPERTIES
  StreamSpec
