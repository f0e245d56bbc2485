SPECIFICATION Spec
CONSTANTS
  Requests = {1, 2}
  NumGpuBlocks = 5
  BlockSize = 2
  PromptLen <- Prompts
  MaxTokens <- Outputs
  Group <- LastTwo
  External <- WholePrompt
  MaySend = {1}
  KeepsLoading = TRUE
  MayAbort = {1}
  MayPutOff = {}
  Configurations <- AllAsync
  MaxNumScheduledTokens = 4
  LongPrefillTokenThreshold = 0
  MaxNumRunningReqs = 2
  ReserveFullISL = TRUE
  MaxFailures = 0
INVARIANTS
  TransfersHeld
