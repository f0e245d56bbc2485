SPECIFICATION FairSpec
CONSTANTS
  Requests = {1, 2, 3}
  NumGpuBlocks = 5
  BlockSize = 2
  PromptLen <- Prompts
  MaxTokens <- Outputs
  Group <- LastTwo
  External <- WholePrompt
  MaySend = {1, 3}
  KeepsLoading = FALSE
  MayAbort = {3}
  MayPutOff = {2}
  Configurations <- Policies
  MaxNumScheduledTokens = 4
  LongPrefillTokenThreshold = 0
  MaxNumRunningReqs = 2
  ReserveFullISL = TRUE
  MaxFailures = 1
INVARIANTS
  TransfersHeld
  NoWrongKV
PROPERTIES
  RequestsFinish
