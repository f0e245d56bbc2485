SPECIFICATION Spec
CONSTANTS
  Requests = {1, 2, 3, 4}
  NumGpuBlocks = 5
  BlockSize = 2
  PromptLen <- Prompt4
  MaxTokens <- Output2
  Group <- Pairs
  Policy = "priority"
  Rank <- RankById
  AsyncScheduling = TRUE
  MaxNumScheduledTokens = 4
  MaxNumRunningReqs = 3
  LongPrefillTokenThreshold = 2
  MaxModelLen = 8
  ReserveFullISL = TRUE
  TailBlendPreemption = TRUE
  TailBlendReservation = TRUE
  TailBlendPilotK = 1
  BatchQueueSize = 2
  Calls = {}
PROPERTY RequestsFinish
INVARIANTS
  EngineSafe
  EachTriedOnce
