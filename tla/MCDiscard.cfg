SPECIFICATION Spec
CONSTANTS
  Requests = {1, 2}
  NumGpuBlocks = 5
  BlockSize = 2
  PromptLen <- Prompt2
  MaxTokens <- Output2
  Group <- Single
  Policy = "fcfs"
  Rank <- RankById
  AsyncScheduling = TRUE
  MaxNumScheduledTokens = 4
  MaxNumRunningReqs = 3
  LongPrefillTokenThreshold = 0
  MaxModelLen = 6
  ReserveFullISL = TRUE
  TailBlendPreemption = FALSE
  TailBlendReservation = FALSE
  TailBlendPilotK = 0
  BatchQueueSize = 2
  Calls = {"pause"}
INVARIANTS
  TokensInOrder
