SPECIFICATION Spec
CONSTANTS
  Requests = {1, 2}
  NumGpuBlocks = 8
  BlockSize = 2
  PromptLen <- PromptShortLong
  MaxTokens <- Output2
  Group <- Single
  Policy = "priority"
  Rank <- RankById
  AsyncScheduling = FALSE
  MaxNumScheduledTokens = 6
  MaxNumRunningReqs = 3
  LongPrefillTokenThreshold = 4
  MaxModelLen = 14
  ReserveFullISL = TRUE
  TailBlendPreemption = FALSE
  TailBlendReservation = FALSE
  TailBlendPilotK = 0
  BatchQueueSize = 1
  Calls = {}
INVARIANTS
  ReadsComputed
