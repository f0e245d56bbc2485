SPECIFICATION Spec
CONSTANTS
  Requests = {1, 2, 3}
  NumGpuBlocks = 5
  BlockSize = 2
  PromptLen <- Prompt4
  MaxTokens <- Output3
  Group <- Pairs
  Policy = "fcfs"
  Rank <- RankById
  AsyncScheduling = TRUE
  MaxNumScheduledTokens = 4
  MaxNumRunningReqs = 3
  LongPrefillTokenThreshold = 0
  MaxModelLen = 8
  ReserveFullISL = TRUE
  TailBlendPreemption = FALSE
  TailBlendReservation = FALSE
  TailBlendPilotK = 0
  BatchQueueSize = 2
  Calls = {"abort", "reset"}
INVARIANTS
  EngineSafe
  WriteOnce
  ReadsComputed
  TokensInOrder
PROPERTIES
  RequestsFinish
