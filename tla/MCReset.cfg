SPECIFICATION Spec
CONSTANTS
  Requests = {1, 2}
  NumGpuBlocks = 5
  BlockSize = 2
  PromptLen <- Prompt4
  MaxTokens <- Output3
  Group <- Pairs
  Policy = "fcfs"
  Rank <- RankById
  AsyncScheduling = FALSE
  MaxNumScheduledTokens = 4
  MaxNumRunningReqs = 3
  LongPrefillTokenThreshold = 0
  MaxModelLen = 8
  ReserveFullISL = FALSE
  TailBlendPreemption = FALSE
  TailBlendReservation = FALSE
  TailBlendPilotK = 0
  BatchQueueSize = 1
  Calls = {"abort", "reset", "reset_running", "pause"}
INVARIANTS
  BlocksAccounted
  CacheConsistent
  InOneQueue
  StepAccounted
  OnlyRunningHold
PROPERTIES
  NoOvertaking
  ImplementsKVBlocks
  PauseCompletes
