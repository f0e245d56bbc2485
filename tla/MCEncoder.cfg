SPECIFICATION Spec
CONSTANTS
  Requests = {1, 2, 3}
  num_tokens <- LengthsOf
  mm_features <- FeaturesOf
  PrefixHits = {1, 2}
  cache_size = 3
  max_num_encoder_input_tokens = 3
  max_num_scheduled_tokens = 4
  max_num_running_reqs = 2
  long_prefill_token_threshold = 3
  disable_chunked_mm_input = FALSE
  use_eagle = FALSE
  Policy = "fcfs"
  BatchQueueSize = 2
  MayAbort = {1, 2}
  MaxFailures = 2
  MaxResets = 1
INVARIANTS
  EncoderReady
  SlotsAccounted
  WorkerBounded
PROPERTIES
  RequestsFinish
CHECK_DEADLOCK FALSE
