SPECIFICATION Spec
CONSTANTS
  world_size = 2
  output_rank = 0
  use_async_scheduling = TRUE
  max_concurrent_batches = 2
  max_chunks = 10
  Kinds = {"execute_model", "take_draft_token_ids", "utility"}
  MaxCalls = 3
  MayRaise = {0}
  MayDie = {1}
INVARIANTS
  OwnAnswers
PROPERTIES
  CallsEnd
  EngineInformed
CHECK_DEADLOCK FALSE
