SPECIFICATION Spec
CONSTANTS
  dp_size = 2
  Client = {"c1"}
  MaxCalls = 2
  MayAbort = {1}
  SyncInterval = 2
  Prompt = TRUE
  MaxPasses = 1
  MaxPauses = 1
INVARIANTS
  SameCollective
  WavesFollow
  ResumeAccepted
PROPERTIES
  CallsServed
  EnginesStop
CHECK_DEADLOCK FALSE
