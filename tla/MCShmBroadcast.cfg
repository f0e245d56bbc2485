SPECIFICATION Spec
CONSTANTS
  n_reader = 2
  max_chunks = 2
  MaxMessages = 3
  Oversized = {2}
  Deadline = {0, 2}
  Stoppable = {1}
  MayCrash = TRUE
INVARIANTS
  ViewsIntact
  InOrder
PROPERTIES
  ImplementsQueue
  Delivered
  ShutdownStops
CHECK_DEADLOCK FALSE
