CONSTANT NumBlocks = 4
SPECIFICATION Spec
INVARIANTS
  ChecksPass
  SomeList
PROPERTIES
  ImplementsFreeList
