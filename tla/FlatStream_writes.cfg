\* Every buffer sequence of MCInputs.
SPECIFICATION Spec
CONSTANTS
  Limit = 3
  Inputs <- MCInputs
INVARIANTS
  WireInOrder
  MemoryBounded
  ChunkIsMaximal
  StoppedByEmptyOnly
PROPERTIES
  WrittenOrFailed
CHECK_DEADLOCK FALSE
