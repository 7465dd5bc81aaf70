SPECIFICATION Spec
CONSTANTS
  Capacity = 2
  Word = 4
  MaxBatch = 3
  FrameIds = 3
INVARIANTS
  SlotsApart
PROPERTY
  ImplementsQueue
