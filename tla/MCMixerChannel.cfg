SPECIFICATION Spec
CONSTANTS
  Unit = 2
  Capacity = 4
  Rates = {1, 2, 3}
  Trims = {0, 1}
  Cycle = 12
  Interps = {"linear", "cubic"}
  MaxFrames = 6
  MaxCalls = 3
INVARIANT WindowInStep
PROPERTIES KeepsTime Drains
CHECK_DEADLOCK FALSE
