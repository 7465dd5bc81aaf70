SPECIFICATION Spec
CONSTANTS
  MaxSlots = 2
  Base <- MCBase
  Ring <- MCRing
  Prime <- MCPrime
  Chunk = 2
  Commands <- MCCommands
  MaxCommands = 1
  BootSlots <- MCBoot
INVARIANTS
  SlotsAgree
  RingHoldsStream
PROPERTIES
  PlaysInOrder
