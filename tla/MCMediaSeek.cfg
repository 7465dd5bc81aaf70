SPECIFICATION Spec
CONSTANTS
  MaxSlots = 1
  Base <- MCBase
  Ring <- MCRing
  Prime <- MCPrime
  Chunk = 2
  Commands <- MCSeekCommands
  MaxCommands = 1
  BootSlots = {}
PROPERTIES
  StreamPrimes
