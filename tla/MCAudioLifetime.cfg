SPECIFICATION Spec
CONSTANTS
  b1 = b1
  b2 = b2
  Blocks <- MCBlocks
  VMs <- MCVMs
  MaxObjects = 1
  MaxTracks = 2
  Generations = 3
PROPERTIES
  ImplementsLifetime
  FinishedVoiceReaped
