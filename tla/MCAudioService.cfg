SPECIFICATION Spec
CONSTANTS
  TrackCount = 2
  SfxSlots = 1
  Lengths = {1, 4}
  ChannelSize = 3
  LowFill = 2
  RingSize = 2
  Quantum = 2
  Fronts = {"window", "calls", "film"}
  MaxGen = 2
  MaxLoads = 2
INVARIANTS SinkAgrees ChannelIsItsVoices WindowOwnsMusic
PROPERTY SfxEnds
