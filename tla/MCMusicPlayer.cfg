SPECIFICATION Spec
CONSTANTS
  Configs <- MCConfigs
  BufferSize = 6
  ChannelSize = 7
  MaxRender = 2
INVARIANTS
  ScoreKept
PROPERTIES
  FillCapped
  IntroEnds
