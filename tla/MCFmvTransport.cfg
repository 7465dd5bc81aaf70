SPECIFICATION Spec
CONSTANTS
  Frames = 2
  Lead = 2
  Depth = 4
  Bands = 2
  Preroll = 1
  Rates <- MCRates
  Jump = 1
  MaxSeeks = 2
  MaxDecoded = 5
INVARIANTS
  FifoHolds
  WholeFrames
PROPERTIES
  NoFrameTwice
  FilmPlaysOn
