SPECIFICATION AskSpec
CONSTANTS
  One = 4096
  QOne = 4096
  Root = 64
  Eps = 1
  MaxContacts = 4
  MaxNormals = 3
  MaxPlanes = 8
  WordBits = 8
  MaskMaxW = 8
  TileSide = 2
  Tile = 2
  SubPixel = 4
  ZFar = 7
  Planes = 2
  DynSlots = 2
  Orders = {"topleft", "topright", "bottomleft", "bottomright"}
  MaskPlaces <- MCMaskPlaces
  MapSizes <- MCMapSizes
  Corners <- MCCorners
  BoxPlaces <- MCBoxPlaces
  TurnsA <- MCTurnsA
  TurnsB <- MCTurnsB
  Speeds <- MCSpeeds
  MaxTurns = 24
  WorldPlaces <- MCWorldPlaces
  Drifts <- MCDrifts
  MaxTicks = 8
  AccOne = 65536
  Smoothing = 1
  SmoothOne = 4
  MaxAcc = 3000
  TickRate = 8
  FrameRate = 5
  PhaseOne = 4096
  SetBits = 6
  SetWord = 4
  SetHalves <- MCHalves
  Samples <- MCSamples
  Bytes <- MCBytes
  Gains <- MCGains
  Pans <- MCPans
  Taps <- MCTaps
  Fractions = {0, 1, 20000, 32768, 65535}
  Beats = {1000}
  Errors <- MCErrors
  MaxBeats = 40
  Rates <- MCRates
  Holes = 2
  Gain <- MCGain
  MaxFrames = 5
  Hands <- MCHands
  Frames <- MCFrames
  Heard = {0, 60, 255}
  Loudness = 12000
  Window = 16
  BandCount = 4
  SpanOctaves = 180224
  Stages <- MCStages
  BlockSize = 2
  ObjectSlots = 3
  SlotGens = 7
  Abi = 1
  Region = 6
  Reserve = 2
  HeaderSize = 2
  RunByte = 5
  TxSize = 8
  LineMax = 5
  MaxArgs = 2
  ArenaSize = 20
  MaxCalls = 5
  Sizes = {3, 5}
  Typed <- MCTyped
  MaxKeys = 4
  Keys = {"a", "b", " ", "erase", "kill", "enter"}
  Lengths = {1, 3, 4, 5, 24, 25, 28}
INVARIANTS
  CopiesAgree
  FrameShowsPicture
  CollisionRight
  ShapesKept
  SoundIsFaithful
  FilesReadBack
  PoolKeepsBytes
  ToolsCarry
  OverlayShows
CHECK_DEADLOCK FALSE
