SPECIFICATION Spec
CONSTANTS
  Modes = {"bars", "map", "fmv", "r3d"}
  Frames = 3
  Tiles = 8
  BaseB = 7
  Runs <- MCRuns
  Contested = 1
  Preroll = 2
  Chr0 = 1
  ChrN = 1
  Costs = {0, 2, 3}
  Hold = 1
  ResetModes = {"bars"}
  MaxResets = 2
INVARIANTS
  NoTornPicture
PROPERTIES
  FrontUntouched
  ShownInOrder
  FramesKeepComing
