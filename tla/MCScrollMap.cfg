SPECIFICATION MapSpec
CONSTANTS
  Layers = {1, 2}
  TmW = 3
  TmH = 2
  MapW = 6
  MapH = 4
  LeadX = 1
  LeadY = 1
  ViewW = 2
  ViewH = 1
  MaxCols = 1
  MaxRows = 1
  Slower <- MCSlower
  RangeX = 8
  RangeY = 5
  Areas = 4
  JumpX = 3
  JumpY = 2
  AssetBytes = 10
  BurstBytes = 32
INVARIANTS
  ViewIsRight
  BurstFits
