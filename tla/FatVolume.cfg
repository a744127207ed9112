SPECIFICATION Spec
CONSTANTS
  alpha = alpha
  beta = beta
  gamma = gamma
  delta = delta
  Dot = Dot
  DotDot = DotDot
  NoValue = NoValue
  SectorSizes = {4}
  SLOT = 2
  MaxSeq = 3
  Fat12Limit = 4
  Fat16Limit = 8
  EndMark = 90
  BadMark = 89
  MaxDepth = 2
  Text <- MCText
  Volumes <- MCVolumes
INVARIANTS
  LocatedJustWhenWhole
  DirectoriesComplete
PROPERTIES
  Terminates
CHECK_DEADLOCK FALSE
