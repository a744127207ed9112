SPECIFICATION MCSpec
CONSTANTS
  a = a
  b = b
  c = c
  d = d
  alpha = alpha
  beta = beta
  Dot = Dot
  DotDot = DotDot
  None = None
  Walked = Walked
  RootNode = RootNode
  Outside = Outside
  Direct = 2
  Fan = 2
  MaxGaps = 2
  MaxAbsent = 1
  MaxLevels = 2
  Top = 4
  BaseBlock = 4
  MaxLog = 1
  MinInode = 2
  MinDesc = 1
  WideDesc = 2
  MaxDepth = 2
  Names <- MCNames
  Inputs <- MCInputs
  DirBlocks <- MCDirBlocks
  Volumes <- MCVolumes
INVARIANTS
  InLogicalOrder
  ReadsUpToGaps
  LocatedDataIsTheFiles
  ReadsHealthyTrees
  AllOrNothing
  TreeIsTheVolume
CHECK_DEADLOCK FALSE
