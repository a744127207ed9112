SPECIFICATION Spec
CONSTANTS
  Slash = Slash
  None = None
  CallDepth = 3
  VdStart = 1
  RockRidgeSectors = 1
  Period = 1
  Version = 2
  VrsSectors = 3
  AnchorAt = 24
  CompactFrom = 4
  FsdWindow = 1
  TypeUnit = 50
  SectorSizeLow = 4
  SectorSizeHigh = 8
  MaxRecordSize = 16
  RecordGuard = 6
  SystemRecordCount = 3
  RootRecord = 1
  NtfsDepth = 2
  SignatureSize = 2
  FixupSize = 4
  FlagsEnd = 8
  OemAt = 1
  OemSize = 1
  SquashDepth = 2
  SquashMagicSize = 1
  DiskSector = 2
  Word = 32
  EntryBytes = 2
  MaxArray = 20
  Protective = 238
  Plain = {10, 11}
  Underscore = 3
  Dash = 4
  PartitionName = PartitionName
  FooterSize = 4
  DynamicSize = 8
  MagicSize = 1
  NxMagicAt = 1
  NxBlockSize = 3
  WimHeader = 4
  VmdkHeader = 4
  QcowHeader = 4
  MinBits = 1
  MaxBits = 3
  MaxXml = 4
  MaxImages = 3
  MaxOids = 2
  MinBlock = 2
  MaxBlock = 4
  NameInVolume = 2
  Images <- MCImages
INVARIANTS
  IsoTreeIsTheDisc
  AnyHealthyFileSystemIsFound
  UdfTreeIsTheVolume
  OnlyDeepDiscsAbort
  NtfsTreeIsTheNameSpace
  NtfsRangesAreTheFiles
  SquashTreeIsTheImage
  PartitionsResolve
  ContainersHoldTheirDisks
  DirectorySizesAreTotals
CHECK_DEADLOCK FALSE
