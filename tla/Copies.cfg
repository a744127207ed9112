SPECIFICATION MCSpec
CONSTANTS
  Chunk = 3
  ImageSize = 9
  OldByte = OldByte
  NoValue = NoValue
  n0 = n0
  n1 = n1
  n2 = n2
  n3 = n3
  n4 = n4
  n5 = n5
  Unusable = {}
  Nodes <- MCNodes
  Trees <- MCTrees
  Hosts <- MCHosts
  OutDir <- MCOutDir
  Part <- MCPart
INVARIANTS
  ReadsOnlyRange
  FilesIntact
  OnlyNamedEntries
  OkMirrorsTree
PROPERTIES
  ImplementsStream
  Confined
CHECK_DEADLOCK FALSE
