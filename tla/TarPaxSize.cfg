SPECIFICATION RoundTripSpec
CONSTANTS
  a = a
  b = b
  long1 = long1
  long2 = long2
  Empty = Empty
  Dot = Dot
  NoValue = NoValue
  BLOCK = 2
  MaxMembers = 0
  MaxBlocks = 4
  Part <- MCPart
  Archives <- MCArchives
  Cut <- MCCut
  Writes = {}
INVARIANTS SizeOverrideApplied
CHECK_DEADLOCK FALSE
