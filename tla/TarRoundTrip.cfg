SPECIFICATION RoundTripSpec
CONSTANTS
  a = a
  b = b
  long1 = long1
  long2 = long2
  Empty = Empty
  Dot = Dot
  NoValue = NoValue
  BLOCK = 2
  MaxMembers = 3
  MaxBlocks = 4
  Part <- MCPart
  Archives <- MCArchives
  Cut <- MCCut
  Writes <- MCWrites
INVARIANTS
  OverridesReachNextEntry
  EntriesApart
  LastEntryWins
  ReadsBackInOrder
CHECK_DEADLOCK FALSE
