SPECIFICATION RoundTripSpec
CONSTANTS
  a = a
  b = b
  aSlash = aSlash
  Empty = Empty
  NoValue = NoValue
  LFH_SIZE = 2
  CDR_SIZE = 2
  EOCD_MIN_SIZE = 5
  SIG_SIZE = 2
  EOCD64_LOCATOR_SIZE = 1
  EOCD64_SIZE = 2
  W16 = 4
  W32 = 64
  Spelled <- MCSpelled
  MaxMembers = 3
  Backslashed = {aSlash}
  Part <- MCPart
  NameBytes <- MCNameBytes
  Cut <- MCCut
  Writes <- MCWrites
  Archives <- MCArchives
INVARIANTS
  CommentsAreSkipped
  LocatedIsPlain
  LastFileWins
  ReadsBackInOrder
  CutIsRefused
CHECK_DEADLOCK FALSE
