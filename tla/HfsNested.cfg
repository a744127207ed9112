SPECIFICATION Spec
CONSTANTS
  a = 1
  b = 2
  c = 3
  Root = 2
  NoParent = 0
  NoValue = NoValue
  MaxExtents = 2
  MinNode = 4
  W32 = 16
  Cnid <- MCCnid
  Name <- MCName
  Volumes <- MCVolumes
  PathGuard = 3
INVARIANT OnlyRootRemains
CHECK_DEADLOCK FALSE
