CONSTANTS
  Threads = {t1}
  Buffers = {b1, b2, b3, b4}
  Lists <- MCLists
  Scalars <- MCScalars
  Cap <- MCCap
  None = None
  Cells <- MCCells
  Top = 3
  Launches <- OverlapLaunches
  Page = 2
  Limit = 3
  MaxLaunches = 1
SPECIFICATION HostSpec
SYMMETRY Symmetry
INVARIANT PreservesPointers
CHECK_DEADLOCK FALSE
