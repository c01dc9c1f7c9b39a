CONSTANTS
  Threads = {t1, t2}
  Buffers = {b1, b2, b3}
  Lists <- MCLists
  Scalars <- MCScalars
  Cap <- MCCap
  None = None
  Cells <- MCCells
  Top = 3
  Launches <- MCLaunches
  Page = 2
  Limit = 3
  MaxLaunches = 3
SPECIFICATION HostSpec
SYMMETRY Symmetry
INVARIANTS TypeOK PreservesPointers Exclusive Bounded
PROPERTY FailureWithholds
CHECK_DEADLOCK FALSE
