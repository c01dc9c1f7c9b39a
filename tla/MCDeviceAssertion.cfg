CONSTANTS
  Groups = {g1, g2}
  Threads = {t1, t2}
  Leader = t1
  arg = arg
  lane = lane
  Uniform = {arg}
  Lane = {lane}
  Kernels <- MCKernels
  Trips = 2
  None = None
SPECIFICATION LiveSpec
INVARIANTS TypeOK NoDivergence NoGuardedAccess ReportsLastFailure
PROPERTY LaunchEnds
CHECK_DEADLOCK FALSE
