CONSTANTS
  p1 = p1
  c1 = c1
  c2 = c2
  Procs = {p1}
  Callers = {c1, c2}
  Proc <- Together
  Sources = {f}
  Policies = {A, B}
  MaxNoise = 1
  None = None
  Garbage = Garbage
SPECIFICATION Spec
INVARIANTS TypeOK CertifiesEmission LaunchesOwnCode
PROPERTY GuardedRecompiles
SYMMETRY Symmetry
