CONSTANTS
  Callers = {c1, c2}
  Kernels = {matmul, mla}
  matmul = matmul
  grouped = grouped
  mla = mla
  packed = packed
  checked = checked
  Shaders <- MCShaders
  Carries <- MCCarries
  Base <- MCBase
  Marks <- MCMarks
  Mla = {mla}
  Packed = {}
  Asserting = {}
  None = None
SPECIFICATION Spec
INVARIANTS TypeOK RunsOnce OneFailureEach
PROPERTY RetiredBeforeSubmission
SYMMETRY Symmetry
