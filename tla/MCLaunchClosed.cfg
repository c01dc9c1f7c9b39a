CONSTANTS
  Callers = {c1, c2}
  Kernels = {grouped, packed, checked}
  matmul = matmul
  grouped = grouped
  mla = mla
  packed = packed
  checked = checked
  Shaders <- MCShaders
  Carries <- MCCarries
  Base <- MCBase
  Marks <- MCMarks
  Mla = {}
  Packed = {packed}
  Asserting = {checked}
  None = None
SPECIFICATION LiveSpec
INVARIANTS NoResultAfterAssertion
PROPERTIES ContractSpec CallsEnd
