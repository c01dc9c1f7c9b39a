SPECIFICATION Spec
CONSTANTS
  Kernels <- MCKernels
  Arrays <- MCArrays
  Code <- MCCode
  Effect <- MCEffect
  Wants <- MCWants
INVARIANTS OutputsRight InBounds Convergent
