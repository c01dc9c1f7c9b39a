SPECIFICATION Spec
CONSTANTS
  Kernels <- MCSwapped
  Arrays <- MCArrays
  Code <- MCCode
  Effect <- MCEffect
  Wants <- MCWants
INVARIANTS OutputsRight
