SPECIFICATION Spec
CONSTANTS
  Callers = {c1, c2}
  Envs <- SomeEnvs
  ImageLists = {i1, i2}
  Selections = {s1, s2}
  Override = "p3"
  MaxNoise = 2
  None = None
INVARIANTS
  TypeOK
  NativeInForce
  SettingsInForce
  DigestMatchesGuard
SYMMETRY Symmetry
