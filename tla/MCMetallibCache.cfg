CONSTANTS
  Callers = {c1, c2}
  Sources = {s1}
  Builds = {b1}
  Contracts = {t1, t2}
  Variants = {v1, v2}
  Attempts = 2
  MaxNoise = 1
  None = None
  Refused = Refused
  Empty = Empty
  Garbage = Garbage
SPECIFICATION LiveSpec
INVARIANTS TypeOK CertifiesOwnOutput ToolFailureIsLoud
PROPERTIES StoreSpec CallsEnd
