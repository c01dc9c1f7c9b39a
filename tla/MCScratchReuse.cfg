CONSTANTS
  Arrays <- Three
  Order <- ThreeOrder
  Type <- TwoTypes
  MaxLines = 7
SPECIFICATION Spec
INVARIANTS TypeOK NoRaceAdded ReadsOwnValue
CHECK_DEADLOCK FALSE
