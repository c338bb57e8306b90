SPECIFICATION Spec
CONSTANTS
  Top = 6
  Arrays <- MCArrays
  Addresses <- MCAddresses
INVARIANTS TypeOK SearchIsCorrect
PROPERTIES SearchEnds
CHECK_DEADLOCK FALSE
