\* The format as shipped, and the empty input.
CONSTANTS
  PAYLOAD_BITS = 7
  COUNT_BITS = 2
  ZERO_BITS = 0
  Inputs <- Empty
SPECIFICATION Spec
INVARIANTS
  StaysInArray
CHECK_DEADLOCK FALSE
