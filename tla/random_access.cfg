\* A byte of 5 bits: matches of 2 to 5 characters, as shipped.
CONSTANTS
  PAYLOAD_BITS = 4
  COUNT_BITS = 2
  ZERO_BITS = 0
  MaxBytes = 4
  Limits = {0, 1, 2, 3, 4, 5, 6, 99}
  Streams <- AllStreams
SPECIFICATION ASpec
INVARIANTS
  DepthBound
PROPERTIES
  DeliversFromAnywhere
\* The call returns; nothing happens after that.
CHECK_DEADLOCK FALSE
