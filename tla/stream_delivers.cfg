\* A byte of 5 bits: matches of 2 to 5 characters, as shipped.
CONSTANTS
  PAYLOAD_BITS = 4
  COUNT_BITS = 2
  ZERO_BITS = 0
  MaxBytes = 4
  UINT_MAX = 63
  Streams <- AllStreams
  Modes = {"sized", "terminated"}
SPECIFICATION FairSpec
INVARIANTS
  TypeOK
  DepthBound
  StaysInInput
PROPERTIES
  CalleeCompletes
  DeliversText
\* The call returns; nothing happens after that.
CHECK_DEADLOCK FALSE
