\* isize = -1, checked against what the comments say of it.
CONSTANTS
  PAYLOAD_BITS = 4
  COUNT_BITS = 2
  ZERO_BITS = 0
  MaxBytes = 2
  UINT_MAX = 63
  Streams <- AllStreams
  Modes = {"terminated"}
SPECIFICATION Spec
INVARIANTS
  StopsAtNul
CHECK_DEADLOCK FALSE
