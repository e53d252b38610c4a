\* A byte of 4 bits, with matches of up to 5 characters at offset 0.
CONSTANTS
  PAYLOAD_BITS = 3
  COUNT_BITS = 1
  ZERO_BITS = 1
  Inputs <- ShortInputs
SPECIFICATION FairSpec
INVARIANTS
  OffsetsFit
  OutputDecodes
\* The call ends; nothing happens after that.
CHECK_DEADLOCK FALSE
