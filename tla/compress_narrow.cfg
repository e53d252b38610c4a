\* A byte of 5 bits: window of 4 nodes, matches of 2 to 5 characters.
CONSTANTS
  PAYLOAD_BITS = 4
  COUNT_BITS = 2
  ZERO_BITS = 0
  Inputs <- ShortInputs
SPECIFICATION FairSpec
INVARIANTS
  TypeOK
  ListTilesInput
  CopiesAreFaithful
  OffsetsFit
PROPERTIES
  Encodes
  WalkedPartIsFrozen
  Terminates
\* The call ends; nothing happens after that.
CHECK_DEADLOCK FALSE
