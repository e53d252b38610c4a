\* A byte of 5 bits: window of 4 nodes, matches of 2 to 5 characters.
CONSTANTS
  PAYLOAD_BITS = 4
  COUNT_BITS = 2
  ZERO_BITS = 0
  Jobs <- CommandLines
SPECIFICATION RSpec
INVARIANTS
  TypeOK
  RecordsAddressable
PROPERTIES
  Encodes
  Succeeds
  FetchesRecords
  AgreesWithC
\* The program exits; nothing happens after that.
CHECK_DEADLOCK FALSE
