\* The format as shipped; the sizes of reads are smaller, so that the files
\* come in several pieces.
CONSTANTS
  PAYLOAD_BITS = 7
  COUNT_BITS = 2
  ZERO_BITS = 0
  UINT_MAX = 65535
  SIZE_MAX = 131071
  GROWTH = 8
  CHUNK = 16
  BLOCK = 8
  ROOM = 4
  Cuts <- Anywhere
  MaxErrors = 1
  Stored = {}
  Counts = {}
  Inputs <- Texts
SPECIFICATION RSpec
INVARIANTS
  OffsetsFit
  RoomForNul
  ReportsBytesCopied
  OnlyPrefixes
PROPERTIES
  Restores
CHECK_DEADLOCK FALSE
