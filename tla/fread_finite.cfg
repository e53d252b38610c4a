\* Counts below, at and above the length of the file.
CONSTANTS
  GROWTH = 8
  CHUNK = 2
  SIZE_MAX = 255
  Stored <- ShortFiles
  Counts = {1, 3, 5, 255}
  Cuts = {0, 1, 2}
  MaxErrors = 1
SPECIFICATION FairSpec
PROPERTY Returns
CHECK_DEADLOCK FALSE
