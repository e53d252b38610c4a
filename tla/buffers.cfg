\* Sizes 0, 1, 2, 4: every call meets a full buffer.
CONSTANTS
  GROWTH = 1
  MaxMemory = 5
  MaxLength = 4
  Strings <- ShortStrings
SPECIFICATION Spec
INVARIANTS
  TypeOK
  CallsAreSafe
  HoldsWhatWasPut
  TerminatorFollows
