\* Sizes 0, 1, 2, 4: room for a string with its NUL, and for three bytes.
CONSTANTS
  GROWTH = 1
  MaxMemory = 6
  MaxLength = 4
  Strings <- ShortStrings
SPECIFICATION Spec
INVARIANT SomeCommentIsRight
