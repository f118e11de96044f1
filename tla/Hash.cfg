SPECIFICATION Spec
CONSTANTS
  Size = 2
  Bytes <- EdgeBytes
  Chars <- EdgeChars
  MaxLength = 5
INVARIANTS RoundTrip ParseIsExact
CHECK_DEADLOCK FALSE
