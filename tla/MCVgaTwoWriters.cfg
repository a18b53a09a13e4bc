CONSTANTS
  BUFFER_HEIGHT = 3
  BUFFER_WIDTH = 2
  Writers = {"lib", "bin"}
  Bytes <- MCBytes
  Strings <- MCStrings
  MaxText = 4
SPECIFICATION Spec
INVARIANT ColumnIsPosition
CHECK_DEADLOCK FALSE
