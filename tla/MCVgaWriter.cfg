CONSTANTS
  BUFFER_HEIGHT = 3
  BUFFER_WIDTH = 2
  Writers = {"lib"}
  Bytes <- MCBytes
  Strings <- MCStrings
  MaxText = 9
SPECIFICATION Spec
INVARIANT ScreenShowsText
CHECK_DEADLOCK FALSE
