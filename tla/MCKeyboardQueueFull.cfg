SPECIFICATION KeyboardSpec
CONSTANTS
  Capacity = 4
  MaxTasks = 2
  NoTask = NoTask
  Scancodes = {s1}
  ScancodeCapacity = 2
  NoScancode = NoScancode
INVARIANT
  TasksFitQueue
