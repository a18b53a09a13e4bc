SPECIFICATION KeyboardFairSpec
CONSTANTS
  Capacity = 4
  MaxTasks = 2
  NoTask = NoTask
  Scancodes = {s1, s2}
  ScancodeCapacity = 2
  NoScancode = NoScancode
INVARIANTS
  KeyboardTypeOK
  NoStrandedScancode
  SuspendedIsArmed
  KernelHandlerNeverFrees
PROPERTIES
  ScancodeIsYielded
  ExampleTaskFinishes
  KernelComesToRest
