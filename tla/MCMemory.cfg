CONSTANTS
  MemoryMaps <- MCMemoryMaps
  BootTables <- MCBootTables
  Levels = 3
  Entries = 2
  PageSize = 2
  HEAP_START = 6
  HEAP_SIZE = 6
  Cr3 = 0
  Frames <- MCFrames
  Pages <- MCPages
  VgaFrame = 4
  ExamplePage = 0
  NoFrame = NoFrame
  NotPresent = NotPresent
  HugeFrame = HugeFrame
SPECIFICATION Spec
INVARIANTS AddsNoSecondUse HeapIsMapped InitHeapTakesWhatItNeeds
PROPERTY ImplementsAddressSpace
CHECK_DEADLOCK FALSE
