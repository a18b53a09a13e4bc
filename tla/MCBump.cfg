SPECIFICATION Spec
CONSTANTS
  HeapStart = 8
  HeapSize = 10
  Layouts <- MCLayouts
  UsizeMax <- MCUsizeMax
INVARIANTS
  NextIsUnused
  EmptyHeapIsReset
  MaskRoundsUp
PROPERTIES
  ImplementsHeap
