SPECIFICATION Spec
CONSTANTS
  HeapStart = 8
  HeapSize = 24
  Layouts <- MCLayouts
  UsizeMax = 63
  NodeSize = 4
  NodeAlign = 2
INVARIANTS
  TypeOK
  RegionsApart
  FreeRegionsHoldNodes
  DeallocNeverPanics
  BytesAccounted
PROPERTIES
  ImplementsHeap
