SPECIFICATION Spec
CONSTANTS
  HeapStart = 8
  HeapSize = 24
  Layouts <- MCAdjustable
  UsizeMax = 63
  NodeSize = 4
  NodeAlign = 2
INVARIANT
  ExcessHoldsNode
