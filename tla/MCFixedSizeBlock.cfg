SPECIFICATION Spec
CONSTANTS
  HeapStart = 8
  HeapSize = 12
  Layouts <- MCLayouts
  BLOCK_SIZES <- MCBlockSizes
  NodeSize = 2
INVARIANTS
  TypeOK
  OneOwner
  FootprintIsPeak
PROPERTIES
  BlocksKeepTheirSize
  ImplementsHeap
