SPECIFICATION Spec
CONSTANTS
  CHUNKSIZE = 32
  Adjusted <- MCAdjusted
  HEAP_START = 32
  MaxHeap = 160
  Sizes <- MCSizes
INVARIANTS
  TypeOK
  BlocksAreDisjoint
  HeapIsTiled
  NoFreeNeighbours
  IdleHeapIsOneBlock
PROPERTY
  HeldBlocksStay
