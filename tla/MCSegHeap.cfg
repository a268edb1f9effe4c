CONSTANTS
  N_SEGLIST = 3
  CHUNKSIZE = 32
  SIZE_MOD = 1024
  MaxHeap = 96
  Clients <- MCClients
  Junk = 22
SPECIFICATION Spec
\* The program is gone once it has crashed.
CHECK_DEADLOCK FALSE
INVARIANTS
  HeapIsConsistent
  ListsHoldTheFreeBlocks
PROPERTIES
  CallocZeroes
  ImplementsBlockHeap
  ImplementsAllocator
