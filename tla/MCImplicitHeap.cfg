CONSTANTS
  CHUNKSIZE = 16
  MaxHeap = 84
  Programs <- MCPrograms
  Junk = 22
SPECIFICATION Spec
\* The program is gone once it has crashed.
CHECK_DEADLOCK FALSE
INVARIANTS
  HeapIsConsistent
  RoverIsABlock
PROPERTIES
  ImplementsBlockHeap
  ImplementsAllocator
