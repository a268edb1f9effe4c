CONSTANTS
  MaxHeap = 56
  MallocSizes <- MCMallocs
  CallocSizes <- MCCallocs
  ReallocSizes <- MCReallocs
  UserWords <- MCWords
  Junk = 22
SPECIFICATION Spec
\* The program is gone once it has crashed.
CHECK_DEADLOCK FALSE
PROPERTIES
  ImplementsAllocator
