CONSTANTS
  RIO_BUFSIZE = 2
  Sizes <- MCSizes
  MaxText = 4
  NULL = NULL
SPECIFICATION FairSpec
INVARIANTS
  TypeOK
  BufferIsNext
PROPERTIES
  ImplementsByteStream
  CallsReturn
