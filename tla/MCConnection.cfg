CONSTANTS
  RequestLines <- MCRequestLines
  Headers <- MCHeaders
  Chars <- MCChars
  MaxHeaders = 3
  MaxRequest = 10
  NULL = NULL
  Fds <- MCFds
  MaxAddrs = 3
SPECIFICATION MCSpec
\* A request is read once; a client that waits for more is not answered.
CHECK_DEADLOCK FALSE
INVARIANTS
  RequestIsRewritten
  DestinationIsNamed
  NothingLeaks
  FirstThatWorks
PROPERTIES
  CallsEnd
