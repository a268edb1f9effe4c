CONSTANTS
  Conns = {c1, c2}
  text = text
  large = large
  silent = silent
  Origins <- MCOrigins
  HostOf <- MCHostOf
  Content <- MCContent
  Silent <- MCSilent
  Fds = {4, 5, 6}
  MAX_OBJECT_SIZE = 3
  MAX_CACHE_SIZE = 3
  NULL = NULL
SPECIFICATION FairSpec
\* The clients have been served, or the process has ended.
CHECK_DEADLOCK FALSE
INVARIANTS
  TypeOK
  DescriptorsAreOwned
  DescriptorsAreAccounted
  ClientGetsOneAnswer
  CachedIsOneFetch
PROPERTIES
  EveryClientIsServed
