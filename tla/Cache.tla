-------------------------------- MODULE Cache --------------------------------
(***************************************************************************)
(* proxylab-handout/cache.c as the threads of the proxy use it: one thread *)
(* per connection looks its object up, and on a miss fetches it and adds   *)
(* it.  Steps are as fine as the semaphores require: each P, each V, and   *)
(* each access to shared state in between is a step of its own.            *)
(*                                                                         *)
(* A block is named by the thread that allocated it.  Its URN and Host are *)
(* one key, its content is its name: what a reader copied tells whose      *)
(* content it got.  P never fails, and malloc always finds memory.         *)
(***************************************************************************)
EXTENDS Integers, Sequences, FiniteSets, SequencesExt

CONSTANTS
  Threads,    \* one thread per connection
  Keys,       \* the objects clients ask for
  Sizes,      \* sizes of the objects that are small enough to be cached
  MaxSize,    \* max_size of the cache
  INT_MAX,    \* largest int
  MaxClock,   \* bound: time(NULL) stops there
  NULL

ASSUME ThreadsAssumption == IsFiniteSet(Threads) /\ NULL \notin Threads
\* NULL is no block and no answer.
ASSUME NullAssumption ==
  /\ NULL \notin [key : Keys, size : Sizes, timestamp : 0 .. MaxClock, mutex : {0, 1}]
  /\ NULL \notin [key : Keys, value : Threads \cup {NULL}]
\* The proxy adds objects below MAX_OBJECT_SIZE, which is below MAX_CACHE_SIZE.
ASSUME SizesAssumption   == MaxSize \in Nat /\ Sizes \subseteq 0 .. MaxSize
ASSUME ClockAssumption   == INT_MAX \in Nat /\ MaxClock \in 0 .. INT_MAX

VARIABLES
  mutex, w,   \* the two semaphores of the cache
  readers,    \* how many readers hold w together
  available,  \* available_size
  list,       \* the blocks, from root->next on
  block,      \* block -> [key, size, timestamp, mutex], NULL before malloc
  clock,      \* time(NULL), in seconds
  pc,         \* where each thread is
  key, size,  \* what each thread asks for, and the size of what it fetched
  ptr, got,   \* read_from_cache's ptr and response, by thread
  crashed     \* NULL was dereferenced: the process is gone

cache == <<mutex, w, readers, available, list, block>>
local == <<key, size, ptr, got>>
vars  == <<mutex, w, readers, available, list, block, clock, pc, key, size, ptr, got, crashed>>

Goto(t, there) == pc' = [pc EXCEPT ![t] = there]

-----------------------------------------------------------------------------
\* The element for a key that is nearest to the root.
find_elem(k) ==
  LET hits == {i \in DOMAIN list : block[list[i]].key = k}
  IN  IF hits = {} THEN NULL ELSE list[Min(hits)]

\* The scan keeps a block whose timestamp is greater than the one kept so far,
\* from INT_MAX on: it ends with the first of those with the greatest
\* timestamp above INT_MAX.
find_least_recent_used ==
  LET stamp(i) == block[list[i]].timestamp
      kept     == {i \in DOMAIN list : stamp(i) > INT_MAX}
      greatest == {i \in kept : \A j \in kept : stamp(j) <= stamp(i)}
  IN  IF kept = {} THEN NULL ELSE list[Min(greatest)]

\* Init: initialize_cache, and each thread at the head of get_content.
Init ==
  /\ mutex = 1 /\ w = 1 /\ readers = 0
  /\ available = MaxSize
  /\ list = <<>>
  /\ block = [b \in Threads |-> NULL]
  /\ clock = 0
  /\ pc = [t \in Threads |-> "start"]
  /\ key \in [Threads -> Keys]
  /\ size = [t \in Threads |-> 0]
  /\ ptr = [t \in Threads |-> NULL]
  /\ got = [t \in Threads |-> NULL]
  /\ crashed = FALSE

Tick ==
  /\ clock < MaxClock
  /\ clock' = clock + 1
  /\ UNCHANGED <<cache, local, pc, crashed>>

-----------------------------------------------------------------------------
\* read_from_cache.  P(&cache->mutex) on entry, and again on the way out.
ReadLock(t) ==
  /\ pc[t] \in {"start", "copied"}
  /\ mutex = 1
  /\ mutex' = 0
  /\ Goto(t, IF pc[t] = "start" THEN "count" ELSE "uncount")
  /\ UNCHANGED <<w, readers, available, list, block, clock, local, crashed>>

\* Variant: every reader but the first skips the wait for the writer.
CountFromZero(t) ==
  /\ pc[t] = "count"
  /\ readers' = readers + 1
  /\ Goto(t, IF readers' = 2 THEN "close" ELSE "enter")
  /\ UNCHANGED <<mutex, w, available, list, block, clock, local, crashed>>

\* readers++; the first reader goes on to P(&cache->w).
Count(t) ==
  /\ pc[t] = "count"
  /\ readers' = readers + 1
  /\ Goto(t, IF readers' = 1 THEN "close" ELSE "enter")
  /\ UNCHANGED <<mutex, w, available, list, block, clock, local, crashed>>

CloseToWriters(t) ==
  /\ pc[t] = "close"
  /\ w = 1
  /\ w' = 0
  /\ Goto(t, "enter")
  /\ UNCHANGED <<mutex, readers, available, list, block, clock, local, crashed>>

Enter(t) ==
  /\ pc[t] = "enter"
  /\ mutex' = 1
  /\ Goto(t, "find")
  /\ UNCHANGED <<w, readers, available, list, block, clock, local, crashed>>

Find(t) ==
  /\ pc[t] = "find"
  /\ ptr' = [ptr EXCEPT ![t] = find_elem(key[t])]
  /\ Goto(t, IF ptr'[t] = NULL THEN "copied" ELSE "copy")
  /\ UNCHANGED <<cache, clock, key, size, got, crashed>>

Copy(t) ==
  /\ pc[t] = "copy"
  /\ got' = [got EXCEPT ![t] = ptr[t]]
  /\ Goto(t, "refresh")
  /\ UNCHANGED <<cache, clock, key, size, ptr, crashed>>

\* refresh: P on the block's own mutex, then the timestamp, then V.
RefreshLock(t) ==
  /\ pc[t] = "refresh"
  /\ block[ptr[t]].mutex = 1
  /\ block' = [block EXCEPT ![ptr[t]].mutex = 0]
  /\ Goto(t, "stamp")
  /\ UNCHANGED <<mutex, w, readers, available, list, clock, local, crashed>>

\* Variant: the block's mutex is not given back.
StampKeepsMutex(t) ==
  /\ pc[t] = "stamp"
  /\ block' = [block EXCEPT ![ptr[t]].timestamp = clock]
  /\ Goto(t, "copied")
  /\ UNCHANGED <<mutex, w, readers, available, list, clock, local, crashed>>

Stamp(t) ==
  /\ pc[t] = "stamp"
  /\ block' = [block EXCEPT ![ptr[t]].timestamp = clock, ![ptr[t]].mutex = 1]
  /\ Goto(t, "copied")
  /\ UNCHANGED <<mutex, w, readers, available, list, clock, local, crashed>>

\* Variant: the last reader is mistaken for the one before it.
UncountOffByOne(t) ==
  /\ pc[t] = "uncount"
  /\ readers' = readers - 1
  /\ Goto(t, IF readers' <= 1 THEN "open" ELSE "leave")
  /\ UNCHANGED <<mutex, w, available, list, block, clock, local, crashed>>

\* readers--; the last reader goes on to V(&cache->w).
Uncount(t) ==
  /\ pc[t] = "uncount"
  /\ readers' = readers - 1
  /\ Goto(t, IF readers' = 0 THEN "open" ELSE "leave")
  /\ UNCHANGED <<mutex, w, available, list, block, clock, local, crashed>>

OpenToWriters(t) ==
  /\ pc[t] = "open"
  /\ w' = 1
  /\ Goto(t, "leave")
  /\ UNCHANGED <<mutex, readers, available, list, block, clock, local, crashed>>

\* The last V; a hit ends get_content, which frees its copy.
Leave(t) ==
  /\ pc[t] = "leave"
  /\ mutex' = 1
  /\ Goto(t, IF got[t] = NULL THEN "fetch" ELSE "done")
  /\ UNCHANGED <<w, readers, available, list, block, clock, local, crashed>>

-----------------------------------------------------------------------------
\* The origin server (external) answers, or fails, or sends too large an
\* object for get_content to cache.
Fetch(t) ==
  /\ pc[t] = "fetch"
  /\ \/ Goto(t, "done") /\ UNCHANGED size
     \/ \E n \in Sizes : size' = [size EXCEPT ![t] = n] /\ Goto(t, "write")
  /\ UNCHANGED <<cache, clock, key, ptr, got, crashed>>

\* Variant: a writer does not wait for the readers that are inside.
WriteLockIgnoresReaders(t) ==
  /\ pc[t] = "write"
  /\ w = 1 \/ readers > 0
  /\ w' = 0
  /\ Goto(t, IF size[t] > MaxSize THEN "done" ELSE "room")
  /\ UNCHANGED <<mutex, readers, available, list, block, clock, local, crashed>>

\* write_to_cache.  An object larger than the cache returns with w held.
WriteLock(t) ==
  /\ pc[t] = "write"
  /\ w = 1
  /\ w' = 0
  /\ Goto(t, IF size[t] > MaxSize THEN "done" ELSE "room")
  /\ UNCHANGED <<mutex, readers, available, list, block, clock, local, crashed>>

\* One round of the eviction loop: unlink, count and free the block found;
\* delete_elem dereferences NULL when there is none.
Evict(t) ==
  /\ pc[t] = "room"
  /\ size[t] > available
  /\ IF find_least_recent_used = NULL
     THEN crashed' = TRUE /\ UNCHANGED <<list, available, block>>
     ELSE /\ list' = Remove(list, find_least_recent_used)
          /\ available' = available + block[find_least_recent_used].size
          /\ block' = [block EXCEPT ![find_least_recent_used] = NULL]
          /\ UNCHANGED crashed
  /\ UNCHANGED <<mutex, w, readers, clock, pc, local>>

\* Variant: the space the new block takes is not subtracted.
AddUncounted(t) ==
  /\ pc[t] = "room"
  /\ size[t] <= available
  /\ block' = [block EXCEPT ![t] =
       [key |-> key[t], size |-> size[t], timestamp |-> clock, mutex |-> 1]]
  /\ list' = <<t>> \o list
  /\ Goto(t, "unlock")
  /\ UNCHANGED <<mutex, w, readers, available, clock, local, crashed>>

\* Variant: a new block goes behind the old ones, which keep being found.
AddLast(t) ==
  /\ pc[t] = "room"
  /\ size[t] <= available
  /\ block' = [block EXCEPT ![t] =
       [key |-> key[t], size |-> size[t], timestamp |-> clock, mutex |-> 1]]
  /\ list' = list \o <<t>>
  /\ Goto(t, "account")
  /\ UNCHANGED <<mutex, w, readers, available, clock, local, crashed>>

\* initialize_cache_block on a block no other thread knows, then add_elem.
Add(t) ==
  /\ pc[t] = "room"
  /\ size[t] <= available
  /\ block' = [block EXCEPT ![t] =
       [key |-> key[t], size |-> size[t], timestamp |-> clock, mutex |-> 1]]
  /\ list' = <<t>> \o list
  /\ Goto(t, "account")
  /\ UNCHANGED <<mutex, w, readers, available, clock, local, crashed>>

\* Variant: one byte more than the test allowed for is taken.
AccountTerminator(t) ==
  /\ pc[t] = "account"
  /\ available' = available - size[t] - 1
  /\ Goto(t, "unlock")
  /\ UNCHANGED <<mutex, w, readers, list, block, clock, local, crashed>>

Account(t) ==
  /\ pc[t] = "account"
  /\ available' = available - size[t]
  /\ Goto(t, "unlock")
  /\ UNCHANGED <<mutex, w, readers, list, block, clock, local, crashed>>

WriteUnlock(t) ==
  /\ pc[t] = "unlock"
  /\ w' = 1
  /\ Goto(t, "done")
  /\ UNCHANGED <<mutex, readers, available, list, block, clock, local, crashed>>

-----------------------------------------------------------------------------
read_from_cache(t) ==
  \/ ReadLock(t) \/ Count(t) \/ CloseToWriters(t) \/ Enter(t)
  \/ Find(t) \/ Copy(t) \/ RefreshLock(t) \/ Stamp(t)
  \/ Uncount(t) \/ OpenToWriters(t) \/ Leave(t)

write_to_cache(t) ==
  WriteLock(t) \/ Evict(t) \/ Add(t) \/ Account(t) \/ WriteUnlock(t)

Thread(t) == ~crashed /\ (read_from_cache(t) \/ Fetch(t) \/ write_to_cache(t))

Next == (\E t \in Threads : Thread(t)) \/ (~crashed /\ Tick)

Spec == Init /\ [][Next]_vars

\* The scheduler runs every thread that can run.
FairSpec == Spec /\ \A t \in Threads : WF_vars(Thread(t))

-----------------------------------------------------------------------------
At(S)   == {t \in Threads : pc[t] \in S}
Reading == At({"find", "copy", "refresh", "stamp", "copied"})
Writing == At({"room", "account", "unlock"})
\* Threads between readers++ and readers--, and those inside P..V of mutex.
Counted == Reading \cup At({"close", "enter", "uncount"})
Inside  == At({"count", "close", "enter", "uncount", "open", "leave"})

Places == {"start", "count", "close", "enter", "find", "copy", "refresh", "stamp", "copied",
           "uncount", "open", "leave", "fetch", "write", "room", "account", "unlock", "done"}

TypeOK ==
  /\ mutex \in {0, 1} /\ w \in {0, 1} /\ readers \in Nat
  /\ available \in 0 .. MaxSize
  /\ list \in Seq(Threads)
  /\ \A b \in Threads : block[b] = NULL \/
       block[b] \in [key : Keys, size : Sizes, timestamp : 0 .. MaxClock, mutex : {0, 1}]
  /\ clock \in 0 .. MaxClock
  /\ pc \in [Threads -> Places]
  /\ key \in [Threads -> Keys]
  /\ size \in [Threads -> Sizes \cup {0}]
  /\ ptr \in [Threads -> Threads \cup {NULL}]
  /\ got \in [Threads -> Threads \cup {NULL}]
  /\ crashed \in BOOLEAN

\* The Reader & Writer model read_from_cache announces: a writer is alone.
WritersAreAlone ==
  \A t \in Writing : Reading = {} /\ Writing = {t}

\* The semaphores count what they guard: mutex is down exactly while a thread
\* is inside, w exactly while a writer or a group of readers owns it, and
\* readers is their number.  Once every thread is done the cache is open.
SemaphoresAgree ==
  /\ mutex = 1 <=> Inside = {}
  /\ readers = Cardinality(Counted)
  /\ w = 1 <=> Writing = {} /\ Counted \ At({"close"}) = {} /\ At({"open"}) = {}

\* What a reader found stays what it looks for until it leaves: no writer
\* adds, removes or frees a block under it.
ReadersSeeAStableList ==
  \A t \in Reading \ At({"find"}) :
    /\ ptr[t] = find_elem(key[t])
    /\ pc[t] = "copied" => got[t] = ptr[t]

\* What the blocks take, summed from the oldest to the newest.
Occupied ==
  LET sum[n \in 0 .. Len(list)] ==
        IF n = 0 THEN 0 ELSE sum[n - 1] + block[list[Len(list) + 1 - n]].size
  IN  sum[Len(list)]

\* The cache never holds more than max_size: what is not in a block is
\* available, the block that is being added excepted.
SpaceIsAccounted ==
  /\ Occupied <= MaxSize
  /\ At({"account"}) = {} => available + Occupied = MaxSize

\* The promise of cache.h: the copy is read at one instant, from the entry that
\* Find chose; a miss happens when Find fails; a block is added, its space
\* taken, when it is linked.
Asked(t) == pc[t] \notin {"start", "count", "close", "enter", "find"} /\ ptr[t] = NULL
entries == [i \in DOMAIN list |->
  [key |-> block[list[i]].key, value |-> list[i], size |-> block[list[i]].size]]
Rest(a, writers, sz) == IF writers = {} THEN a ELSE a - sz[CHOOSE t \in writers : TRUE]
room    == Rest(available, At({"account"}), size)
found   == [t \in Threads |->
  IF got[t] # NULL \/ Asked(t) THEN [key |-> key[t], value |-> got[t]] ELSE NULL]

Promise == INSTANCE ObjectCache WITH Values <- Threads
ImplementsObjectCache == Promise!Spec

\* Every connection is served to its end, unless the process has crashed.
EveryThreadEnds == \A t \in Threads : <>(pc[t] = "done" \/ crashed)

\* The comment on find_least_recent_used: "Return the least recent used
\* block. Return NULL if the cache is empty."
EvictionFindsTheOldest ==
  LET rt == find_least_recent_used
  IN  (\E t \in At({"room"}) : size[t] > available) =>
        IF list = <<>> THEN rt = NULL
        ELSE rt \in ToSet(list) /\
             \A b \in ToSet(list) : block[rt].timestamp <= block[b].timestamp
=============================================================================
