# Verification of malloclab-handout

TLA+ models, TLC runs and TLAPS proofs for the two programs of this
repository: a `malloc` package (`mm.c`, with two simpler allocators beside it)
and a multi-threaded caching web proxy (`proxylab-handout/`).

## The system

| part | state it keeps | operations | what makes it correct |
|---|---|---|---|
| segregated-list allocator, `mm.c` | the heap: headers, footers of free blocks, free-list fields; `heap_startp`, `heap_listp` | `mm_init`, `malloc`, `free`, `realloc`, `calloc` | regions handed out are aligned, disjoint and keep their contents; headers, footers and lists agree; free neighbours are merged; the heap grows only when nothing fits |
| implicit-list allocator, `mm_implicit_list.c` | headers and footers, `heap_listp`, `rover` (next fit) | the same, `calloc` returns NULL | the same, without lists; the rover always points at a block |
| naive allocator, `mm-naive.c` | the break only | the same, `free` does nothing | regions are aligned and disjoint |
| object cache, `cache.c` | doubly linked blocks, `available_size`, `readers`, semaphores `mutex`, `w` and one per block | `read_from_cache`, `write_to_cache` | readers share, writers are alone; space is accounted for; every thread gets through; the oldest block goes first |
| proxy, `proxy.c` | one detached thread per connection, the descriptor table, the shared cache | accept, parse, look up, fetch and forward, add | each client gets one answer, of the host it named; one connection does not hold up another; descriptors are owned and accounted for |
| Rio, `csapp.c` | one buffer per descriptor | `rio_readlineb`, `rio_readnb`, `rio_readn`, `rio_writen` | no byte lost or repeated through short counts and interrupts; calls end |
| sockets, `csapp.c` | the address list, the socket tried | `open_clientfd`, `open_listenfd` | the first address that works is used, nothing leaks, errors are returned |

`mm_back_up.c` is an empty skeleton; `driver.sh`, `nop-server.py` and the port
scripts are a test harness.

How they interact: the client calls the allocator, the allocator calls
`mem_sbrk` of memlib (not in the repository), which may refuse. `main` of the
proxy starts a thread per connection; a thread reads a request through Rio,
asks the cache, and on a miss talks to the origin server and adds the answer to
the cache. Threads share the cache and the process's descriptor table.

What is hard: the allocator is sequential, and its difficulty is long sequences
of legal calls (split, merge, grow, refuse) over a representation in which one
bit kept in the *next* block's header says whether a block can merge backwards.
The cache is concurrent, and its difficulty is the readers' group lock and what
a reader uses after it looked it up. In the proxy it is what goes on beside a
connection: descriptor numbers used again, an object added between a miss and
its addition, a client or a server that stops half way; in Rio, the pieces the
kernel moves bytes in. `PROJECT.json` lists each hazard at its
line, with the properties that cover it.

## Modules

```
Allocator         what malloc, free, realloc, calloc promise
BlockHeap         a heap as a set of blocks                    <- BlockHeapProofs
MMSize            size arithmetic of mm.c
HeapWords         memlib's memory by the word, the client's pointers
  SegHeap         mm.c (with MMSize): implements BlockHeap and Allocator  <- SegHeapProofs
  ImplicitHeap    mm_implicit_list.c: implements BlockHeap and Allocator  <- ImplicitHeapProofs
  NaiveHeap       mm-naive.c: implements Allocator               <- NaiveHeapProofs
ObjectCache       the cache as one atomic object
  Cache           cache.c by its semaphores: implements ObjectCache  <- CacheProofs
ByteStream        what the Rio calls return, each at one instant
  Rio             csapp.c by the system call: implements ByteStream  <- RioProofs
Sockets           open_clientfd and open_listenfd by the address
Request           process_request and read_requesthdrs by the line
Connection        Request, then Sockets: from the request to the server  <- ConnectionProofs
Proxy             proxy.c over ObjectCache and the descriptors <- ProxyProofs
MC...             instances for TLC
```

**MMSize** is `AdjustedSize` (the block size `malloc` computes), `ExtendSize`
(the bytes `extend_heap` asks for) and `get_root` (the list for a size), with
`Wrap` for the width of `size_t` and `Bit` for the masks `get_root` shifts.

**Allocator** is the promise: live regions are disjoint and aligned, their words
change only when the client writes them, `realloc` carries the common part over.

**BlockHeap** keeps the set of blocks `[lo, hi, req]` between prologue and
epilogue and the break, for both allocators that have blocks; the size `malloc`
computes for a request is the operator constant `Adjusted`. `Coalesce`, `Place`, `Grown` and `Release` are
`coalesce`, `place`, `extend_heap` and `free` without their representation;
which fitting block is taken is left open.

**HeapWords** is memory: `mem_sbrk` (external), `memcpy` and `memset` by the word,
and the map `live` from the client's pointers to the sizes it asked for.

**SegHeap** stores words: `heap.mem` maps addresses (byte offsets from
`heap_startp`, as `HEAP_OFFSET` computes them) to headers, footers, list fields
and client words. Its operators have the names of the functions and macros
they translate (`coalesce`, `place`, `find_fit`, `mm_init`, `PACK`, ...), take the
memory and return the new one; an action is one call of the interface. `mm.c`
has no threads, so a call is one step. `mem_sbrk` may fail at any call; memory
it returns holds `Junk`. When the first `mem_sbrk` of `mm_init` fails,
`heap_startp` is `(void *)-1` and `malloc`, which ignores `mm_init`'s result,
reads through it: the model ends in `crashed`. Client words (`UserWords`) and
`Junk` look like headers, so that a word misread shows. `client` is the client that
runs, by the calls it makes, chosen at the start; in `ImplicitHeap` `program` is that
and the build.

**ImplicitHeap** is the same for `mm_implicit_list.c`, where allocated blocks have
footers too and `find_fit` walks the heap; `NextFit` says whether the
program that runs was built with `NEXT_FIT`, and `heap.rover` is the rover. `mm_init`'s first
`mem_sbrk` may be refused on any trace, not the first alone; the rover then keeps its
value, which may be a block of the trace before, beyond the break, and the next
`malloc` starts its search there: `crashed`, as it is when `heap_listp` is `(void *)-1`.
`calloc` returns NULL without touching anything and has no action.

**NaiveHeap** is `mm-naive.c`: a size word pair and a payload for each call, `free`
does nothing. Its `calloc` passes a refused `malloc`'s NULL to `memset`: `crashed`.

**Cache** has one process per connection, each with a `pc`; every P, every V and
every access to shared state between them is a step. A connection runs
`get_content`: `read_from_cache` (`ReadLock` ... `Leave`), on a miss `Fetch` from the
origin (external: any outcome), then `write_to_cache` (`WriteLock` ... `WriteUnlock`).
A block is named by the thread that allocates it; its content is its name.
`find_least_recent_used` is the scan as it is written: it returns NULL, and `Evict`
then sets `crashed`.

**ObjectCache** is what `cache.h` offers: a lookup returns the newest object under a
key or nothing, an addition takes its room, both at one instant. `Cache`
implements it by the mapping at its end: a lookup happens at the copy of a hit,
or when a miss leaves the search; an addition at `add_elem`, although
`available_size` follows later (`room` says what it will be).

**ByteStream** and **Rio** are the same pair for the Rio package. In `Rio` a step is
one system call, which moves any number of bytes, is interrupted or fails, or
one `memcpy` of `rio_read`. The four calls share the loop test (`More`), what a
round asks for (`Asks`) and the end (`Done`, `Fails`). A byte is its position in the
stream, so a byte lost or repeated shows. In `ByteStream` a call returns the next
bytes, as many as it was asked for or as there are, and what it returns names the
call, its length and the bytes; one that fails forfeits what
it had read.

**Sockets** walks the address list of `getaddrinfo`: `Resolve` (`Getaddrinfo`, which
ends the process on failure), `Socket`, `Attach` (connect or bind), `AttachFails`
(close, next), `Listen`, `EndOfList`. Which addresses work is chosen at the start,
and a descriptor may have any number this call does not hold.

**Request** reads a request by the line. A line is a record of what the code looks
for in it: whether it contains a word that makes it dropped, whether it contains
"Host:", and what the two patterns find. `host` and `port` are strings because
`strncpy` copies no terminator (`Overlay`): a shorter second name leaves the tail
of the first. A buffer read before it was written holds any line. At end of file the
loop goes round with the last line: for ever if that line is left out, else
until `request` is full (`overrun`).

**Proxy** has `main` (`Accept`, then `Spawn` or `Drop`) and a thread for each connection
(`Start`, `Request`, `Lookup`, `Hit`, `Connect`, `SendRequest`, `Receive` by the line,
`EndOfObject`, `Add`, `Finish`). It is built on the others: reading a request is one
step (`Request`, or `RequestBreaksOff` for a client that leaves before the end of its
headers: the thread ends or stays, or overflows its buffer, which is `crashed`), opening the server's connection is one
(`Sockets`), reads and writes are whole calls (`ByteStream`), and the cache is `ObjectCache`, whose `Lookup`
and `Add` it calls; what `Cache` says of a full cache, the end of the process, is
`Add`'s other branch. `fds` is the kernel's table: the lowest free number is given
out, and a number that was closed is given out again. `cell` is the `malloc`ed int
through which `main` passes the descriptor. A client may close at any time; a
server may close early, fail, or never answer. Servers on one host differ in the
port, which the cache's key leaves out. The path of an object (the URN) is the
same throughout.

## Runs

| run | instance | shows |
|---|---|---|
| `block_heap` | 128 bytes, requests of 8, 20, 40 bytes, chunk 32 | blocks are disjoint, cover the heap, free neighbours are merged, an idle heap is one block, held blocks stay |
| `seg_heap` | four blocks, 3 size classes; a client with requests of 12 and 20 bytes, and one with calloc of 12, realloc to 28 and writes | after each call headers agree with the footers of free blocks and the prev-alloc bits, no two free blocks follow each other and the walk ends at the epilogue (the tests of `checkheap` and `checkblock`, without the one at `mm.c:739`, see Observations); the lists are exact and acyclic; refines BlockHeap (no leak, growth only when nothing fits) and Allocator; calloc's memory is zero |
| `implicit_heap` | chunk 16, four chunks; first fit and next fit, each with a client with requests of 8 and 16 bytes and one with 12, realloc to 24 and writes | the heap passes `checkheap` and `checkblock` of `mm_implicit_list.c` after each call; the rover always points at a block, which is what the comment "WHY ???" in `coalesce` asks; refines BlockHeap (nothing that fits is missed) and Allocator (footers keep out of full payloads) |
| `naive_heap` | 56 bytes, requests of 0, 8, 12 and 16 | refines Allocator |
| `mm_size` | 13 lists, chunk 512, requests 1..66000 | the arithmetic with `mm.c`'s constants, past the last class boundary (65536) |
| `mm_size_width` | `size_t` of 1024 values | **finding**: the largest eleven requests wrap around |
| `cache` | 3 threads, 2 keys, sizes 1 and 2 of 3 | reader/writer exclusion, semaphore and space accounting, stable lookups, refines ObjectCache, every thread ends |
| `cache_lru` | the same | **finding**: the scan for the oldest block finds none |
| `rio` | streams of up to 4 bytes, any of them ending a line, buffer of 2, requests shorter and longer than it | the buffered bytes are the next ones; refines ByteStream; every call returns |
| `connection` | any request of up to 3 headers of 6 kinds, complete or not, to an address that works; a plain one to up to 3 addresses, each failing anywhere; the listening socket likewise | headers are dropped, replaced and passed on in order, and a request that breaks off is not passed on; the destination is what the lines with "Host:" leave, one or several; no descriptor or list leaks; the first address that works is used; reading and the walk end |
| `proxy` | 2 connections, 3 servers, 3 descriptors, objects of 2 and 3 lines, `MAX_OBJECT_SIZE` 3 | descriptors are owned and accounted for; one answer for each client; what is cached is one fetch; one connection does not hold up another |
| `proxy_hit` | the same | **finding**: a hit sends less or more than was cached |

*Bounds.* The heap bounds are small, but the cases of the code all occur: merging
with neither, either or both neighbours, both in one list; a remainder that is
split off, left in the block (8 bytes) or absent; growth onto a free and an
allocated last block; a request above the chunk size (`implicit_heap`,
`block_heap`); refusal of each `mem_sbrk`. Stale words multiply states, hence two
clients of SegHeap and of ImplicitHeap with different calls rather than one with
all. In the cache, three threads are what
the group lock needs (a first reader, a last reader and a writer), and a third
object of size 2 does not fit beside the others, so eviction is reached.

In `rio` the buffer is smaller than some requests and larger than others, lines end
inside it, across a refill and at its edge, and the stream ends at each of these
places. In `proxy` two connections are enough for every pair of steps to meet
(two misses of one object, a hit on what the other added, a number closed by one
and opened by the other) and three descriptors for the table to be full; an
object of two lines is cached, one of three lines reaches `MAX_OBJECT_SIZE`, and two
cached objects do not fit together. A request in `connection` is at most ten lines
long, which no complete one exceeds.

*Deadlock* is not checked where the system really stops: the heaps after a
crash, the sweep at its end, `Cache` when all connections are served.
`EveryThreadEnds` shows there that no thread is left waiting. `Connection` and
`Proxy` stop likewise when the socket is open or the client sends nothing, and
when all connections are done; `CallsEnd` and `EveryClientIsServed` say what must
have happened by then. `Rio` never stops.

*Fairness.* Weak fairness of each thread: the scheduler runs a thread that can
run. Nothing is assumed of semaphores; with finitely many connections a waiting
thread's semaphore is eventually free for good. With an endless stream of
readers a writer may starve (`hazards`).
In `Rio` the code's own steps and the kernel's progress are weakly fair: a read of a
stream that has bytes or has ended is not interrupted for ever. In `Connection`
the one thread runs on; a client that waits disables the read. In `Proxy`
`main` and each thread are weakly fair, and so are the servers that answer at all;
errors, clients that leave and clients that never end their request are not.
`EveryClientIsServed` excepts a process that has ended and a descriptor table that
stays full.

## Findings

1. `cache.c:97` keeps a block if its timestamp is *greater* than `INT_MAX`; so no
   block is ever found and the first eviction dereferences NULL.
2. `mm.c:284-285` wrap around for the eleven largest `size_t` values, and a block of
   0 or 8 bytes is placed.
3. `proxy.c:152` sends `strlen` bytes of a copy that is not terminated and may hold
   zero bytes; `driver.sh:384-386` compares a cached copy with the original.

*Observations* that the models contain and no run singles out.

- `csapp.c:594`: when a name does not resolve, `gai_error` ends the process, although
  `open_clientfd` "On error, returns -1 and sets errno." (`csapp.c:931`, `970`); in
  `Sockets` this is `exited`.
- `mm.c:739`: the last test of `checkheap` gives `in_heap` the epilogue's block pointer.
  That is the break, and `in_heap` (`mm.c:412-413`) accepts nothing past
  `mem_heap_hi()`, the last byte below it: `checkheap` prints "Outside heap boundary"
  for every heap, a sound one too. `HeapIsConsistent` of `SegHeap` states the other
  tests, and in the place of this one that the epilogue's header is the last word of
  the heap. (`mm_implicit_list.c` has no such test.)
- `proxy.c:240` takes the end of the stream for a line. A client that closes in the
  middle of its headers keeps its thread busy if its last line is one that is left
  out; one that is kept is appended round after round until `request[MAXBUF]`
  overflows (`proxy.c:224`). `read_requesthdrs` is to return "0 when everything is fine,
  -1 when error occurs" (`proxy.c:203`). In `Request` these are the endless loop and
  `overrun`, in `Proxy` they are `RequestBreaksOff` (the thread stays, or `crashed`).
  `RequestIsRewritten` shows that neither leads to the server; `CallsEnd` excepts
  requests that end this way, since the thread may not end.
- `proxy.c:126`: a first read that fails is not end of file, and the thread parses
  whatever its buffer holds (`NoRequestLine`). What then happens depends on it, and
  `CallsEnd` and `RequestIsRewritten` say nothing about it.
- `proxy.c:226` looks for "Host:" anywhere in a line, so another field can replace the
  destination taken from the Host field (`proxy.c:227`), or, being shorter, be written
  over its start. `DestinationIsNamed` says what comes out, for any number of such lines.

## Proofs

`BlockHeapProofs` proves, for every `MaxHeap`, `CHUNKSIZE`, `HEAP_START` and set of
requests within the named assumptions, the safety properties that `block_heap`
checks, and that blocks have room for what they hold. The invariant is `IInv`: the heap is not started, or `Sound`: sized,
disjoint, tiled and coalesced at once. None of the four is inductive alone
(disjointness after `Coalesce` needs the tiling to know that there is one left
neighbour, tiling needs disjointness to know that nothing else was removed).
Every operation first opens a `Hole`, a region no block covers, and then closes
it: `CoalesceIsSound` closes, `ReleaseIsSound`, `PlaceIsSound` and `GrownIsSound`
open. Assumptions: chunk and start are multiples of 8, `mm_init`'s chunk fits in
`MaxHeap`, and `Adjusted` returns an aligned size that is large enough.

`ImplicitHeapProofs` proves everything `implicit_heap` checks, for every `MaxHeap`,
chunk and set of clients, both builds. The assumptions are that the chunk is a
multiple of 8 no smaller than a block (`ChunkAssumption`), that the first one fits
(`RoomAssumption`), and that requests are positive and words are numbers
(`ProgramsAssumption`, `WordsAssumption`). `HeapIsConsistent` alone is not inductive: it
says that tags agree, not that the blocks they delimit are the client's and the
free ones, disjoint and merged. The invariant `IInv` does: the heap is dormant (no
`mm_init` yet, or its first `mem_sbrk` was refused, on this trace), or there is a set of
blocks `B` that is `Sound` in the sense of `BlockHeapProofs`, that memory `Stores` (each
header and footer is the block's), whose held blocks are the client's pointers with the
sizes it asked for (`Holds`), and of which the rover is one. Every operator then has
a lemma that says which set it stores afterwards and what it keeps:
`coalesce` and `extend_heap` close a hole whose tags are a free block's, `place` is
`Place`, `Filled` and `Copied` stay between the tags of one held block. `find_fit` takes
an induction: a walk from a block meets the blocks above it and the epilogue and
nothing else, since they tile the heap, so `Fitting` is `Fits`. The four step lemmas
(`MallocStep`, `FreeStep`, `ReallocStep`, `WriteStep`) say this of the actions, and both
refinements follow from them: `AbstractBlocks` is `B`, hence `ImplementsBlockHeap`; what
the client holds lies between tags, and regions of disjoint blocks are disjoint,
hence `ImplementsAllocator`.

`NaiveHeapProofs` proves that `NaiveHeap` implements `Allocator`, for every `MaxHeap` and
all requests that are numbers, those of `realloc` positive (`RequestsAssumption`). The
invariant is that the regions are `Packed`: each lies below the break, behind a word
that holds the size the client asked for, and a size word apart from every other.
The size words matter because `realloc` trusts them: that no client's write reaches
one is part of the invariant, and that it copies no more than the old region.

`SegHeapProofs` proves everything `seg_heap` and `mm_size` check, for every `MaxHeap`,
chunk, number of lists and set of clients. The assumptions are that the chunk is a
multiple of 8 no smaller than a block (`ChunkAssumption`), that the first one fits
(`RoomAssumption`), the range of the number of lists and of the width of `size_t`
(`SegAssumption`, `WidthAssumption`), that words are numbers (`WordsAssumption`), and
that no request is one of those that wrap around (`ClientsAssumption`; these are the
finding of `mm_size_width`).

- *Sizes.* `AdjustedSizeFits` is what `BlockHeap` assumes of `Adjusted`, and that the
  result is the least such size; `ExtendSizeFits` says that `extend_heap` asks for the
  block or the chunk. `RootIsAlwaysTheLevel` needs the powers of two only through
  `Bit`, a recursive function, by the facts that it doubles and that `div` and `%` by it
  find the highest bit that is set.
- *The invariant.* `HeapIsConsistent` and `ListsHoldTheFreeBlocks` are not inductive,
  even together: they say that what memory holds fits together, not that it is the
  client's blocks and the free ones, disjoint and merged. `IInv` says that the heap is
  dormant or that there is a set of blocks `B`, `Sound` as in `BlockHeapProofs`, that
  memory represents (`Rep`) and whose held blocks are the client's pointers (`Holds`).
  `Rep` has two parts. `Stored`: every header is the block's, with the bit that says
  whether the block before it is held, and free blocks have footers; `coalesce`
  trusts the bit to know whether a footer is there to be read. `Lists`: every free block has
  the class of its size, its `SUCC` is `tail` or a free block of that class whose `PRED`
  leads back, its `PRED` is the root or a free block whose `SUCC` leads back, and a
  rank falls along `SUCC`, so that no list is cyclic. The rank is what lets a list be described without an induction over it.
- *The operators.* `Unlink` and `Link` keep `Linked` for one node less or more, also
  when both neighbours `coalesce` unlinks are next to each other on one list;
  `coalesce`, `extend_heap`, `place`, `Filled`, `Copied` and `free` each have a lemma that
  says which set of blocks they leave, and that the payloads of the held ones stay.
- *The loops.* `find_fit` follows a list until a block fits. By induction on the rank
  its loop ends, at a block that fits or at `tail`, within as many rounds as there
  is room for blocks; that the lists skipped hold nothing that fits takes the order
  of the classes. `check_list`'s walk meets exactly the blocks of the class, and
  `checkheap`'s walk exactly the blocks of `B`.
- *What follows.* The two invariants, `CallocZeroes`, and both refinements:
  `AbstractBlocks` is `B`, hence `ImplementsBlockHeap`; what the client holds lies between
  a header and the next one, where no footer or link is written, hence
  `ImplementsAllocator`.

`CacheProofs` proves reader/writer exclusion and the meaning of `mutex`, `w` and
`readers` for any finite set of connections. `WritersAreAlone` and
`SemaphoresAgree` are not inductive: the invariant adds that `mutex` has one
holder, that a first reader waiting for `w` is alone among the counted, and that
a last reader giving `w` back is counted no more. `SetsMove` says how the sets of
threads change when one moves; each action then has its lemma. It uses
`SizesAssumption`, by which no writer returns with `w` held.

It goes on to what is in the cache. Its invariant `CInv` says, for each
place a thread can be at, which blocks are linked and what they hold, and that
the block a reader found is the newest under its key. A step that links, frees or
counts a block is the writer's, and no reader is inside then;
that is all the refinement needs: `Copy` or the end of the search is `Lookup`, `Add`
is `Add`, `Evict` ends the process, and every other step stutters. `SpaceIsAccounted`
follows from the same invariant.

`RioProofs` proves that `Rio` implements `ByteStream` for every buffer size and all
lengths. `IInv` is `TypeOK`, `BufferIsNext` and what each call has so far: bytes read
are consecutive and, for a line, none but the last ends one; bytes written are
the caller's first ones. A step that returns is the step of `ByteStream` and every
other one a stutter, `pos` being where the next byte to return stands.

`ProxyProofs` proves every invariant that `proxy` checks, for any set of connections,
servers, descriptors and sizes. It has three invariants, each used by the next.
`LinkInv` follows the number of a descriptor from the table to `main`'s cell to the
thread and back: `DescriptorsAreOwned` alone is not inductive, because a close of
one thread must be known not to hit another's number, which takes the converse
(every open descriptor has its one holder). `DataInv` counts what was received and
kept, and says who fetched each entry of the cache. `AnswerInv` says what each
client was sent; a hit needs `DataInv` to know that what is cached is part of an
object of that host.

`ConnectionProofs` proves the four invariants of `connection` for requests of any
length over any header lines, and for any address list. The assumptions say
what a line is (`HeaderAssumption`), that the empty line is no header
(`LinesAssumption`), that the names consist of characters (`CharsAssumption`) and that
descriptors are numbers (`SocketsAssumption`). None of the four is inductive, as they
speak of the end of the loop or of the walk: `ReadInv` says what `request` is after the
lines read so far, each kept line at the place that is the number of lines kept
before it, and that the destination is what the names so far leave; `WalkInv` says that no address
passed works and that the walk holds at most the socket it is at. `RequestIsRewritten`
also says that a request which breaks off is not passed on: `LineInv` has that the
thread is at the line it read last, which is the empty one in a complete request
only. `DestinationIsNamed` has no bound on the lines that name a host:
`OverlaidMore` and `OverlaidSame` say what one name more does to the string.

Only model-checked: liveness (that reading, the walks over addresses, each
cache operation, each Rio call and each connection end), which is beyond the provers, and the
three findings. Every safety property of the passing runs is a theorem.

## Plan

Done: the allocators, the cache and its refinement, Rio and its refinement,
sockets, requests, the proxy over them; proofs of all safety properties. What is
left: shorter proofs where lemmas of `SegHeapProofs` and `ImplicitHeapProofs` are
alike (both represent a sound set of blocks, with different tags).

## Not modelled

Printing and the DEBUG arrays of `mm.c` (what those look for, a write into client
memory, is `ImplementsAllocator`); `calloc` products that overflow; requests beyond an `int` in `mm-naive.c`; heaps of
4 GB;
failing `sem_wait` and failing `malloc` in the cache and in `main`; `free_cache`, which
nothing calls.

Of `proxy.c`: the text of lines and of the error page; how a line longer than
`MAXLINE` is cut into headers (that it is cut is in `Rio`); a request that outgrows
`MAXBUF`, which `Request` marks and does not follow; the `sprintf`s that read the
buffer they write, which C leaves undefined and glibc carries out as an append;
objects whose size an `int` does not hold; the command line.

Of `csapp.c`: the wrappers the proxy does not use (processes, signals, mapping,
files, `select`, directories, `Getnameinfo`), and those it does use that only report
an error, because `unix_error` returns here: each is its call. A `read` or `write`
that fails with something else than EINTR ends the call; `errno` is not kept.
`Setsockopt` only reports. `mm_back_up.c` is a skeleton without behaviour, and the
scripts are a test harness.
