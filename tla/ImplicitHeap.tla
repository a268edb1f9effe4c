----------------------------- MODULE ImplicitHeap -----------------------------
(***************************************************************************)
(* mm_implicit_list.c at the level of the words it stores: each block has  *)
(* a header and a footer, and find_fit walks the heap block by block, from *)
(* the prologue (first fit) or from the rover (NEXT_FIT).  Addresses are   *)
(* byte offsets from the start of the heap.  One thread: a call is one     *)
(* step; mem_sbrk may fail at any call.  calloc returns NULL, whatever it  *)
(* is asked for, and has no action.                                        *)
(***************************************************************************)
EXTENDS HeapWords, FiniteSetsExt

CONSTANTS
  CHUNKSIZE,  \* least number of bytes the heap grows by (4096 in the file)
  Programs    \* [nextfit, mallocs, reallocs, words]: is NEXT_FIT defined, the sizes
              \* the client asks for, in bytes, and the words it writes

ASSUME ChunkAssumption == CHUNKSIZE \in Nat /\ CHUNKSIZE >= 16 /\ CHUNKSIZE % 8 = 0
\* The driver's heap has room for the first chunk.
ASSUME RoomAssumption == 16 + CHUNKSIZE <= MaxHeap
ASSUME ProgramsAssumption ==
  \A x \in Programs : /\ x.nextfit \in BOOLEAN /\ x.words \subseteq Nat
                      /\ x.mallocs \subseteq Nat \ {0} /\ x.reallocs \subseteq Nat \ {0}

VARIABLES
  program,    \* the one that runs
  heap,       \* [mem, brk, listp, rover]: memory, break, the two globals
  live,       \* the client's pointers -> the size it asked for
  crashed     \* find_fit began at an address that is no block: undefined from
              \* there on

vars == <<program, heap, live, crashed>>

Sizes     == UNION {x.mallocs \cup x.reallocs : x \in Programs}
UserWords == UNION {x.words : x \in Programs}
NextFit   == program.nextfit

WSIZE      == 4
DSIZE      == 8
HEAP_START == 4 * WSIZE   \* block pointer of the first block
heap_listp == 2 * WSIZE   \* block pointer of the prologue

PACK(size, alloc) == size + alloc
GET_SIZE(w)       == w - (w % 8)
GET_ALLOC(w)      == w % 2

HDRP(bp)         == bp - WSIZE
FTRP(m, bp)      == bp + GET_SIZE(m[HDRP(bp)]) - DSIZE
NEXT_BLKP(m, bp) == bp + GET_SIZE(m[HDRP(bp)])
PREV_BLKP(m, bp) == bp - GET_SIZE(m[bp - DSIZE])

-----------------------------------------------------------------------------
\* Variant: room for the header only, as in mm.c.
AdjustedSizeNoFooter(size) ==
  IF size <= DSIZE THEN 2 * DSIZE ELSE DSIZE * ((size + WSIZE + (DSIZE - 1)) \div DSIZE)

\* The block size malloc computes.
AdjustedSize(size) ==
  IF size <= DSIZE THEN 2 * DSIZE ELSE DSIZE * ((size + DSIZE + (DSIZE - 1)) \div DSIZE)

\* The bytes extend_heap requests: an even number of words.
ExtendSize(asize) ==
  LET words == (IF asize > CHUNKSIZE THEN asize ELSE CHUNKSIZE) \div WSIZE
  IN  WSIZE * (IF words % 2 = 1 THEN words + 1 ELSE words)

\* Header, and footer where the new size puts it.
Tag(m, bp, word) ==
  LET m1 == [m EXCEPT ![HDRP(bp)] = word]
  IN  [m1 EXCEPT ![FTRP(m1, bp)] = word]

\* Variant: the rover is not told that its block is gone.
CoalesceKeepsRover(h, bp) ==
  LET prev  == PREV_BLKP(h.mem, bp)
      next  == NEXT_BLKP(h.mem, bp)
      first == IF GET_ALLOC(h.mem[FTRP(h.mem, prev)]) = 0 THEN prev ELSE bp
      past  == IF GET_ALLOC(h.mem[HDRP(next)]) = 0 THEN NEXT_BLKP(h.mem, next) ELSE next
  IN  [heap |-> [h EXCEPT !.mem = Tag(@, first, PACK(past - first, 0))], bp |-> first]

\* Variant: a block is merged with one neighbour at most.
CoalesceOneSide(h, bp) ==
  LET prev  == PREV_BLKP(h.mem, bp)
      next  == NEXT_BLKP(h.mem, bp)
      first == IF GET_ALLOC(h.mem[FTRP(h.mem, prev)]) = 0 THEN prev ELSE bp
      past  == IF GET_ALLOC(h.mem[HDRP(next)]) = 0 /\ first = bp
               THEN NEXT_BLKP(h.mem, next) ELSE next
  IN  [heap |-> [h EXCEPT !.mem = Tag(@, first, PACK(past - first, 0)),
                          !.rover = IF NextFit /\ first < @ /\ @ < past THEN first ELSE @],
       bp   |-> first]

\* Merge the free block bp with the free blocks before and after it; a rover
\* inside the result moves to its start.  When there is nothing to merge no
\* block pointer lies inside, and the words stored are the old ones.
coalesce(h, bp) ==
  LET prev  == PREV_BLKP(h.mem, bp)
      next  == NEXT_BLKP(h.mem, bp)
      first == IF GET_ALLOC(h.mem[FTRP(h.mem, prev)]) = 0 THEN prev ELSE bp
      past  == IF GET_ALLOC(h.mem[HDRP(next)]) = 0 THEN NEXT_BLKP(h.mem, next) ELSE next
  IN  [heap |-> [h EXCEPT !.mem = Tag(@, first, PACK(past - first, 0)),
                          !.rover = IF NextFit /\ first < @ /\ @ < past THEN first ELSE @],
       bp   |-> first]

\* The heap grown by one free block, which is then coalesced: [heap, bp].
extend_heap(h, asize) ==
  LET size  == ExtendSize(asize)
      bp    == h.brk
      grown == mem_sbrk(h, size)
      m1    == Tag(grown.mem, bp, PACK(size, 0))
  IN  coalesce([grown EXCEPT !.mem = [m1 EXCEPT ![HDRP(NEXT_BLKP(m1, bp))] = PACK(0, 1)]], bp)

\* Variant: the remainder gets a header only.
PlaceOneFooter(m, bp, asize) ==
  LET csize == GET_SIZE(m[HDRP(bp)])
  IN  IF csize - asize >= 2 * DSIZE
      THEN [Tag(m, bp, PACK(asize, 1)) EXCEPT ![HDRP(bp + asize)] = PACK(csize - asize, 0)]
      ELSE Tag(m, bp, PACK(csize, 1))

\* Allocate asize bytes at the start of the free block bp.
place(m, bp, asize) ==
  LET csize == GET_SIZE(m[HDRP(bp)])
  IN  IF csize - asize >= 2 * DSIZE
      THEN Tag(Tag(m, bp, PACK(asize, 1)), bp + asize, PACK(csize - asize, 0))
      ELSE Tag(m, bp, PACK(csize, 1))

-----------------------------------------------------------------------------
\* The block pointers from bp on, the epilogue's included.
From(m, bp) ==
  LET walk[n \in 0 .. MaxHeap \div DSIZE] ==
        IF n = 0 THEN {bp}
        ELSE UNION {IF GET_SIZE(m[HDRP(q)]) > 0 THEN {q, NEXT_BLKP(m, q)} ELSE {q}
                    : q \in walk[n - 1]}
  IN  walk[MaxHeap \div DSIZE]

Fitting(m, bps, asize) ==
  {bp \in bps : GET_ALLOC(m[HDRP(bp)]) = 0 /\ asize <= GET_SIZE(m[HDRP(bp)])}

\* The first fit from the prologue on; or the next fit from the rover on, then
\* from the prologue up to the old rover.  A walk goes up, so what it meets
\* first is the least.  The rover ends at the block found, or where the second
\* loop gives up.
find_fit(h, asize) ==
  LET all    == From(h.mem, heap_listp)
      fits   == Fitting(h.mem, all, asize)
      ahead  == Fitting(h.mem, From(h.mem, h.rover), asize)
      behind == {bp \in fits : bp < h.rover}
      At(bp) == [bp |-> bp, rover |-> IF NextFit THEN bp ELSE h.rover]
  IN  IF ~NextFit
      THEN IF fits = {} THEN [bp |-> NULL, rover |-> h.rover] ELSE At(Min(fits))
      ELSE IF ahead # {} THEN At(Min(ahead))
      ELSE IF behind # {} THEN At(Min(behind))
      ELSE [bp |-> NULL, rover |-> Min({bp \in all : bp >= h.rover})]

-----------------------------------------------------------------------------
\* Padding, prologue header and footer, epilogue.
EmptyMemory ==
  [a \in WordsBelow(HEAP_START) |->
     IF a = 0 THEN 0 ELSE IF a = HDRP(HEAP_START) THEN PACK(0, 1) ELSE PACK(DSIZE, 1)]

\* The heaps mm_init may leave: the first mem_sbrk refused (the rover then keeps
\* its value, that of the trace before included), the chunk refused, or neither.
mm_init(h) ==
  LET empty == [mem |-> EmptyMemory, brk |-> HEAP_START, listp |-> "heap",
                rover |-> IF NextFit THEN heap_listp ELSE NULL]
  IN  {[h EXCEPT !.listp = "failed"], empty} \cup
      (IF CanGrow(empty, ExtendSize(CHUNKSIZE))
       THEN {extend_heap(empty, CHUNKSIZE).heap} ELSE {})

\* The outcomes of malloc on an initialised heap.
Allocate(h, size) ==
  LET asize == AdjustedSize(size)
      found == find_fit(h, asize)
      g     == [h EXCEPT !.rover = found.rover]
      At(e) == [heap |-> [e.heap EXCEPT !.mem = place(@, e.bp, asize)], ptr |-> e.bp]
  IN  IF found.bp # NULL THEN {At([heap |-> g, bp |-> found.bp])}
      ELSE {[heap |-> g, ptr |-> NULL]} \cup
           (IF CanGrow(g, ExtendSize(asize)) THEN {At(extend_heap(g, asize))} ELSE {})

\* The outcomes of malloc.  The result of mm_init is not looked at: when its
\* first mem_sbrk failed, find_fit starts at (void *)-1, or at a rover that is
\* NULL or a block of the trace before, beyond the break.
malloc(h, size) ==
  LET On(g) == IF size = 0 THEN {[heap |-> g, ptr |-> NULL]}
               ELSE IF g.listp = "failed" THEN {[heap |-> g, ptr |-> CRASH]}
               ELSE Allocate(g, size)
  IN  UNION {On(g) : g \in IF h.listp = "null" THEN mm_init(h) ELSE {h}}

\* free on a pointer that is not NULL.
free(h, bp) ==
  LET size == GET_SIZE(h.mem[HDRP(bp)])
  IN  coalesce([h EXCEPT !.mem = Tag(@, bp, PACK(size, 0))], bp).heap

\* The outcomes of realloc on a live pointer with a size that is not 0.  The
\* copy is limited by the size of the old block, header and footer included.
realloc(h, p, size) ==
  {IF o.ptr \in {NULL, CRASH} THEN o
   ELSE LET n    == IF size < GET_SIZE(h.mem[HDRP(p)]) THEN size ELSE GET_SIZE(h.mem[HDRP(p)])
            copy == [o.heap EXCEPT !.mem = Copied(@, o.ptr, p, n)]
        IN  [o EXCEPT !.heap = free(copy, p)]
   : o \in malloc(h, size)}

-----------------------------------------------------------------------------
\* The call returns outcome o to a client that then holds the pointers l,
\* and the new one when there is one.
Returns(o, held, l, size) ==
  /\ heap' = o.heap
  /\ live' = IF o.ptr \in {NULL, CRASH} THEN held ELSE With(l, o.ptr, size)
  /\ crashed' = (o.ptr = CRASH)

Init ==
  /\ program \in Programs
  /\ heap = [mem |-> <<>>, brk |-> 0, listp |-> "null", rover |-> NULL]
  /\ live = <<>>
  /\ crashed = FALSE

\* The driver resets memlib's break and calls mm_init, at each trace.
NewTrace ==
  /\ heap' \in mm_init([heap EXCEPT !.mem = <<>>, !.brk = 0])
  /\ live' = <<>>
  /\ UNCHANGED crashed

Malloc(size) == \E o \in malloc(heap, size) : Returns(o, live, live, size)

Free(p) ==
  /\ heap' = free(heap, p)
  /\ live' = Without(live, p)
  /\ UNCHANGED crashed

Realloc(p, size) == \E o \in realloc(heap, p, size) : Returns(o, live, Without(live, p), size)

\* The client fills what it asked for with a word that may look like a header.
Write(p, v) ==
  /\ heap' = [heap EXCEPT !.mem = Filled(@, p, live[p], v)]
  /\ UNCHANGED <<live, crashed>>

\* realloc(NULL, n) is malloc(n), realloc(p, 0) is free(p), free(NULL) returns.
Next ==
  /\ ~crashed
  /\ \/ NewTrace
     \/ \E size \in program.mallocs \cup {0} : Malloc(size)
     \/ \E p \in DOMAIN live : Free(p)
     \/ \E p \in DOMAIN live, size \in program.reallocs : Realloc(p, size)
     \/ \E p \in DOMAIN live, v \in program.words : Write(p, v)
  /\ UNCHANGED program

Spec == Init /\ [][Next]_vars

-----------------------------------------------------------------------------
Started    == heap.listp = "heap"
Header(bp) == heap.mem[HDRP(bp)]

\* The block pointers checkheap visits after the prologue's, the epilogue's
\* included.
Walk      == From(heap.mem, HEAP_START)
BlockPtrs == IF Started THEN Walk \ {heap.brk} ELSE {}

TypeOK ==
  /\ program \in Programs
  /\ heap.brk \in 0 .. MaxHeap
  /\ heap.listp \in {"null", "heap", "failed"}
  /\ heap.rover \in 0 .. MaxHeap
  /\ DOMAIN heap.mem = WordsBelow(heap.brk)
  /\ \A a \in DOMAIN heap.mem : heap.mem[a] \in Nat
  /\ \A p \in DOMAIN live : p \in Nat /\ live[p] \in Sizes
  /\ crashed \in BOOLEAN

\* The heap passes checkheap and checkblock of mm_implicit_list.c: prologue and
\* epilogue stand, blocks are aligned, header and footer agree, for allocated
\* blocks too, so that the walk may go backwards over any of them.
HeapIsConsistent ==
  /\ TypeOK
  /\ Started =>
       /\ Header(heap_listp) = PACK(DSIZE, 1) /\ heap.mem[heap_listp] = PACK(DSIZE, 1)
       /\ heap.brk \in Walk /\ Header(heap.brk) = PACK(0, 1)
       /\ \A bp \in BlockPtrs :
            /\ bp % 8 = 0 /\ GET_SIZE(Header(bp)) >= 2 * DSIZE
            /\ heap.mem[FTRP(heap.mem, bp)] = Header(bp)

\* The rover of next fit is the prologue or a block of the heap as it is now,
\* however many blocks were merged since it was set: coalesce moves it out of
\* the block it makes (the comment there asks why).
RoverIsABlock == NextFit /\ Started => heap.rover \in BlockPtrs \cup {heap_listp}

\* Headers and footers implement the abstract heap: the same splits and merges,
\* growth only when no free block fits, for first and for next fit.
AbstractBlocks ==
  {[lo |-> bp, hi |-> NEXT_BLKP(heap.mem, bp),
    req |-> IF bp \in DOMAIN live THEN live[bp] ELSE 0] : bp \in BlockPtrs}
BH == INSTANCE BlockHeap WITH Adjusted <- AdjustedSize,
                              blocks <- AbstractBlocks,
                              top <- IF Started THEN heap.brk ELSE 0
ImplementsBlockHeap == BH!Spec

\* No write of the allocator (header, footer, realloc's copy) lands in a word
\* the client holds; realloc moves the contents.
A == INSTANCE Allocator WITH
       store <- [a \in UNION {Region(p, live[p]) : p \in DOMAIN live} |-> heap.mem[a]]
ImplementsAllocator == A!Spec
=============================================================================
