------------------------------- MODULE SegHeap -------------------------------
(***************************************************************************)
(* mm.c at the level of the words it stores: headers with the size and the *)
(* two allocation bits, footers of free blocks only, and the segregated    *)
(* free lists threaded through the free blocks.  Addresses are byte        *)
(* offsets from heap_startp, as HEAP_OFFSET computes them, so the end      *)
(* sentinel "tail" is address 0.  mm.c has one thread: a call is one step; *)
(* mem_sbrk may fail at any call.                                          *)
(***************************************************************************)
EXTENDS MMSize, HeapWords, FiniteSetsExt

CONSTANT
  Clients     \* [mallocs, callocs, reallocs, words]: the sizes a client asks for,
              \* in bytes, and the words it writes into its memory

\* No request is so large that rounding it up passes the width of size_t.
ASSUME ClientsAssumption ==
  \A c \in Clients : /\ c.mallocs \cup c.callocs \cup c.reallocs \subseteq 1 .. SIZE_MOD - 13
                     /\ c.words \subseteq Nat

VARIABLES
  client,     \* the one that runs
  heap,       \* [mem, brk, startp, listp]: memory, break, mm.c's two globals
  live,       \* the client's pointers -> the size it asked for
  crashed     \* the program used heap_startp = (void *)-1 as an address

vars == <<client, heap, live, crashed>>

Sizes     == UNION {c.mallocs \cup c.callocs \cup c.reallocs : c \in Clients}
UserWords == UNION {c.words : c \in Clients}

tail       == 0
Roots      == {Root(i) : i \in 0 .. N_SEGLIST - 1}
HEAP_START == (N_SEGLIST + 5) * FSIZE
\* The driver's heap has room for the first chunk.
ASSUME RoomAssumption == HEAP_START + CHUNKSIZE <= MaxHeap

PACK(size, alloc, prev_alloc) == size + alloc + 2 * prev_alloc
GET_SIZE(w)       == w - (w % 8)
GET_ALLOC(w)      == w % 2
GET_PREV_ALLOC(w) == (w \div 2) % 2

HDRP(bp)         == bp - FSIZE
FTRP(m, bp)      == bp + GET_SIZE(m[HDRP(bp)]) - 2 * FSIZE
PREDP(bp)        == bp + FSIZE
NEXT_BLKP(m, bp) == bp + GET_SIZE(m[HDRP(bp)])
PREV_BLKP(m, bp) == bp - GET_SIZE(m[bp - 2 * FSIZE])

-----------------------------------------------------------------------------
\* Header and footer of a free block, the footer where the new size puts it.
Tag(m, bp, word) ==
  LET m1 == [m EXCEPT ![HDRP(bp)] = word]
  IN  [m1 EXCEPT ![FTRP(m1, bp)] = word]

\* The block at bp learns whether the block before it is allocated.
SetPrevAlloc(m, bp, bit) ==
  LET word == PACK(GET_SIZE(m[HDRP(bp)]), GET_ALLOC(m[HDRP(bp)]), bit)
  IN  IF GET_ALLOC(word) = 1 THEN [m EXCEPT ![HDRP(bp)] = word] ELSE Tag(m, bp, word)

\* Variant: the successor is not told of its new predecessor.
UnlinkForward(m, bp) == [m EXCEPT ![m[PREDP(bp)]] = m[bp]]

\* Take bp out of its list: SUCC of its PRED, then PRED of its SUCC.
Unlink(m, bp) ==
  LET m1 == [m EXCEPT ![m[PREDP(bp)]] = m[bp]]
  IN  [m1 EXCEPT ![PREDP(m1[bp])] = m1[PREDP(bp)]]

\* Put bp at the head of the list for its size.
Link(m, bp) ==
  LET root == get_root(GET_SIZE(m[HDRP(bp)]))
      m1   == [m EXCEPT ![bp] = m[root], ![PREDP(bp)] = root]
      m2   == [m1 EXCEPT ![PREDP(m1[bp])] = bp]
  IN  [m2 EXCEPT ![root] = bp]

\* Merge the free block bp with the free blocks before and after it and link
\* the result: the memory and the merged block's pointer.
coalesce(m, bp) ==
  LET prev_free == GET_PREV_ALLOC(m[HDRP(bp)]) = 0
      next_free == GET_ALLOC(m[HDRP(NEXT_BLKP(m, bp))]) = 0
      first == IF prev_free THEN PREV_BLKP(m, bp) ELSE bp
      next  == NEXT_BLKP(m, bp)
      past  == IF next_free THEN NEXT_BLKP(m, next) ELSE next
      m1    == IF prev_free THEN Unlink(m, first) ELSE m
      m2    == IF next_free THEN Unlink(m1, next) ELSE m1
  IN  [mem |-> Link(Tag(m2, first, PACK(past - first, 0, 1)), first), bp |-> first]

\* The heap grown by one free block, which is then coalesced: [mem, bp].
extend_heap(h, asize) ==
  LET size  == ExtendSize(asize)
      bp    == h.brk
      grown == mem_sbrk(h, size)
      m1    == Tag(grown.mem, bp, PACK(size, 0, GET_PREV_ALLOC(grown.mem[HDRP(bp)])))
      m2    == [m1 EXCEPT ![HDRP(NEXT_BLKP(m1, bp))] = PACK(0, 1, 0)]
      done  == coalesce(m2, bp)
  IN  [heap |-> [grown EXCEPT !.mem = done.mem], bp |-> done.bp]

\* Variant: the block after a wholly used one still believes it is free.
PlaceForgetsNext(m, bp, asize) ==
  LET header == m[HDRP(bp)]
      csize  == GET_SIZE(header)
      Taken(size) ==
        Unlink([m EXCEPT ![HDRP(bp)] = PACK(size, 1, GET_PREV_ALLOC(header))], bp)
  IN  IF csize - asize >= MINBLOCK
      THEN coalesce(Tag(Taken(asize), bp + asize, PACK(csize - asize, 0, 1)), bp + asize).mem
      ELSE Taken(csize)

\* Allocate asize bytes at the start of the free block bp.
place(m, bp, asize) ==
  LET header == m[HDRP(bp)]
      csize  == GET_SIZE(header)
      Taken(size) ==
        Unlink([m EXCEPT ![HDRP(bp)] = PACK(size, 1, GET_PREV_ALLOC(header))], bp)
  IN  IF csize - asize >= MINBLOCK
      THEN coalesce(Tag(Taken(asize), bp + asize, PACK(csize - asize, 0, 1)), bp + asize).mem
      ELSE SetPrevAlloc(Taken(csize), bp + csize, 1)

\* Where a loop over the list at root is after each round: it goes on from a
\* block of less than asize bytes, and stays at tail.  MaxHeap \div MINBLOCK
\* bounds the number of blocks, so a longer loop is in a cycle.
Search(m, root, asize) ==
  LET at[n \in 0 .. MaxHeap \div MINBLOCK] ==
        IF n = 0 THEN m[root]
        ELSE LET bp == at[n - 1]
             IN  IF bp = tail \/ GET_SIZE(m[HDRP(bp)]) >= asize THEN bp ELSE m[bp]
  IN  at

\* First fit, from the list of the request's size class upwards.
find_fit(m, asize) ==
  LET Found(root) == Search(m, root, asize)[MaxHeap \div MINBLOCK]
      hits == {root \in Roots : get_root(asize) <= root /\ Found(root) # tail}
  IN  IF hits = {} THEN NULL ELSE Found(Min(hits))

-----------------------------------------------------------------------------
\* Sentinel, empty lists, prologue and epilogue.
EmptyMemory ==
  [a \in WordsBelow(HEAP_START) |->
     CASE a < HEAP_START - 3 * FSIZE -> tail
       [] a = HEAP_START - FSIZE     -> PACK(0, 1, 1)
       [] OTHER                      -> PACK(2 * FSIZE, 1, 1)]

\* The heaps mm_init may leave, of which all but the last are failures: the
\* first mem_sbrk refused (heap_listp keeps its value), the chunk refused.
mm_init(h) ==
  LET empty == [mem |-> EmptyMemory, brk |-> HEAP_START, startp |-> "heap", listp |-> TRUE]
  IN  {[h EXCEPT !.startp = "failed"], empty} \cup
      (IF CanGrow(empty, ExtendSize(CHUNKSIZE))
       THEN {extend_heap(empty, CHUNKSIZE).heap} ELSE {})

\* The outcomes of malloc on an initialised heap.
Allocate(h, size) ==
  LET asize == AdjustedSize(size)
      fit   == find_fit(h.mem, asize)
      At(g, bp) == [heap |-> [g EXCEPT !.mem = place(@, bp, asize)], ptr |-> bp]
  IN  IF fit # NULL THEN {At(h, fit)}
      ELSE {[heap |-> h, ptr |-> NULL]} \cup
           (IF CanGrow(h, ExtendSize(asize))
            THEN LET e == extend_heap(h, asize) IN {At(e.heap, e.bp)} ELSE {})

\* The outcomes of malloc.  The result of mm_init is not looked at: when its
\* first mem_sbrk failed, find_fit follows heap_startp = (void *)-1.
malloc(h, size) ==
  LET From(g) ==
        IF size = 0 THEN {[heap |-> g, ptr |-> NULL]}
        ELSE IF g.startp # "heap" THEN {[heap |-> g, ptr |-> CRASH]}
        ELSE Allocate(g, size)
  IN  UNION {From(g) : g \in IF h.listp THEN {h} ELSE mm_init(h)}

\* Variant: a block is linked without being merged with its neighbours.
free_without_coalescing(h, bp) ==
  LET header == h.mem[HDRP(bp)]
      m1 == Tag(h.mem, bp, PACK(GET_SIZE(header), 0, GET_PREV_ALLOC(header)))
  IN  [h EXCEPT !.mem = Link(SetPrevAlloc(m1, NEXT_BLKP(m1, bp), 0), bp)]

\* free on a pointer that is not NULL.
free(h, bp) ==
  LET header == h.mem[HDRP(bp)]
      m1 == Tag(h.mem, bp, PACK(GET_SIZE(header), 0, GET_PREV_ALLOC(header)))
      m2 == SetPrevAlloc(m1, NEXT_BLKP(m1, bp), 0)
  IN  [h EXCEPT !.mem = coalesce(m2, bp).mem]

\* Variant: the old block is released before its contents are copied.
realloc_frees_first(h, p, size) ==
  {IF o.ptr \in {NULL, CRASH} THEN o
   ELSE LET n == IF size < GET_SIZE(h.mem[HDRP(p)]) THEN size ELSE GET_SIZE(h.mem[HDRP(p)])
            g == free(o.heap, p)
        IN  [heap |-> [g EXCEPT !.mem = Copied(@, o.ptr, p, n)], ptr |-> o.ptr]
   : o \in malloc(h, size)}

\* The outcomes of realloc on a live pointer with a size that is not 0.  The
\* copy is limited by the size of the old block, its header included.
realloc(h, p, size) ==
  {IF o.ptr \in {NULL, CRASH} THEN o
   ELSE LET n == IF size < GET_SIZE(h.mem[HDRP(p)]) THEN size ELSE GET_SIZE(h.mem[HDRP(p)])
            copied == [o.heap EXCEPT !.mem = Copied(@, o.ptr, p, n)]
        IN  [heap |-> free(copied, p), ptr |-> o.ptr]
   : o \in malloc(h, size)}

\* Variant: the memory is handed out as it is.
calloc_dirty(h, nmemb, size) == malloc(h, nmemb * size)

\* The outcomes of calloc, for products that do not overflow.
calloc(h, nmemb, size) ==
  {IF o.ptr \in {NULL, CRASH} THEN o
   ELSE [o EXCEPT !.heap.mem = Filled(@, o.ptr, nmemb * size, 0)]
   : o \in malloc(h, nmemb * size)}

-----------------------------------------------------------------------------
\* The call returns outcome o to a client that then holds the pointers l,
\* and the new one when there is one.
Returns(o, held, l, size) ==
  /\ heap' = o.heap
  /\ live' = IF o.ptr \in {NULL, CRASH} THEN held ELSE With(l, o.ptr, size)
  /\ crashed' = (o.ptr = CRASH)

Init ==
  /\ client \in Clients
  /\ heap = [mem |-> <<>>, brk |-> 0, startp |-> "null", listp |-> FALSE]
  /\ live = <<>>
  /\ crashed = FALSE

\* The driver resets memlib's break and calls mm_init, at each trace.
NewTrace ==
  /\ heap' \in mm_init([heap EXCEPT !.mem = <<>>, !.brk = 0])
  /\ live' = <<>>
  /\ UNCHANGED crashed

Malloc(size) == \E o \in malloc(heap, size) : Returns(o, live, live, size)

Calloc(nmemb, size) ==
  \E o \in calloc(heap, nmemb, size) : Returns(o, live, live, nmemb * size)

Free(p) ==
  /\ heap' = free(heap, p)
  /\ live' = Without(live, p)
  /\ UNCHANGED crashed

Realloc(p, size) == \E o \in realloc(heap, p, size) : Returns(o, live, Without(live, p), size)

\* The client fills what it asked for with a word that may look like a header.
Write(p, v) ==
  /\ heap' = [heap EXCEPT !.mem = Filled(@, p, live[p], v)]
  /\ UNCHANGED <<live, crashed>>

\* realloc(NULL, n) is malloc(n), realloc(p, 0) is free(p), free(NULL) returns.
Next ==
  /\ ~crashed
  /\ \/ NewTrace
     \/ \E size \in client.mallocs \cup {0} : Malloc(size)
     \/ \E size \in client.callocs : Calloc(1, size)
     \/ \E p \in DOMAIN live : Free(p)
     \/ \E p \in DOMAIN live, size \in client.reallocs : Realloc(p, size)
     \/ \E p \in DOMAIN live, v \in client.words : Write(p, v)
  /\ UNCHANGED client

Spec == Init /\ [][Next]_vars
-----------------------------------------------------------------------------
\* The block pointers checkheap visits, the epilogue's among them.
Walk ==
  LET walk[n \in 0 .. MaxHeap \div 8] ==
        IF n = 0 THEN {HEAP_START}
        ELSE UNION {IF bp < heap.brk THEN {bp, NEXT_BLKP(heap.mem, bp)} ELSE {bp}
                    : bp \in walk[n - 1]}
  IN  walk[MaxHeap \div 8]

\* The blocks check_list meets on the list at root, and tail when it ends.
Chain(root) ==
  LET at == Search(heap.mem, root, MaxHeap + 1) IN {at[n] : n \in DOMAIN at}

Started    == heap.startp = "heap" /\ heap.listp
BlockPtrs  == IF Started THEN Walk \ {heap.brk} ELSE {}
Header(bp) == heap.mem[HDRP(bp)]
IsFree(bp) == GET_ALLOC(Header(bp)) = 0

TypeOK ==
  /\ client \in Clients
  /\ heap.brk \in 0 .. MaxHeap
  /\ heap.startp \in {"null", "heap", "failed"}
  /\ heap.listp \in BOOLEAN
  /\ DOMAIN heap.mem = WordsBelow(heap.brk)
  /\ \A a \in DOMAIN heap.mem : heap.mem[a] \in Nat
  /\ \A p \in DOMAIN live : p \in Nat /\ live[p] \in Sizes
  /\ crashed \in BOOLEAN

\* The prologue stands, the walk from it ends at an epilogue whose header is the
\* last word of the heap, headers agree with the footers of free blocks and with
\* the bit the next block keeps of them, and no two free blocks follow each
\* other.  That is what checkheap and checkblock of mm.c test, but for the last
\* test of checkheap (739): it takes the epilogue's block pointer, which is the
\* break, for an address of the heap, where in_heap (413) wants one that is not
\* past mem_heap_hi(), so it prints "Outside heap boundary" on a sound heap too.
HeapIsConsistent ==
  /\ TypeOK
  /\ Started =>
       /\ Header(HEAP_START - 2 * FSIZE) = PACK(2 * FSIZE, 1, 1)
       /\ Header(HEAP_START - FSIZE) = PACK(2 * FSIZE, 1, 1)
       /\ heap.brk \in Walk /\ GET_SIZE(Header(heap.brk)) = 0 /\ ~IsFree(heap.brk)
       /\ GET_PREV_ALLOC(Header(HEAP_START)) = 1
       /\ \A bp \in BlockPtrs :
            /\ bp % 8 = 0 /\ GET_SIZE(Header(bp)) >= MINBLOCK
            /\ GET_PREV_ALLOC(Header(NEXT_BLKP(heap.mem, bp))) = GET_ALLOC(Header(bp))
            /\ IsFree(bp) => /\ heap.mem[FTRP(heap.mem, bp)] = Header(bp)
                             /\ ~IsFree(NEXT_BLKP(heap.mem, bp))

\* The segregated lists pass check_list of mm.c and more: every list ends at
\* tail without a cycle, its SUCC and PRED fields agree, its blocks belong to
\* its size class, and the lists hold each free block of the heap once.
ListsHoldTheFreeBlocks ==
  Started =>
    \A i \in 0 .. N_SEGLIST - 1 : \E chain \in {Chain(Root(i))} :
      /\ tail \in chain
      /\ chain \ {tail} = {bp \in BlockPtrs : IsFree(bp) /\ LevelHolds(i, GET_SIZE(Header(bp)))}
      /\ \A bp \in chain \ {tail} :
           LET pred == heap.mem[PREDP(bp)]
           IN  pred \in chain \cup {Root(i)} /\ heap.mem[pred] = bp

\* The memory calloc returns reads as zeros.
CallocZeroes ==
  [][ \A size \in client.callocs : Calloc(1, size) =>
        \A p \in DOMAIN live' \ DOMAIN live :
          \A a \in Region(p, size) : heap'.mem[a] = 0 ]_vars

\* Headers, footers and lists implement the abstract heap: the same splits and
\* merges, growth only when no free block anywhere in the heap fits.
AbstractBlocks ==
  {[lo |-> bp, hi |-> NEXT_BLKP(heap.mem, bp),
    req |-> IF bp \in DOMAIN live THEN live[bp] ELSE 0] : bp \in BlockPtrs}
BH == INSTANCE BlockHeap WITH Adjusted <- AdjustedSize,
                              blocks <- AbstractBlocks,
                              top <- IF Started THEN heap.brk ELSE 0
ImplementsBlockHeap == BH!Spec

\* No write of the allocator (header, footer, list field, realloc's copy)
\* lands in a word the client holds; realloc moves the contents.
A == INSTANCE Allocator WITH
       store <- [a \in UNION {Region(p, live[p]) : p \in DOMAIN live} |-> heap.mem[a]]
ImplementsAllocator == A!Spec
=============================================================================
