------------------------------ MODULE BlockHeap ------------------------------
(***************************************************************************)
(* The heap of mm.c and of mm_implicit_list.c as a set of blocks, without  *)
(* headers, footers and free lists: which blocks malloc, free and realloc  *)
(* carve, merge and hand out.  A block is [lo, hi, req]: its block         *)
(* pointer, the block pointer of the block that follows it, and the size   *)
(* the client asked for, 0 when the block is free.                         *)
(*                                                                         *)
(* Which fitting block find_fit returns is left open here; SegHeap and     *)
(* ImplicitHeap decide it and implement this specification.                *)
(***************************************************************************)
EXTENDS Integers, FiniteSets

CONSTANTS
  CHUNKSIZE,   \* least number of bytes the heap grows by
  Adjusted(_), \* the block size malloc computes for a request
  HEAP_START,  \* block pointer of the first block after the prologue
  MaxHeap,     \* bound: mem_sbrk never moves the break beyond it
  Sizes        \* request sizes of the client, in bytes

HEADER   == 4
MINBLOCK == 16               \* the least size of a free block

ASSUME ChunkAssumption == CHUNKSIZE \in Nat /\ CHUNKSIZE >= MINBLOCK /\ CHUNKSIZE % 8 = 0
ASSUME StartAssumption == HEAP_START \in Nat /\ HEAP_START > 0 /\ HEAP_START % 8 = 0
ASSUME MaxHeapAssumption == MaxHeap \in Nat /\ HEAP_START + CHUNKSIZE <= MaxHeap
ASSUME SizesAssumption == Sizes \subseteq Nat \ {0}
\* SegHeapProofs shows it of mm.c's arithmetic.
ASSUME AdjustedAssumption ==
  \A n \in Sizes : /\ Adjusted(n) \in Nat /\ Adjusted(n) >= MINBLOCK
                   /\ Adjusted(n) % 8 = 0 /\ Adjusted(n) >= n + HEADER

VARIABLES
  blocks,      \* the blocks between the prologue and the epilogue
  top          \* the break, the block pointer of the epilogue; 0 before mm_init

vars == <<blocks, top>>

Block == [lo : Nat, hi : Nat, req : Nat]
Length(b) == b.hi - b.lo

Left(B, lo)  == {x \in B : x.req = 0 /\ x.hi = lo}
Right(B, hi) == {x \in B : x.req = 0 /\ x.lo = hi}

\* Variant: a free block before the new one is not merged with it.
CoalesceRightOnly(B, lo, hi) ==
  (B \ Right(B, hi)) \cup
    {[lo |-> lo, hi |-> IF Right(B, hi) = {} THEN hi
                        ELSE (CHOOSE x \in Right(B, hi) : TRUE).hi, req |-> 0]}

\* The free region lo..hi joins B, merged with the free blocks on each side.
Coalesce(B, lo, hi) ==
  LET low  == IF Left(B, lo) = {} THEN lo ELSE (CHOOSE x \in Left(B, lo) : TRUE).lo
      high == IF Right(B, hi) = {} THEN hi ELSE (CHOOSE x \in Right(B, hi) : TRUE).hi
  IN  (B \ (Left(B, lo) \cup Right(B, hi))) \cup {[lo |-> low, hi |-> high, req |-> 0]}

\* Variant: the remainder starts where the payload ends, inside the block.
PlaceOverlapping(B, b, asize, size) ==
  LET used == [lo |-> b.lo, hi |-> b.lo + asize, req |-> size]
  IN  IF Length(b) - asize >= MINBLOCK
      THEN Coalesce((B \ {b}) \cup {used}, b.lo + asize - 8, b.hi)
      ELSE (B \ {b}) \cup {[b EXCEPT !.req = size]}

\* The free block b serves a request; what is left of it becomes a free block
\* when it is large enough to be one.
Place(B, b, asize, size) ==
  LET used == [lo |-> b.lo, hi |-> b.lo + asize, req |-> size]
  IN  IF Length(b) - asize >= MINBLOCK
      THEN Coalesce((B \ {b}) \cup {used}, b.lo + asize, b.hi)
      ELSE (B \ {b}) \cup {[b EXCEPT !.req = size]}

Fits(B, asize) == {b \in B : b.req = 0 /\ Length(b) >= asize}

\* The heap grows only when no free block fits, by a chunk or by the block.
Growth(B, asize) ==
  IF Fits(B, asize) # {} THEN 0 ELSE IF asize > CHUNKSIZE THEN asize ELSE CHUNKSIZE
Grown(B, t, more) == IF more = 0 THEN B ELSE Coalesce(B, t, t + more)

-----------------------------------------------------------------------------
Init == blocks = {} /\ top = 0

\* The heap mm_init leaves when its first mem_sbrk succeeds: empty when the
\* request for the first chunk is refused.
EmptyHeap == [blocks |-> {}, top |-> HEAP_START]
FirstHeap == [blocks |-> Coalesce({}, HEAP_START, HEAP_START + CHUNKSIZE),
              top    |-> HEAP_START + CHUNKSIZE]

\* The heap a call works on: malloc initialises it when mm_init has not.
Started == IF top = 0 THEN {EmptyHeap, FirstHeap}
           ELSE {[blocks |-> blocks, top |-> top]}

NewTrace ==
  \/ blocks' = {} /\ top' = 0
  \/ \E h \in {EmptyHeap, FirstHeap} : blocks' = h.blocks /\ top' = h.top

\* Variant: the failure of mem_sbrk is not noticed.
MallocUnlimited(size) ==
  \E h \in Started :
    LET asize == Adjusted(size)
        more  == Growth(h.blocks, asize)
        grown == Grown(h.blocks, h.top, more)
    IN  /\ h.top <= MaxHeap
        /\ \E b \in Fits(grown, asize) : blocks' = Place(grown, b, asize, size)
        /\ top' = h.top + more

\* Variant: a block the client holds may be handed out again.
MallocTwice(size) ==
  \E h \in Started :
    LET asize == Adjusted(size)
    IN  /\ \E b \in h.blocks : Length(b) >= asize /\ blocks' = Place(h.blocks, b, asize, size)
        /\ top' = h.top

Malloc(size) ==
  \E h \in Started :
    LET asize == Adjusted(size)
        more  == Growth(h.blocks, asize)
        grown == Grown(h.blocks, h.top, more)
    IN  /\ h.top + more <= MaxHeap
        /\ \E b \in Fits(grown, asize) : blocks' = Place(grown, b, asize, size)
        /\ top' = h.top + more

\* Variant: free gives back the payload only and loses the header word pair.
ReleaseShort(B, x) == Coalesce(B \ {x}, x.lo, IF x.hi - 8 > x.lo THEN x.hi - 8 ELSE x.hi)

Release(B, x) == Coalesce(B \ {x}, x.lo, x.hi)

Free(x) ==
  /\ x \in blocks /\ x.req > 0
  /\ blocks' = Release(blocks, x)
  /\ top' = top

\* The new block is allocated before the old one is released.
Realloc(x, size) ==
  LET asize == Adjusted(size)
      more  == Growth(blocks, asize)
      grown == Grown(blocks, top, more)
  IN  /\ x \in blocks /\ x.req > 0
      /\ top + more <= MaxHeap
      /\ \E b \in Fits(grown, asize) :
            blocks' = Release(Place(grown, b, asize, size), x)
      /\ top' = top + more

Next ==
  \/ NewTrace
  \/ \E size \in Sizes : Malloc(size)
  \/ \E x \in blocks : Free(x)
  \/ \E x \in blocks, size \in Sizes : Realloc(x, size)

Spec == Init /\ [][Next]_vars

-----------------------------------------------------------------------------
\* The break never passes the limit of memlib.
TypeOK == blocks \subseteq Block /\ top \in 0 .. MaxHeap

Sized(B, t) ==
  \A x \in B : /\ HEAP_START <= x.lo /\ x.lo + MINBLOCK <= x.hi /\ x.hi <= t
               /\ x.lo % 8 = 0 /\ x.hi % 8 = 0
               /\ x.req > 0 => x.req + HEADER <= Length(x)

Disjoint(B) == \A x, y \in B : x = y \/ x.hi <= y.lo \/ y.hi <= x.lo

Tiled(B, t) ==
  /\ \A x \in B : x.hi = t \/ \E y \in B : y.lo = x.hi
  /\ t > HEAP_START => \E x \in B : x.lo = HEAP_START

Coalesced(B) == \A x, y \in B : x.req = 0 /\ y.req = 0 => x.hi # y.lo

\* Blocks are aligned, at least as large as a free block, and have room for
\* the payload and the header that precedes it (mm.c malloc, place).
BlocksAreSized == Sized(blocks, top)

\* No two blocks overlap, whatever was split and merged before.
BlocksAreDisjoint == Disjoint(blocks)

\* The blocks cover the heap from the prologue to the epilogue without a gap:
\* walking it with NEXT_BLKP meets every block and ends at the epilogue.
HeapIsTiled == Tiled(blocks, top)

\* Coalescing is immediate: two free blocks are never neighbours (the check
\* "two consecutive free blocks in heap" of checkheap in mm.c).
NoFreeNeighbours == Coalesced(blocks)

\* When the client has freed all it got, the heap is one free block: no byte
\* is lost to splitting, to rounding or to the realloc path.
IdleHeapIsOneBlock ==
  (\A x \in blocks : x.req = 0) =>
     \A x \in blocks : x.lo = HEAP_START /\ x.hi = top

\* A block the client holds stays where it is, with its size: malloc drops
\* none, free and realloc drop the one they were given; a new trace forgets all.
HeldBlocksStay ==
  [][ LET held == {b \in blocks : b.req > 0}
      IN  \/ NewTrace
          \/ held \subseteq blocks'
          \/ \E x \in blocks :
               /\ Free(x) \/ \E size \in Sizes : Realloc(x, size)
               /\ held \ {x} \subseteq blocks' ]_vars
=============================================================================
