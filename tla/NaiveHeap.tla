------------------------------ MODULE NaiveHeap -------------------------------
(***************************************************************************)
(* mm-naive.c: malloc moves the break and nothing is ever given back.  The *)
(* size_t in front of a payload is two words, the size in the first.       *)
(* mem_sbrk may fail at any call.                                          *)
(***************************************************************************)
EXTENDS HeapWords

CONSTANTS
  MallocSizes, CallocSizes, ReallocSizes,  \* request sizes of the client, in bytes
  UserWords   \* words the client writes into its memory

ASSUME RequestsAssumption == /\ MallocSizes \subseteq Nat /\ CallocSizes \subseteq Nat
                             /\ ReallocSizes \subseteq Nat \ {0}

VARIABLES
  heap,       \* [mem, brk]
  live,       \* the client's pointers -> the size it asked for
  crashed     \* the program wrote through a NULL pointer

vars == <<heap, live, crashed>>

Sizes == MallocSizes \cup CallocSizes \cup ReallocSizes

SIZE_T_SIZE == 8
ALIGN(size) == 8 * ((size + 7) \div 8)

-----------------------------------------------------------------------------
\* The bytes malloc asks of mem_sbrk, for sizes that an int holds.
newsize(size) == ALIGN(size + SIZE_T_SIZE)

\* The outcomes of malloc; a request for no bytes gets a block, too.
malloc(h, size) ==
  LET taken == mem_sbrk(h, newsize(size))
  IN  {[heap |-> h, ptr |-> NULL]} \cup
      (IF CanGrow(h, newsize(size))
       THEN {[heap |-> [taken EXCEPT !.mem = [@ EXCEPT ![h.brk] = size, ![h.brk + WORD] = 0]],
              ptr  |-> h.brk + SIZE_T_SIZE]}
       ELSE {})

\* Variant: source and destination are swapped.
realloc_swapped(h, p, size) ==
  {IF o.ptr = NULL THEN o
   ELSE LET oldsize == h.mem[p - SIZE_T_SIZE]
        IN  [o EXCEPT !.heap.mem = Copied(@, p, o.ptr, IF size < oldsize THEN size ELSE oldsize)]
   : o \in malloc(h, size)}

\* The outcomes of realloc on a live pointer with a size that is not 0.
realloc(h, p, size) ==
  {IF o.ptr = NULL THEN o
   ELSE LET oldsize == h.mem[p - SIZE_T_SIZE]
        IN  [o EXCEPT !.heap.mem = Copied(@, o.ptr, p, IF size < oldsize THEN size ELSE oldsize)]
   : o \in malloc(h, size)}

\* The outcomes of calloc: memset runs on whatever malloc returned.
calloc(h, nmemb, size) ==
  {IF o.ptr = NULL THEN IF nmemb * size = 0 THEN o ELSE [o EXCEPT !.ptr = CRASH]
   ELSE [o EXCEPT !.heap.mem = Filled(@, o.ptr, nmemb * size, 0)]
   : o \in malloc(h, nmemb * size)}

-----------------------------------------------------------------------------
Returns(o, held, l, size) ==
  /\ heap' = o.heap
  /\ live' = IF o.ptr \in {NULL, CRASH} THEN held ELSE With(l, o.ptr, size)
  /\ crashed' = (o.ptr = CRASH)

\* mm_init does nothing: a heap is empty because the driver reset the break.
Init == heap = [mem |-> <<>>, brk |-> 0] /\ live = <<>> /\ crashed = FALSE

NewTrace == heap' = [mem |-> <<>>, brk |-> 0] /\ live' = <<>> /\ UNCHANGED crashed

Malloc(size) == \E o \in malloc(heap, size) : Returns(o, live, live, size)

Calloc(nmemb, size) ==
  \E o \in calloc(heap, nmemb, size) : Returns(o, live, live, nmemb * size)

\* free ignores the call; the client no longer holds the region.
Free(p) == live' = Without(live, p) /\ UNCHANGED <<heap, crashed>>

Realloc(p, size) == \E o \in realloc(heap, p, size) : Returns(o, live, Without(live, p), size)

Write(p, v) ==
  /\ heap' = [heap EXCEPT !.mem = Filled(@, p, live[p], v)]
  /\ UNCHANGED <<live, crashed>>

\* realloc(NULL, n) is malloc(n), realloc(p, 0) is free(p).
Next ==
  /\ ~crashed
  /\ \/ NewTrace
     \/ \E size \in MallocSizes : Malloc(size)
     \/ \E size \in CallocSizes : Calloc(1, size)
     \/ \E p \in DOMAIN live : Free(p)
     \/ \E p \in DOMAIN live, size \in ReallocSizes : Realloc(p, size)
     \/ \E p \in DOMAIN live, v \in UserWords : Write(p, v)

Spec == Init /\ [][Next]_vars

-----------------------------------------------------------------------------
\* The regions handed out are disjoint and keep what the client wrote; realloc,
\* which trusts the size stored in front of the old region, moves it.
A == INSTANCE Allocator WITH
       store <- [a \in UNION {Region(p, live[p]) : p \in DOMAIN live} |-> heap.mem[a]]
ImplementsAllocator == A!Spec
=============================================================================
