------------------------------- MODULE MMSize -------------------------------
(***************************************************************************)
(* The size arithmetic of mm.c: how malloc turns a request into a block    *)
(* size, how much extend_heap asks of mem_sbrk, and which segregated list  *)
(* holds a block of a given size.  Sizes are bytes.                        *)
(***************************************************************************)
EXTENDS Integers, FiniteSets

CONSTANTS
  N_SEGLIST,   \* number of segregated lists (13 in mm.c)
  CHUNKSIZE,   \* least number of bytes the heap grows by (512 in mm.c)
  SIZE_MOD     \* 2^w, w the width of size_t

ASSUME SegAssumption  == N_SEGLIST \in Nat /\ N_SEGLIST % 2 = 1
ASSUME ChunkAssumption == CHUNKSIZE \in Nat /\ CHUNKSIZE >= 16 /\ CHUNKSIZE % 8 = 0
ASSUME WidthAssumption == SIZE_MOD \in Nat /\ SIZE_MOD >= 64 /\ SIZE_MOD % 8 = 0

FSIZE    == 4
MINBLOCK == 4 * FSIZE        \* HDR, SUCC, PRED and FTR of a free block

\* size_t arithmetic: every sum below overflows at most once.
Wrap(x) == IF x < SIZE_MOD THEN x ELSE x - SIZE_MOD

-----------------------------------------------------------------------------
\* Variant: the header is forgotten when the payload fills an even word count.
AdjustedSizeNoHeader(size) ==
  LET fields == (size + (FSIZE - 1)) \div FSIZE
  IN  IF size <= 2 * FSIZE THEN MINBLOCK
      ELSE FSIZE * (IF fields % 2 = 1 THEN fields + 1 ELSE fields)

\* The block size malloc computes: room for the header, an even number of
\* fields, at least a whole free block.
AdjustedSize(size) ==
  LET fields == Wrap(size + (FSIZE - 1)) \div FSIZE
  IN  IF size <= 2 * FSIZE THEN MINBLOCK
      ELSE Wrap(FSIZE * (IF fields % 2 = 1 THEN fields + 1 ELSE fields + 2))

\* The bytes extend_heap requests for a block of asize bytes.
ExtendSize(asize) ==
  LET want  == IF asize > CHUNKSIZE THEN asize ELSE CHUNKSIZE
      words == IF want \div FSIZE < 4 THEN 4 ELSE want \div FSIZE
  IN  FSIZE * (IF words % 2 = 1 THEN words + 1 ELSE words)

-----------------------------------------------------------------------------
\* Heap offset of the header field of the list at level i, counted from 0.
Root(i) == (i + 2) * FSIZE

\* The mask with bit k set, counted from 0.
Bit[k \in 0 .. N_SEGLIST + 3] == IF k = 0 THEN 1 ELSE 2 * Bit[k - 1]

\* Position, counted from 1, of the highest bit of size among bits 0..n-1.
TopBit(size, n) ==
  LET set == {k \in 1..n : (size \div Bit[k - 1]) % 2 = 1}
  IN  IF set = {} THEN 0 ELSE CHOOSE k \in set : \A j \in set : j <= k

\* Variant: the scan starts one bit too low.
get_root_low_mask(asize) ==
  LET k == TopBit(asize, N_SEGLIST + 2)
  IN  IF asize \div Bit[N_SEGLIST + 3] > 0 THEN Root(N_SEGLIST - 1)
      ELSE IF k < 5 THEN Root(0) ELSE (k - 3) * FSIZE

\* The list searched first for a block of asize bytes, and the list a free
\* block of asize bytes is linked into.
get_root(asize) ==
  LET k == TopBit(asize, N_SEGLIST + 3)
  IN  IF asize \div Bit[N_SEGLIST + 3] > 0 THEN Root(N_SEGLIST - 1)
      ELSE IF k < 5 THEN Root(0) ELSE (k - 3) * FSIZE

\* What the file comment of mm.c says level i holds: blocks whose size is in
\* [16 << i, 16 << (i+1)), without the upper bound at the last level.
LevelHolds(i, size) ==
  /\ Bit[i + 4] <= size
  /\ i < N_SEGLIST - 1 => size < Bit[i + 5]
=============================================================================
