------------------------------ MODULE MCMMSize ------------------------------
(***************************************************************************)
(* A sweep of the size arithmetic over every request up to a limit, with   *)
(* the constants of mm.c for the sizes, and with a narrow size_t for the   *)
(* overflow at its upper end.                                              *)
(***************************************************************************)
EXTENDS MMSize

CONSTANT Limit   \* bound: the largest request

VARIABLE request

First == request = 1
Rise  == request < Limit /\ request' = request + 1
Sweep == First /\ [][Rise]_request

\* "Adjust block size to include overhead and alignment reqs" (malloc): the
\* block has room for payload and header, can be a free block, keeps the heap
\* aligned, and is the smallest that does.
AdjustedSizeIsRight ==
  LET asize == AdjustedSize(request)
  IN  /\ asize >= request + FSIZE /\ asize >= MINBLOCK /\ asize % 8 = 0
      /\ asize = MINBLOCK \/ asize - 8 < request + FSIZE

\* The list a block is linked into is the one check_list expects it in: bits
\* scanned by get_root and sizes tested by check_list agree at every boundary.
RootIsTheLevel ==
  \E i \in 0 .. N_SEGLIST - 1 :
    get_root(AdjustedSize(request)) = Root(i) /\ LevelHolds(i, AdjustedSize(request))
=============================================================================
