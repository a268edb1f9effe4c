----------------------------- MODULE MCBlockHeap -----------------------------
(***************************************************************************)
(* A heap of at most eight blocks; the requests need 16, 24 and 48 bytes,  *)
(* the last more than a chunk.                                             *)
(***************************************************************************)
EXTENDS BlockHeap

Size == INSTANCE MMSize WITH N_SEGLIST <- 3, SIZE_MOD <- 1024

MCAdjusted(size) == Size!AdjustedSize(size)

MCSizes == {8, 20, 40}
=============================================================================
