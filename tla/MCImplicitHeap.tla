---------------------------- MODULE MCImplicitHeap ----------------------------
(***************************************************************************)
(* A small instance of ImplicitHeap.  Junk and the client's word read as   *)
(* headers, so a stale or a client word that is taken for one shows.       *)
(***************************************************************************)
EXTENDS ImplicitHeap

\* Blocks of 16 and 24 bytes: a fit that is 8 bytes too long is handed out
\* whole.
Placing(nextfit) ==
  [nextfit |-> nextfit, mallocs |-> {8, 16}, reallocs |-> {}, words |-> {}]

\* A payload that leaves no slack before the footer, and realloc to a larger
\* block.
Moving(nextfit) ==
  [nextfit |-> nextfit, mallocs |-> {12}, reallocs |-> {24}, words |-> {24}]

MCPrograms == {Placing(b) : b \in BOOLEAN} \cup {Moving(b) : b \in BOOLEAN}
=============================================================================
