----------------------------- MODULE MCSegHeap ------------------------------
(***************************************************************************)
(* A small instance of SegHeap with three size classes: 16, 32, and 64     *)
(* bytes and up.  Junk and the client's word read as headers of free       *)
(* blocks, so a stale or a client word that is taken for a header or a     *)
(* list field shows.                                                       *)
(***************************************************************************)
EXTENDS SegHeap

\* Four blocks at most, of 16 and 24 bytes: a fit that is 8 bytes too long is
\* handed out whole.
Placing == [mallocs |-> {12, 20}, callocs |-> {}, reallocs |-> {}, words |-> {}]

\* The contents of the heap: realloc moves what calloc returned to a block of
\* the next size class.
Moving  == [mallocs |-> {}, callocs |-> {12}, reallocs |-> {28}, words |-> {24}]

MCClients == {Placing, Moving}
=============================================================================
