----------------------------- MODULE MCNaiveHeap ------------------------------
(***************************************************************************)
(* Regions of 0, 8, 12 and 16 bytes on a heap that holds two or three.     *)
(***************************************************************************)
EXTENDS NaiveHeap

MCMallocs  == {0, 12}
MCCallocs  == {8}
MCReallocs == {8, 16}
MCWords    == {24}
=============================================================================
