-------------------------------- MODULE MCRio ---------------------------------
(***************************************************************************)
(* A stream of up to four bytes with line ends anywhere, a buffer of two   *)
(* and calls for one to three bytes: lines and reads span refills.         *)
(***************************************************************************)
EXTENDS Rio

MCSizes == {1, 2, 3}
=============================================================================
