------------------------------ MODULE MCCache -------------------------------
(***************************************************************************)
(* Three connections, two objects, and a cache that holds two small        *)
(* objects or one large one: the third insertion may have to evict.        *)
(***************************************************************************)
EXTENDS Cache

MCSizes  == {1, 2}
=============================================================================
