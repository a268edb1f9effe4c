------------------------------- MODULE MCProxy --------------------------------
(***************************************************************************)
(* Three servers: two on one host, one with an object of two lines, the    *)
(* other with one that is too large to be cached and holds a zero byte,    *)
(* and one on a host of its own that never answers.                        *)
(***************************************************************************)
EXTENDS Proxy

CONSTANTS text, large, silent

Line(o, i, z) == [of |-> o, nr |-> i, zero |-> z]

MCOrigins == {text, large, silent}
MCHostOf  == [o \in MCOrigins |-> IF o = silent THEN "silent" ELSE "host"]
MCSilent  == {silent}
MCContent == [o \in MCOrigins |->
  CASE o = text  -> <<Line(o, 1, FALSE), Line(o, 2, FALSE)>>
    [] o = large -> <<Line(o, 1, TRUE), Line(o, 2, FALSE), Line(o, 3, FALSE)>>
    [] OTHER     -> <<>>]
=============================================================================
