----------------------------- MODULE Allocator ------------------------------
(***************************************************************************)
(* What malloc, free, realloc and calloc (mm.h) promise their client,      *)
(* whatever the allocator: a returned region is aligned and disjoint from  *)
(* every live one, and the words of a live region change only when the     *)
(* client writes them.  Memory is seen in words of FSIZE bytes; the bytes  *)
(* of a word the client asked for in part stand or fall together.          *)
(***************************************************************************)
EXTENDS Integers, FiniteSets

CONSTANTS
  Sizes,      \* request sizes, in bytes
  UserWords,  \* values the client writes
  MaxHeap     \* size of the address space, in bytes

VARIABLES
  live,       \* live pointers -> the size each was requested with
  store       \* addresses of the live words -> their contents

vars == <<live, store>>

FSIZE    == 4
Pointers == {8 * i : i \in 1 .. MaxHeap \div 8}
Fields(size)    == (size + (FSIZE - 1)) \div FSIZE
Region(p, size) == {p + FSIZE * i : i \in 0 .. Fields(size) - 1}

LiveWords(l) == UNION {Region(p, l[p]) : p \in DOMAIN l}
Without(l, p) == [q \in DOMAIN l \ {p} |-> l[q]]
With(l, p, size) == [q \in DOMAIN l \cup {p} |-> IF q = p THEN size ELSE l[q]]

\* Every word that is live before and after the step keeps its contents,
\* the words of region R excepted.
KeepsExcept(R) ==
  /\ DOMAIN store' = LiveWords(live')
  /\ \A a \in DOMAIN store \cap DOMAIN store' : a \in R \/ store'[a] = store[a]

Init == live = <<>> /\ store = <<>>

\* The driver starts a new trace on an empty heap.
NewTrace == live' = <<>> /\ store' = <<>>

\* A region with arbitrary contents: calloc, too, is a step of this action,
\* and an implementation has to say apart from it that the words are zero.
Malloc(p, size) ==
  /\ p \notin DOMAIN live
  /\ Region(p, size) \cap LiveWords(live) = {}
  /\ live' = With(live, p, size)
  /\ KeepsExcept({})

Free(p) ==
  /\ p \in DOMAIN live
  /\ live' = Without(live, p)
  /\ KeepsExcept({})

\* The words common to the old and the new region move with the pointer.
Realloc(p, q, size) ==
  /\ p \in DOMAIN live
  /\ q \notin DOMAIN live \ {p}
  /\ Region(q, size) \cap LiveWords(Without(live, p)) = {}
  /\ live' = With(Without(live, p), q, size)
  /\ KeepsExcept(Region(q, size))
  /\ \A i \in 0 .. Fields(size) - 1 :
        i < Fields(live[p]) => store'[q + FSIZE * i] = store[p + FSIZE * i]

\* The client writes all it asked for at p.
Write(p, v) ==
  /\ p \in DOMAIN live
  /\ live' = live
  /\ KeepsExcept(Region(p, live[p]))
  /\ \A a \in Region(p, live[p]) : store'[a] = v

Next ==
  \/ NewTrace
  \/ \E p \in Pointers, size \in Sizes : Malloc(p, size)
  \/ \E p \in Pointers : Free(p)
  \/ \E p, q \in Pointers, size \in Sizes : Realloc(p, q, size)
  \/ \E p \in Pointers, v \in UserWords : Write(p, v)

Spec == Init /\ [][Next]_vars
=============================================================================
