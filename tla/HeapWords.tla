------------------------------ MODULE HeapWords ------------------------------
(***************************************************************************)
(* What the allocators of this repository share: memlib's heap, seen in    *)
(* words of four bytes (memlib is not part of the repository), and the     *)
(* client's view of it, the pointers it holds.  A heap record h has at     *)
(* least the fields mem, address -> word, and brk, the break.  Addresses   *)
(* are byte offsets from the start of the heap.                            *)
(***************************************************************************)
EXTENDS Integers, FiniteSets

CONSTANTS
  MaxHeap,    \* bound: mem_sbrk never moves the break beyond it
  Junk        \* what memory holds before anyone wrote it

ASSUME WordsAssumption == MaxHeap \in Nat /\ Junk \in Nat

WORD  == 4
NULL  == 0
CRASH == -1   \* returned by a call that never returns

WordsBelow(end) == {WORD * i : i \in 0 .. (end \div WORD) - 1}

\* The break moves up by n bytes.
mem_sbrk(h, n) ==
  [h EXCEPT !.mem = [a \in WordsBelow(h.brk + n) |-> IF a < h.brk THEN h.mem[a] ELSE Junk],
            !.brk = @ + n]

CanGrow(h, n) == h.brk + n <= MaxHeap

-----------------------------------------------------------------------------
\* The words of a region of size bytes, the last one asked for in part included.
Fields(size)    == (size + (WORD - 1)) \div WORD
Region(p, size) == {p + WORD * i : i \in 0 .. Fields(size) - 1}

\* memcpy and memset by the word.
Copied(m, to, from, n) == [a \in DOMAIN m |-> IF a \in Region(to, n) THEN m[a - to + from] ELSE m[a]]
Filled(m, p, n, v)     == [a \in DOMAIN m |-> IF a \in Region(p, n) THEN v ELSE m[a]]

\* The client's pointers, with the size it asked for at each.
Without(l, p)    == [q \in DOMAIN l \ {p} |-> l[q]]
With(l, p, size) == [q \in DOMAIN l \cup {p} |-> IF q = p THEN size ELSE l[q]]
=============================================================================
