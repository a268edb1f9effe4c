-------------------------- MODULE ImplicitHeapProofs --------------------------
(***************************************************************************)
(* Proofs about ImplicitHeap, for every heap limit, chunk size and set of  *)
(* clients, built with or without NEXT_FIT: the words it stores are always *)
(* those of a sound set of blocks, it implements BlockHeap and it keeps    *)
(* the promise of Allocator.                                               *)
(*                                                                         *)
(* The argument: memory stores a set of blocks (Stores) when each has its  *)
(* tags where its ends say.  Each operator of mm_implicit_list.c turns a   *)
(* memory that stores one set, or one with a hole that has tags (free,     *)
(* extend_heap), into one that stores another, and keeps the words between *)
(* the tags.  A walk meets just the blocks (by induction on the address,   *)
(* as they tile the heap), so what find_fit finds is what BlockHeap calls  *)
(* a fit.                                                                  *)
(***************************************************************************)
EXTENDS ImplicitHeap, WellFoundedInduction, TLAPS

\* BlockHeap's lemmas, for the blocks of this heap.
P == INSTANCE BlockHeapProofs WITH
       Adjusted <- AdjustedSize, blocks <- AbstractBlocks,
       top <- IF Started THEN heap.brk ELSE 0

USE DEF WSIZE, DSIZE, WORD, NULL, HEAP_START, heap_listp, PACK, HDRP

\* The header and the footer of block x.
Word(x) == (x.hi - x.lo) + (IF x.req = 0 THEN 0 ELSE 1)
Tagged(m, lo, hi, word) == m[lo - 4] = word /\ m[hi - 8] = word

\* Memory m is the heap of the blocks B, up to break t.
Stores(m, t, B) ==
  /\ m \in [WordsBelow(t) -> Nat]
  /\ m[4] = 9 /\ m[8] = 9 /\ m[t - 4] = 1
  /\ \A x \in B : Tagged(m, x.lo, x.hi, Word(x))

\* The words between the header and the footer of block x, and that they are
\* the same in m1 as in m for the blocks of S.
Payload(x)      == {a \in Nat : x.lo <= a /\ a <= x.hi - 12 /\ a % 4 = 0}
Keeps(m, m1, S) == \A x \in S : \A a \in Payload(x) : m1[a] = m[a]

\* Where the rover may be.
RoverIn(r, B) == IF NextFit THEN r = 8 \/ \E x \in B : x.lo = r ELSE r = NULL

Heap(m, t, listp, r) == [mem |-> m, brk |-> t, listp |-> listp, rover |-> r]

-----------------------------------------------------------------------------
LEMMA HeapMem ==
  ASSUME NEW m, NEW t, NEW listp, NEW r, NEW x
  PROVE  [Heap(m, t, listp, r) EXCEPT !.mem = x] = Heap(x, t, listp, r)
BY Z3 DEF Heap

LEMMA HeapBrk ==
  ASSUME NEW m, NEW t, NEW listp, NEW r, NEW x
  PROVE  [Heap(m, t, listp, r) EXCEPT !.brk = x] = Heap(m, x, listp, r)
BY Z3 DEF Heap

LEMMA HeapRover ==
  ASSUME NEW m, NEW t, NEW listp, NEW r, NEW x
  PROVE  [Heap(m, t, listp, r) EXCEPT !.rover = x] = Heap(m, t, listp, x)
BY Z3 DEF Heap

LEMMA HeapListp ==
  ASSUME NEW m, NEW t, NEW listp, NEW r, NEW x
  PROVE  [Heap(m, t, listp, r) EXCEPT !.listp = x] = Heap(m, t, x, r)
BY Z3 DEF Heap

LEMMA Assumptions ==
  /\ P!ChunkAssumption /\ P!StartAssumption /\ P!MaxHeapAssumption
  /\ P!SizesAssumption /\ P!AdjustedAssumption
<1>1. P!ChunkAssumption
  BY ChunkAssumption DEF P!ChunkAssumption, P!MINBLOCK
<1>2. P!StartAssumption
  BY DEF P!StartAssumption
<1>3. P!MaxHeapAssumption
  BY WordsAssumption, RoomAssumption DEF P!MaxHeapAssumption
<1>4. Sizes \subseteq Nat \ {0}
  BY ProgramsAssumption DEF Sizes
<1>5. P!SizesAssumption
  BY <1>4 DEF P!SizesAssumption
<1>6. P!AdjustedAssumption
  BY <1>4 DEF P!AdjustedAssumption, P!MINBLOCK, P!HEADER, AdjustedSize
<1> QED
  BY <1>1, <1>2, <1>3, <1>5, <1>6

LEMMA LeastNumber ==
  ASSUME NEW T \in SUBSET Nat, T # {}
  PROVE  Min(T) \in T /\ \A y \in T : Min(T) <= y
<1> DEFINE R == OpToRel(<, Nat)
<1>1. \A x, y \in Nat : y < x => <<y, x>> \in R
  BY DEF OpToRel
<1>2. IsWellFoundedOn(R, Nat)
  BY NatLessThanWellFounded
<1> HIDE DEF R
<1>3. PICK x \in T : \A y \in T : ~ (<<y, x>> \in R)
  BY <1>2, WFMin
<1>4. \A y \in T : ~ (y < x)
  BY <1>1, <1>3
<1>5. \A y \in T : x <= y
  BY <1>4
<1> QED
  BY <1>5 DEF Min

LEMMA Inductive ==
  ASSUME NEW S, 0 \in S, \A n \in Nat : n \in S => n + 1 \in S
  PROVE  Nat \subseteq S
<1> DEFINE T == Nat \ S
<1> SUFFICES ASSUME T # {} PROVE FALSE
  OBVIOUS
<1>1. Min(T) \in T /\ \A n \in T : Min(T) <= n
  BY LeastNumber
<1>2. Min(T) # 0 /\ Min(T) - 1 \in Nat
  BY <1>1
<1>3. Min(T) - 1 \in S
  BY <1>1, <1>2
<1> QED
  BY <1>1, <1>2, <1>3

LEMMA WordsBelowIs ==
  ASSUME NEW t \in Nat, t % 8 = 0
  PROVE  \A a : a \in WordsBelow(t) <=> a \in Nat /\ a % 4 = 0 /\ a < t
<1>1. ASSUME NEW a \in Nat, a % 4 = 0, a < t PROVE a \in WordsBelow(t)
  <2>1. a \div 4 \in 0 .. (t \div 4) - 1 /\ a = 4 * (a \div 4)
    BY <1>1
  <2> QED
    BY <2>1 DEF WordsBelow
<1>2. ASSUME NEW a \in WordsBelow(t) PROVE a \in Nat /\ a % 4 = 0 /\ a < t
  <2>1. PICK i \in 0 .. (t \div 4) - 1 : a = 4 * i
    BY DEF WordsBelow
  <2> QED
    BY <2>1
<1> QED
  BY <1>1, <1>2

\* What is packed is found again.
LEMMA WordHolds ==
  ASSUME NEW n \in Nat, n % 8 = 0
  PROVE  /\ GET_SIZE(n) = n /\ GET_ALLOC(n) = 0
         /\ GET_SIZE(n + 1) = n /\ GET_ALLOC(n + 1) = 1
BY DEF GET_SIZE, GET_ALLOC

LEMMA SoundFacts ==
  ASSUME NEW B, NEW t, P!Sound(B, t)
  PROVE  /\ B \subseteq P!Block /\ t \in Nat /\ t >= 16 /\ t % 8 = 0
         /\ \A x \in B : /\ x.lo \in Nat /\ x.hi \in Nat /\ x.req \in Nat
                         /\ 16 <= x.lo /\ x.lo + 16 <= x.hi /\ x.hi <= t
                         /\ x.lo % 8 = 0 /\ x.hi % 8 = 0
         /\ \A x, y \in B : x = y \/ x.hi <= y.lo \/ y.hi <= x.lo
         /\ \A x \in B : x.hi = t \/ \E y \in B : y.lo = x.hi
         /\ t > 16 => \E x \in B : x.lo = 16
         /\ \A x, y \in B : x.req = 0 /\ y.req = 0 => x.hi # y.lo
BY DEF P!Sound, P!Sized, P!Disjoint, P!Tiled, P!Coalesced, P!Block, P!MINBLOCK

LEMMA HoleFacts ==
  ASSUME NEW B, NEW lo, NEW hi, NEW t, P!Hole(B, lo, hi, t)
  PROVE  /\ B \subseteq P!Block /\ t \in Nat /\ t >= 16 /\ t % 8 = 0
         /\ \A x \in B : /\ x.lo \in Nat /\ x.hi \in Nat /\ x.req \in Nat
                         /\ 16 <= x.lo /\ x.lo + 16 <= x.hi /\ x.hi <= t
                         /\ x.lo % 8 = 0 /\ x.hi % 8 = 0
         /\ \A x, y \in B : x = y \/ x.hi <= y.lo \/ y.hi <= x.lo
         /\ lo \in Nat /\ hi \in Nat /\ lo % 8 = 0 /\ hi % 8 = 0
         /\ 16 <= lo /\ lo + 16 <= hi /\ hi <= t
         /\ \A x \in B : x.hi <= lo \/ hi <= x.lo
         /\ \A x \in B : x.hi = t \/ x.hi = lo \/ \E y \in B : y.lo = x.hi
         /\ hi = t \/ \E y \in B : y.lo = hi
         /\ lo = 16 \/ \E y \in B : y.lo = 16
BY DEF P!Hole, P!Sized, P!Disjoint, P!Block, P!MINBLOCK

LEMMA WordIs ==
  ASSUME NEW x, x.lo \in Nat, x.hi \in Nat, x.lo + 16 <= x.hi, x.lo % 8 = 0, x.hi % 8 = 0
  PROVE  /\ Word(x) \in Nat
         /\ GET_SIZE(Word(x)) = x.hi - x.lo
         /\ GET_ALLOC(Word(x)) = 0 <=> x.req = 0
<1>1. x.hi - x.lo \in Nat /\ (x.hi - x.lo) % 8 = 0
  OBVIOUS
<1>2. /\ GET_SIZE(x.hi - x.lo) = x.hi - x.lo /\ GET_ALLOC(x.hi - x.lo) = 0
      /\ GET_SIZE((x.hi - x.lo) + 1) = x.hi - x.lo /\ GET_ALLOC((x.hi - x.lo) + 1) = 1
  BY <1>1, WordHolds
<1>3. CASE x.req = 0
  <2>1. Word(x) = x.hi - x.lo
    BY <1>1, <1>3 DEF Word
  <2> QED
    BY <1>1, <1>2, <1>3, <2>1
<1>4. CASE x.req # 0
  <2>1. Word(x) = (x.hi - x.lo) + 1
    BY <1>1, <1>4 DEF Word
  <2> QED
    BY <1>1, <1>2, <1>4, <2>1
<1> QED
  BY <1>3, <1>4

\* Tag writes the two words of a block.
LEMMA TagIs ==
  ASSUME NEW D, NEW m \in [D -> Nat], NEW lo, lo - 4 \in D, NEW word \in Nat
  PROVE  /\ Tag(m, lo, word) \in [D -> Nat]
         /\ \A a \in D : Tag(m, lo, word)[a] =
              IF a = lo - 4 \/ a = lo + GET_SIZE(word) - 8 THEN word ELSE m[a]
<1> DEFINE m1 == [m EXCEPT ![lo - 4] = word]
<1>1. m1[lo - 4] = word
  OBVIOUS
<1>2. FTRP(m1, lo) = lo + GET_SIZE(word) - 8
  BY <1>1 DEF FTRP
<1>3. Tag(m, lo, word) = [m1 EXCEPT ![lo + GET_SIZE(word) - 8] = word]
  BY <1>2 DEF Tag
<1> QED
  BY <1>3

\* A point between blocks is the start of the heap or the end of a block.
LEMMA EndsAt ==
  ASSUME NEW B, NEW p \in Nat, p > 16,
         \A x \in B : x.lo \in Nat /\ x.hi \in Nat /\ x.lo < x.hi,
         \A x \in B : x.hi <= p \/ p <= x.lo,
         \A x \in B : x.hi < p => \E y \in B : y.lo = x.hi,
         \E x \in B : x.lo = 16
  PROVE  \E x \in B : x.hi = p
<1> DEFINE T == {p - x.hi : x \in {y \in B : y.hi <= p}}
<1>1. PICK z \in B : z.lo = 16
  OBVIOUS
<1>2. z.hi <= p
  BY <1>1
<1>3. T # {}
  BY <1>2
<1>4. T \in SUBSET Nat
  <2>1. \A y \in B : y.hi <= p => p - y.hi \in Nat
    OBVIOUS
  <2> QED
    BY <2>1
<1>5. Min(T) \in T /\ \A n \in T : Min(T) <= n
  BY <1>3, <1>4, LeastNumber
<1>6. PICK x \in B : x.hi <= p /\ Min(T) = p - x.hi
  BY <1>5
<1>7. ASSUME x.hi < p PROVE FALSE
  <2>1. PICK y \in B : y.lo = x.hi
    BY <1>7
  <2>2. y.hi <= p /\ y.hi > x.hi
    BY <1>7, <2>1
  <2>3. p - y.hi \in T
    BY <2>2
  <2>4. Min(T) <= p - y.hi
    BY <1>5, <2>3
  <2> HIDE DEF T
  <2> QED
    BY <1>6, <2>2, <2>4
<1> QED
  BY <1>6, <1>7

-----------------------------------------------------------------------------
\* The tags of a block are no other block's, nor the prologue's or epilogue's.
LEMMA TagsApart ==
  ASSUME NEW C, NEW t, P!Sound(C, t), NEW n \in C
  PROVE  /\ \A x \in C \ {n} : /\ x.lo - 4 \notin {n.lo - 4, n.hi - 8}
                               /\ x.hi - 8 \notin {n.lo - 4, n.hi - 8}
         /\ \A a \in {4, 8, t - 4} : a \notin {n.lo - 4, n.hi - 8}
         /\ n.lo - 4 \in WordsBelow(t) /\ n.hi - 8 \in WordsBelow(t)
<1>1. /\ t \in Nat /\ t % 8 = 0 /\ n.lo \in Nat /\ n.hi \in Nat /\ 16 <= n.lo
      /\ n.lo + 16 <= n.hi /\ n.hi <= t /\ n.lo % 8 = 0 /\ n.hi % 8 = 0
  BY SoundFacts
<1>2. ASSUME NEW x \in C \ {n}
      PROVE  x.lo - 4 \notin {n.lo - 4, n.hi - 8} /\ x.hi - 8 \notin {n.lo - 4, n.hi - 8}
  <2>1. /\ x.lo \in Nat /\ x.hi \in Nat /\ x.lo % 8 = 0 /\ x.hi % 8 = 0
        /\ x.lo + 16 <= x.hi /\ (x.hi <= n.lo \/ n.hi <= x.lo)
    BY SoundFacts
  <2> QED
    BY <1>1, <2>1
<1>3. \A a \in {4, 8, t - 4} : a \notin {n.lo - 4, n.hi - 8}
  BY <1>1
<1>4. n.lo - 4 \in WordsBelow(t) /\ n.hi - 8 \in WordsBelow(t)
  <2>1. /\ n.lo - 4 \in Nat /\ (n.lo - 4) % 4 = 0 /\ n.lo - 4 < t
        /\ n.hi - 8 \in Nat /\ (n.hi - 8) % 4 = 0 /\ n.hi - 8 < t
    BY <1>1
  <2> QED
    BY <1>1, <2>1, WordsBelowIs
<1> QED
  BY <1>2, <1>3, <1>4

\* Tag writes the two words of one block, and no other block's.
LEMMA TagWrites ==
  ASSUME NEW C, NEW t, P!Sound(C, t), NEW n \in C, NEW S \in SUBSET C, n \notin S,
         NEW m, Stores(m, t, S), NEW word \in Nat, GET_SIZE(word) = n.hi - n.lo
  PROVE  /\ Stores(Tag(m, n.lo, word), t, S)
         /\ Tagged(Tag(m, n.lo, word), n.lo, n.hi, word)
         /\ Keeps(m, Tag(m, n.lo, word), C)
<1> DEFINE m1 == Tag(m, n.lo, word)
<1>1. /\ n.lo \in Nat /\ n.hi \in Nat /\ n.lo + 16 <= n.hi /\ n.lo % 8 = 0 /\ n.hi % 8 = 0
      /\ t \in Nat /\ t % 8 = 0 /\ t >= 16
  BY SoundFacts
<1>2. n.lo - 4 \in WordsBelow(t) /\ n.hi - 8 \in WordsBelow(t) /\ m \in [WordsBelow(t) -> Nat]
  BY TagsApart DEF Stores
<1>3. /\ m1 \in [WordsBelow(t) -> Nat]
      /\ \A a \in WordsBelow(t) : m1[a] = IF a \in {n.lo - 4, n.hi - 8} THEN word ELSE m[a]
  <2>1. /\ m1 \in [WordsBelow(t) -> Nat]
        /\ \A a \in WordsBelow(t) :
             m1[a] = IF a = n.lo - 4 \/ a = n.lo + GET_SIZE(word) - 8 THEN word ELSE m[a]
    BY <1>2, TagIs
  <2>2. n.lo + GET_SIZE(word) - 8 = n.hi - 8
    BY <1>1
  <2> QED
    BY <2>1, <2>2
<1> HIDE DEF m1
<1>4. m1[4] = 9 /\ m1[8] = 9 /\ m1[t - 4] = 1
  <2>1. n.lo - 4 # 4 /\ n.lo - 4 # 8 /\ n.hi - 8 # 4 /\ n.hi - 8 # 8
        /\ n.lo - 4 # t - 4 /\ n.hi - 8 # t - 4
    BY TagsApart
  <2>2. 4 \in WordsBelow(t) /\ 8 \in WordsBelow(t) /\ t - 4 \in WordsBelow(t)
    BY <1>1, WordsBelowIs
  <2>3. m[4] = 9 /\ m[8] = 9 /\ m[t - 4] = 1
    BY DEF Stores
  <2> QED
    BY <1>3, <2>1, <2>2, <2>3
<1>5. Tagged(m1, n.lo, n.hi, word)
  BY <1>2, <1>3 DEF Tagged
<1>6. \A x \in S : Tagged(m1, x.lo, x.hi, Word(x))
  <2> SUFFICES ASSUME NEW x \in S PROVE Tagged(m1, x.lo, x.hi, Word(x))
    OBVIOUS
  <2>1. x \in C \ {n} /\ x.lo - 4 \in WordsBelow(t) /\ x.hi - 8 \in WordsBelow(t)
    BY TagsApart
  <2>2. x.lo - 4 \notin {n.lo - 4, n.hi - 8} /\ x.hi - 8 \notin {n.lo - 4, n.hi - 8}
    BY <2>1, TagsApart
  <2>3. Tagged(m, x.lo, x.hi, Word(x))
    BY DEF Stores
  <2> QED
    BY <1>3, <2>1, <2>2, <2>3 DEF Tagged
<1>7. Keeps(m, m1, C)
  <2> SUFFICES ASSUME NEW x \in C, NEW a \in Payload(x) PROVE m1[a] = m[a]
    BY DEF Keeps
  <2>1. /\ x.lo \in Nat /\ x.hi \in Nat /\ x.hi <= t
        /\ x = n \/ x.hi <= n.lo \/ n.hi <= x.lo
    BY SoundFacts
  <2>2. a \in Nat /\ a % 4 = 0 /\ x.lo <= a /\ a <= x.hi - 12
    BY DEF Payload
  <2>3. a \in WordsBelow(t)
    BY <1>1, <2>1, <2>2, WordsBelowIs
  <2>4. a # n.lo - 4 /\ a # n.hi - 8
    BY <1>1, <2>1, <2>2
  <2> QED
    BY <1>3, <2>3, <2>4
<1> QED
  BY <1>3, <1>4, <1>5, <1>6, <1>7 DEF Stores, m1

\* With its own word the block joins those the memory stores.
LEMMA TagStores ==
  ASSUME NEW C, NEW t, P!Sound(C, t), NEW n \in C, NEW S \in SUBSET C,
         NEW m, Stores(m, t, S \ {n})
  PROVE  /\ Stores(Tag(m, n.lo, Word(n)), t, S \cup {n})
         /\ Keeps(m, Tag(m, n.lo, Word(n)), C)
<1>1. Word(n) \in Nat /\ GET_SIZE(Word(n)) = n.hi - n.lo
  BY SoundFacts, WordIs
<1>2. S \ {n} \in SUBSET C /\ n \notin S \ {n}
  OBVIOUS
<1>3. /\ Stores(Tag(m, n.lo, Word(n)), t, S \ {n})
      /\ Tagged(Tag(m, n.lo, Word(n)), n.lo, n.hi, Word(n))
      /\ Keeps(m, Tag(m, n.lo, Word(n)), C)
  BY <1>1, <1>2, TagWrites
<1> QED
  BY <1>3 DEF Stores

\* coalesce looks at the footer before the block, and at the header after it.
LEMMA LooksBack ==
  ASSUME NEW B, NEW lo, NEW hi, NEW t, P!Hole(B, lo, hi, t), NEW m, Stores(m, t, B),
         NEW low,
         \/ low = lo /\ P!Left(B, lo) = {}
         \/ \E z \in B : P!Left(B, lo) = {z} /\ z.req = 0 /\ z.hi = lo /\ low = z.lo
  PROVE  low = IF GET_ALLOC(m[FTRP(m, PREV_BLKP(m, lo))]) = 0 THEN PREV_BLKP(m, lo) ELSE lo
<1>1. CASE lo = 16
  <2>1. P!Left(B, lo) = {}
    BY <1>1, HoleFacts DEF P!Left
  <2>2. GET_SIZE(9) = 8 /\ GET_ALLOC(9) = 1
    BY DEF GET_SIZE, GET_ALLOC
  <2>3. m[4] = 9 /\ m[8] = 9
    BY DEF Stores
  <2>4. PREV_BLKP(m, lo) = 8 /\ FTRP(m, 8) = 8
    BY <1>1, <2>2, <2>3 DEF PREV_BLKP, FTRP
  <2> QED
    BY <2>1, <2>2, <2>3, <2>4
<1>2. CASE lo # 16
  <2>1. PICK z \in B : z.hi = lo
    <3>1. \A x \in B : x.hi < lo => \E y \in B : y.lo = x.hi
      BY HoleFacts
    <3>2. /\ lo \in Nat /\ lo > 16 /\ \E x \in B : x.lo = 16
          /\ \A x \in B : x.lo \in Nat /\ x.hi \in Nat /\ x.lo < x.hi
          /\ \A x \in B : x.hi <= lo \/ lo <= x.lo
      BY <1>2, HoleFacts
    <3> QED
      BY <3>1, <3>2, EndsAt
  <2>2. /\ z.lo \in Nat /\ z.hi \in Nat /\ z.lo + 16 <= z.hi
        /\ z.lo % 8 = 0 /\ z.hi % 8 = 0
    BY HoleFacts
  <2>3. m[lo - 8] = Word(z) /\ m[z.lo - 4] = Word(z)
    BY <2>1 DEF Stores, Tagged
  <2>4. GET_SIZE(Word(z)) = z.hi - z.lo /\ (GET_ALLOC(Word(z)) = 0 <=> z.req = 0)
    BY <2>2, WordIs
  <2>5. PREV_BLKP(m, lo) = z.lo /\ FTRP(m, z.lo) = lo - 8
    BY <2>1, <2>2, <2>3, <2>4 DEF PREV_BLKP, FTRP
  <2>6. \A y \in B : y.hi = lo => y = z
    BY <2>1, <2>2, HoleFacts
  <2>7. P!Left(B, lo) = IF z.req = 0 THEN {z} ELSE {}
    BY <2>1, <2>6 DEF P!Left
  <2> QED
    BY <2>3, <2>4, <2>5, <2>7
<1> QED
  BY <1>1, <1>2

LEMMA LooksAhead ==
  ASSUME NEW B, NEW lo, NEW hi, NEW t, P!Hole(B, lo, hi, t), NEW m, Stores(m, t, B),
         NEW high,
         \/ high = hi /\ P!Right(B, hi) = {}
         \/ \E z \in B : P!Right(B, hi) = {z} /\ z.req = 0 /\ z.lo = hi /\ high = z.hi
  PROVE  high = IF GET_ALLOC(m[hi - 4]) = 0 THEN NEXT_BLKP(m, hi) ELSE hi
<1>1. CASE hi = t
  <2>1. P!Right(B, hi) = {}
    BY <1>1, HoleFacts DEF P!Right
  <2>2. m[hi - 4] = 1 /\ GET_ALLOC(1) = 1
    BY <1>1 DEF Stores, GET_ALLOC
  <2> QED
    BY <2>1, <2>2
<1>2. CASE hi # t
  <2>1. PICK z \in B : z.lo = hi
    BY <1>2, HoleFacts
  <2>2. /\ z.lo \in Nat /\ z.hi \in Nat /\ z.lo + 16 <= z.hi
        /\ z.lo % 8 = 0 /\ z.hi % 8 = 0
    BY HoleFacts
  <2>3. m[hi - 4] = Word(z)
    BY <2>1 DEF Stores, Tagged
  <2>4. GET_SIZE(Word(z)) = z.hi - z.lo /\ (GET_ALLOC(Word(z)) = 0 <=> z.req = 0)
    BY <2>2, WordIs
  <2>5. NEXT_BLKP(m, hi) = z.hi
    BY <2>1, <2>2, <2>3, <2>4 DEF NEXT_BLKP
  <2>6. \A y \in B : y.lo = hi => y = z
    BY <2>1, <2>2, HoleFacts
  <2>7. P!Right(B, hi) = IF z.req = 0 THEN {z} ELSE {}
    BY <2>1, <2>6 DEF P!Right
  <2> QED
    BY <2>3, <2>4, <2>5, <2>7
<1> QED
  BY <1>1, <1>2

\* coalesce closes a hole the way BlockHeap does.
LEMMA CoalesceStores ==
  ASSUME NEW B, NEW lo, NEW hi, NEW t, P!Hole(B, lo, hi, t), NEW m, Stores(m, t, B),
         Tagged(m, lo, hi, hi - lo),
         NEW listp, NEW r, RoverIn(r, B) \/ (NextFit /\ r = lo)
  PROVE  \E m1, r1 : \E n \in P!Coalesce(B, lo, hi) :
           /\ coalesce(Heap(m, t, listp, r), lo) = [heap |-> Heap(m1, t, listp, r1), bp |-> n.lo]
           /\ n.req = 0 /\ n.lo <= lo /\ hi <= n.hi
           /\ Stores(m1, t, P!Coalesce(B, lo, hi))
           /\ Keeps(m, m1, P!Held(B))
           /\ RoverIn(r1, P!Coalesce(B, lo, hi))
<1> DEFINE C == P!Coalesce(B, lo, hi)
           L == P!Left(B, lo)
           R == P!Right(B, hi)
<1>1. PICK n \in P!Block :
        /\ C = (B \ (L \cup R)) \cup {n}
        /\ n.req = 0
        /\ n.lo <= lo /\ hi <= n.hi
        /\ \/ n.lo = lo /\ L = {}
           \/ \E z \in B : L = {z} /\ z.req = 0 /\ z.hi = lo /\ n.lo = z.lo
        /\ \/ n.hi = hi /\ R = {}
           \/ \E z \in B : R = {z} /\ z.req = 0 /\ z.lo = hi /\ n.hi = z.hi
  BY P!CoalesceCloses, Assumptions
<1>2. P!Sound(C, t) /\ P!Held(C) = P!Held(B)
  BY P!CoalesceIsSound, Assumptions
<1> HIDE DEF C, L, R
<1>3. n \in C
  BY <1>1
<1>4. /\ n.lo \in Nat /\ n.hi \in Nat /\ n.lo + 16 <= n.hi /\ 16 <= n.lo /\ n.hi <= t
      /\ n.lo % 8 = 0 /\ n.hi % 8 = 0 /\ t \in Nat /\ t % 8 = 0 /\ t >= 16
      /\ lo \in Nat /\ hi \in Nat
  BY <1>2, <1>3, SoundFacts, HoleFacts
<1>5. \A x \in C \ {n} : x \in B /\ (x.hi <= n.lo \/ n.hi <= x.lo)
  BY <1>1, <1>2, <1>3, SoundFacts
<1> DEFINE m1 == Tag(m, n.lo, Word(n))
           r1 == IF NextFit /\ n.lo < r /\ r < n.hi THEN n.lo ELSE r
<1>6. coalesce(Heap(m, t, listp, r), lo) = [heap |-> Heap(m1, t, listp, r1), bp |-> n.lo]
  <2> DEFINE prev  == PREV_BLKP(m, lo)
             next  == NEXT_BLKP(m, lo)
             first == IF GET_ALLOC(m[FTRP(m, prev)]) = 0 THEN prev ELSE lo
             past  == IF GET_ALLOC(m[HDRP(next)]) = 0 THEN NEXT_BLKP(m, next) ELSE next
  <2>1. first = n.lo
    BY <1>1, LooksBack DEF L
  <2>2. next = hi
    <3>1. hi - lo \in Nat /\ (hi - lo) % 8 = 0
      BY HoleFacts
    <3>2. GET_SIZE(hi - lo) = hi - lo
      BY <3>1, WordHolds
    <3> QED
      BY <1>4, <3>2 DEF NEXT_BLKP, Tagged
  <2>3. past = n.hi
    BY <1>1, <2>2, LooksAhead DEF R
  <2>4. PACK(past - first, 0) = Word(n)
    BY <1>1, <1>4, <2>1, <2>3 DEF Word
  <2> DEFINE h == Heap(m, t, listp, r)
  <2>5. coalesce(h, lo) =
          [heap |-> [h EXCEPT !.mem = Tag(@, first, PACK(past - first, 0)),
                              !.rover = IF NextFit /\ first < @ /\ @ < past THEN first ELSE @],
           bp   |-> first]
    BY DEF coalesce, Heap
  <2> HIDE DEF first, past
  <2>6. coalesce(h, lo) =
          [heap |-> [h EXCEPT !.mem = m1, !.rover = r1], bp |-> n.lo]
    BY <2>1, <2>3, <2>4, <2>5 DEF Heap
  <2> HIDE DEF m1, r1, h
  <2>7. [h EXCEPT !.mem = m1, !.rover = r1] = Heap(m1, t, listp, r1)
    <3>1. h = Heap(m, t, listp, r)
      BY DEF h
    <3>2. [h EXCEPT !.mem = m1] = Heap(m1, t, listp, r)
      BY <3>1, HeapMem
    <3>3. [Heap(m1, t, listp, r) EXCEPT !.rover = r1] = Heap(m1, t, listp, r1)
      BY HeapRover
    <3>4. [h EXCEPT !.mem = m1, !.rover = r1] = [[h EXCEPT !.mem = m1] EXCEPT !.rover = r1]
      OBVIOUS
    <3> QED
      BY <3>2, <3>3, <3>4
  <2>8. coalesce(h, lo) = [heap |-> Heap(m1, t, listp, r1), bp |-> n.lo]
    BY <2>6, <2>7
  <2> QED
    BY <2>8 DEF h
<1>7. Stores(m1, t, C) /\ Keeps(m, m1, C)
  <2>1. Stores(m, t, C \ {n})
    BY <1>5 DEF Stores
  <2>2. C \cup {n} = C
    BY <1>3
  <2>3. Stores(m1, t, C \cup {n}) /\ Keeps(m, m1, C)
    BY <1>2, <1>3, <2>1, TagStores
  <2> HIDE DEF m1
  <2> QED
    BY <2>2, <2>3
<1> HIDE DEF m1
<1>8. Keeps(m, m1, P!Held(B))
  BY <1>2, <1>7 DEF Keeps, P!Held
<1>9. RoverIn(r1, C)
  <2>1. CASE ~NextFit
    BY <2>1 DEF RoverIn
  <2>2. CASE NextFit /\ r = 8
    BY <1>4, <2>2 DEF RoverIn
  <2>3. CASE NextFit /\ r = lo
    <3>1. r1 = n.lo
      BY <1>1, <1>4, <2>3, HoleFacts
    <3> QED
      BY <1>3, <2>3, <3>1 DEF RoverIn
  <2>4. ASSUME NextFit, NEW x \in B, x.lo = r PROVE RoverIn(r1, C)
    <3>1. x.lo \in Nat /\ x.hi \in Nat /\ x.lo + 16 <= x.hi
      BY HoleFacts
    <3>2. CASE x \in L
      <4>1. r1 = n.lo
        BY <1>1, <1>4, <2>4, <3>1, <3>2
      <4> QED
        BY <1>3, <2>4, <4>1 DEF RoverIn
    <3>3. CASE x \in R
      <4>1. x.lo = hi /\ x.hi = n.hi
        BY <1>1, <3>3
      <4>2. r1 = n.lo
        BY <1>1, <1>4, <2>4, <3>1, <4>1, HoleFacts
      <4> QED
        BY <1>3, <2>4, <4>2 DEF RoverIn
    <3>4. CASE x \notin L \cup R
      <4>1. x \in C
        BY <1>1, <3>4
      <4>2. r1 = r
        BY <1>4, <1>5, <2>4, <3>1, <4>1
      <4> QED
        BY <2>4, <4>1, <4>2 DEF RoverIn
    <3> QED
      BY <3>2, <3>3, <3>4
  <2> HIDE DEF r1
  <2> QED
    BY <2>1, <2>2, <2>3, <2>4 DEF RoverIn
<1> HIDE DEF r1
<1> QED
  BY <1>1, <1>3, <1>6, <1>7, <1>8, <1>9 DEF C

-----------------------------------------------------------------------------
\* What place makes of the block b: all of it, or two blocks.
LEMMA PlaceIs ==
  ASSUME NEW B, NEW t, P!Sound(B, t),
         NEW asize \in Nat, asize >= 16, asize % 8 = 0,
         NEW size \in Nat, size > 0, asize >= size + 4,
         NEW b \in P!Fits(B, asize)
  PROVE  /\ P!Sound(P!Place(B, b, asize, size), t)
         /\ b \in B /\ b.req = 0 /\ b.hi - b.lo >= asize
         /\ \E u : /\ u.lo = b.lo /\ u.req = size
                 /\ \/ /\ b.hi - b.lo - asize < 16 /\ u.hi = b.hi
                       /\ P!Place(B, b, asize, size) = (B \ {b}) \cup {u}
                    \/ /\ b.hi - b.lo - asize >= 16 /\ u.hi = b.lo + asize
                       /\ \E n : /\ n.lo = u.hi /\ n.hi = b.hi /\ n.req = 0
                               /\ P!Place(B, b, asize, size) = (B \ {b}) \cup {u, n}
<1>1. b \in B /\ b.req = 0 /\ b.hi - b.lo >= asize
  BY DEF P!Fits, P!Length
<1>2. /\ b.lo \in Nat /\ b.hi \in Nat /\ b.lo + 16 <= b.hi
      /\ \A x \in B : x.lo \in Nat /\ x.hi \in Nat /\ x.lo + 16 <= x.hi
      /\ \A x \in B : x = b \/ x.hi <= b.lo \/ b.hi <= x.lo
      /\ \A x \in B : x.req = 0 => x.lo # b.hi
  BY <1>1, SoundFacts
<1>3. P!Sound(P!Place(B, b, asize, size), t)
  BY P!PlaceIsSound, Assumptions DEF P!MINBLOCK, P!HEADER
<1>4. CASE b.hi - b.lo - asize < 16
  <2> DEFINE u == [b EXCEPT !.req = size]
  <2>1. P!Place(B, b, asize, size) = (B \ {b}) \cup {u}
    BY <1>2, <1>4 DEF P!Place, P!Length, P!MINBLOCK
  <2>2. b \in P!Block
    BY <1>1, SoundFacts
  <2>3. u.lo = b.lo /\ u.req = size /\ u.hi = b.hi
    BY <2>2 DEF P!Block
  <2> HIDE DEF u
  <2> QED
    BY <1>1, <1>3, <1>4, <2>1, <2>3
<1>5. CASE b.hi - b.lo - asize >= 16
  <2> DEFINE u == [lo |-> b.lo, hi |-> b.lo + asize, req |-> size]
             n == [lo |-> b.lo + asize, hi |-> b.hi, req |-> 0]
             C == (B \ {b}) \cup {u}
  <2>1. P!Place(B, b, asize, size) = P!Coalesce(C, b.lo + asize, b.hi)
    BY <1>5 DEF P!Place, P!Length, P!MINBLOCK
  <2>2. u.lo = b.lo /\ u.req = size /\ u.hi = b.lo + asize
    OBVIOUS
  <2>3. n.lo = b.lo + asize /\ n.hi = b.hi /\ n.req = 0
    OBVIOUS
  <2> HIDE DEF u
  <2>4. P!Left(C, b.lo + asize) = {}
    <3> SUFFICES ASSUME NEW x \in C, x.req = 0, x.hi = b.lo + asize PROVE FALSE
      BY DEF P!Left
    <3>1. x # u
      BY <2>2
    <3>2. x \in B /\ x # b
      BY <3>1
    <3> QED
      BY <1>1, <1>2, <1>5, <3>2
  <2>5. P!Right(C, b.hi) = {}
    <3> SUFFICES ASSUME NEW x \in C, x.req = 0, x.lo = b.hi PROVE FALSE
      BY DEF P!Right
    <3>1. x # u
      BY <2>2
    <3> QED
      BY <1>2, <3>1
  <2>6. P!Coalesce(C, b.lo + asize, b.hi) = C \cup {n}
    <3> HIDE DEF C
    <3> QED
      BY <2>4, <2>5 DEF P!Coalesce
  <2> HIDE DEF n
  <2>7. P!Place(B, b, asize, size) = (B \ {b}) \cup {u, n}
    BY <2>1, <2>6
  <2> QED
    BY <1>1, <1>3, <1>5, <2>2, <2>3, <2>7
<1> QED
  BY <1>1, <1>2, <1>4, <1>5

\* The client of the blocks B is given the block at ptr of the blocks C.
Hands(B, C, size, ptr) ==
  \E u \in C : /\ u.lo = ptr /\ u.req = size /\ u \notin B /\ size + 8 <= u.hi - u.lo
              /\ P!Held(C) = P!Held(B) \cup {u}

\* place stores the blocks BlockHeap carves.
LEMMA PlaceStores ==
  ASSUME NEW B, NEW t, P!Sound(B, t), NEW m, Stores(m, t, B),
         NEW asize \in Nat, asize >= 16, asize % 8 = 0,
         NEW size \in Nat, size > 0, asize >= size + 8,
         NEW b \in P!Fits(B, asize)
  PROVE  /\ P!Sound(P!Place(B, b, asize, size), t)
         /\ Stores(place(m, b.lo, asize), t, P!Place(B, b, asize, size))
         /\ Keeps(m, place(m, b.lo, asize), P!Held(B))
         /\ \A x \in B : \E y \in P!Place(B, b, asize, size) : y.lo = x.lo
         /\ Hands(B, P!Place(B, b, asize, size), size, b.lo)
<1> DEFINE C  == P!Place(B, b, asize, size)
           m1 == place(m, b.lo, asize)
<1>1. /\ P!Sound(C, t) /\ b \in B /\ b.req = 0 /\ b.hi - b.lo >= asize
      /\ \E u : /\ u.lo = b.lo /\ u.req = size
              /\ \/ /\ b.hi - b.lo - asize < 16 /\ u.hi = b.hi
                    /\ C = (B \ {b}) \cup {u}
                 \/ /\ b.hi - b.lo - asize >= 16 /\ u.hi = b.lo + asize
                    /\ \E n : /\ n.lo = u.hi /\ n.hi = b.hi /\ n.req = 0
                            /\ C = (B \ {b}) \cup {u, n}
  <2>1. asize >= size + 4
    OBVIOUS
  <2> QED
    BY <2>1, PlaceIs
<1> HIDE DEF C
<1>2. PICK u : /\ u.lo = b.lo /\ u.req = size
               /\ \/ /\ b.hi - b.lo - asize < 16 /\ u.hi = b.hi
                     /\ C = (B \ {b}) \cup {u}
                  \/ /\ b.hi - b.lo - asize >= 16 /\ u.hi = b.lo + asize
                     /\ \E n : /\ n.lo = u.hi /\ n.hi = b.hi /\ n.req = 0
                             /\ C = (B \ {b}) \cup {u, n}
  BY <1>1
<1>3. /\ b.lo \in Nat /\ b.hi \in Nat /\ b.lo + 16 <= b.hi
      /\ b.lo % 8 = 0 /\ b.hi % 8 = 0
      /\ \A x \in B : x.lo \in Nat /\ x.hi \in Nat /\ x.lo + 16 <= x.hi
      /\ \A x \in B : x = b \/ x.hi <= b.lo \/ b.hi <= x.lo
  BY <1>1, SoundFacts
<1>4. u \in C /\ u \notin B /\ u.hi - u.lo >= asize
  BY <1>1, <1>2, <1>3
<1>5. GET_SIZE(m[b.lo - 4]) = b.hi - b.lo
  <2>1. m[b.lo - 4] = Word(b)
    BY <1>1 DEF Stores, Tagged
  <2> QED
    BY <1>3, <2>1, WordIs
<1>6. \A x \in P!Held(B) : x \in C /\ x \in B /\ x # b
  BY <1>1, <1>2 DEF P!Held
<1>7. \A x \in B : \E y \in C : y.lo = x.lo
  BY <1>1, <1>2
<1>8. P!Held(C) = P!Held(B) \cup {u}
  <2>1. u.req > 0 /\ ~(b.req > 0)
    BY <1>1, <1>2
  <2> QED
    BY <1>2, <2>1 DEF P!Held
<1>9. Stores(m, t, B \ {b})
  BY DEF Stores
<1>10. ASSUME b.hi - b.lo - asize < 16, u.hi = b.hi, C = (B \ {b}) \cup {u}
       PROVE  Stores(m1, t, C) /\ Keeps(m, m1, C)
  <2>1. Word(u) = (b.hi - b.lo) + 1
    BY <1>2, <1>3, <1>10 DEF Word
  <2>2. m1 = Tag(m, u.lo, Word(u))
    BY <1>2, <1>3, <1>5, <1>10, <2>1 DEF place
  <2> DEFINE S == B \ {b}
  <2>3. S \in SUBSET C /\ S \ {u} = S /\ S \cup {u} = C
    BY <1>4, <1>10
  <2>4. Stores(m, t, S)
    BY <1>9
  <2> HIDE DEF S, m1
  <2>5. Stores(m, t, S \ {u})
    BY <2>3, <2>4
  <2>6. Stores(Tag(m, u.lo, Word(u)), t, S \cup {u}) /\ Keeps(m, Tag(m, u.lo, Word(u)), C)
    BY <1>1, <1>4, <2>3, <2>5, TagStores
  <2> QED
    BY <2>2, <2>3, <2>6
<1>11. ASSUME b.hi - b.lo - asize >= 16, u.hi = b.lo + asize,
              NEW n, n.lo = u.hi, n.hi = b.hi, n.req = 0, C = (B \ {b}) \cup {u, n}
       PROVE  Stores(m1, t, C) /\ Keeps(m, m1, C)
  <2> DEFINE m2 == Tag(m, u.lo, Word(u))
  <2>1. Word(u) = asize + 1 /\ Word(n) = b.hi - b.lo - asize
    BY <1>2, <1>3, <1>11 DEF Word
  <2>2. m1 = Tag(m2, n.lo, Word(n))
    BY <1>2, <1>3, <1>5, <1>11, <2>1 DEF place
  <2>3. n \notin B /\ n # u /\ n \in C
    BY <1>1, <1>2, <1>3, <1>11
  <2> HIDE DEF m1, m2
  <2>4. Stores(m2, t, (B \ {b}) \cup {u}) /\ Keeps(m, m2, C)
    <3>1. (B \ {b}) \ {u} = B \ {b}
      BY <1>4
    <3>2. Stores(m, t, (B \ {b}) \ {u})
      BY <1>9, <3>1
    <3>3. (B \ {b}) \in SUBSET C
      BY <1>11
    <3> QED
      BY <1>1, <1>4, <3>2, <3>3, TagStores DEF m2
  <2> DEFINE S == (B \ {b}) \cup {u}
  <2>5. S \in SUBSET C /\ S \ {n} = S /\ S \cup {n} = C
    BY <1>11, <2>3
  <2> HIDE DEF S
  <2>6. Stores(m2, t, S \ {n})
    BY <2>4, <2>5 DEF S
  <2>7. Stores(Tag(m2, n.lo, Word(n)), t, S \cup {n}) /\ Keeps(m2, Tag(m2, n.lo, Word(n)), C)
    BY <1>1, <2>3, <2>5, <2>6, TagStores
  <2>8. Keeps(m, m1, C)
    BY <2>2, <2>4, <2>7 DEF Keeps
  <2> QED
    BY <2>2, <2>5, <2>7, <2>8
<1> HIDE DEF m1
<1>12. Stores(m1, t, C) /\ Keeps(m, m1, C)
  BY <1>2, <1>10, <1>11
<1>13. Keeps(m, m1, P!Held(B))
  BY <1>6, <1>12 DEF Keeps
<1>14. size + 8 <= u.hi - u.lo
  <2>1. u.hi \in Nat /\ u.lo \in Nat
    BY <1>1, <1>4, SoundFacts
  <2> QED
    BY <1>4, <2>1
<1>15. Hands(B, C, size, b.lo)
  BY <1>2, <1>4, <1>8, <1>14 DEF Hands
<1> QED
  BY <1>1, <1>7, <1>12, <1>13, <1>15 DEF C, m1

\* extend_heap asks for the bytes BlockHeap grows by.
LEMMA ExtendSizeIs ==
  ASSUME NEW asize \in Nat, asize % 8 = 0
  PROVE  /\ ExtendSize(asize) = IF asize > CHUNKSIZE THEN asize ELSE CHUNKSIZE
         /\ ExtendSize(asize) \in Nat /\ ExtendSize(asize) >= 16 /\ ExtendSize(asize) % 8 = 0
<1> DEFINE n == IF asize > CHUNKSIZE THEN asize ELSE CHUNKSIZE
<1>1. n \in Nat /\ n >= 16 /\ n % 8 = 0
  BY ChunkAssumption
<1>2. ExtendSize(asize) = 4 * (IF (n \div 4) % 2 = 1 THEN (n \div 4) + 1 ELSE n \div 4)
  BY DEF ExtendSize
<1> HIDE DEF n
<1>3. (n \div 4) % 2 = 0 /\ 4 * (n \div 4) = n
  BY <1>1
<1>4. ExtendSize(asize) = n
  BY <1>2, <1>3
<1> QED
  BY <1>1, <1>4 DEF n

LEMMA PutIs ==
  ASSUME NEW D, NEW m \in [D -> Nat], NEW e \in D, NEW word \in Nat
  PROVE  /\ [m EXCEPT ![e] = word] \in [D -> Nat]
         /\ [m EXCEPT ![e] = word][e] = word
         /\ \A a \in D : a # e => [m EXCEPT ![e] = word][a] = m[a]
OBVIOUS

\* The memory extend_heap leaves to coalesce: the old words, the two tags of
\* the new block, the new epilogue.
MoreWords(m, t, more)  == [a \in WordsBelow(t + more) |-> IF a < t THEN m[a] ELSE Junk]
MoreMemory(m, t, more) == [Tag(MoreWords(m, t, more), t, more) EXCEPT ![t + more - 4] = 1]

LEMMA MoreMemoryIs ==
  ASSUME NEW t \in Nat, t >= 16, t % 8 = 0, NEW m \in [WordsBelow(t) -> Nat],
         NEW more \in Nat, more >= 16, more % 8 = 0
  PROVE  /\ MoreMemory(m, t, more) \in [WordsBelow(t + more) -> Nat]
         /\ MoreMemory(m, t, more)[t - 4] = more
         /\ MoreMemory(m, t, more)[t + more - 8] = more
         /\ MoreMemory(m, t, more)[t + more - 4] = 1
         /\ \A a \in WordsBelow(t) : a # t - 4 => MoreMemory(m, t, more)[a] = m[a]
         /\ NEXT_BLKP(Tag(MoreWords(m, t, more), t, more), t) = t + more
<1> DEFINE D  == WordsBelow(t + more)
           m0 == MoreWords(m, t, more)
           m1 == Tag(m0, t, more)
           m2 == MoreMemory(m, t, more)
           e  == t + more - 4
<1>1. \A a : a \in WordsBelow(t) <=> a \in Nat /\ a % 4 = 0 /\ a < t
  BY WordsBelowIs
<1>2. \A a : a \in D <=> a \in Nat /\ a % 4 = 0 /\ a < t + more
  <2>1. t + more \in Nat /\ (t + more) % 8 = 0
    OBVIOUS
  <2> QED
    BY <2>1, WordsBelowIs
<1>3. m0 \in [D -> Nat] /\ \A a \in WordsBelow(t) : m0[a] = m[a]
  <2>1. \A a \in D : (IF a < t THEN m[a] ELSE Junk) \in Nat
    BY <1>1, <1>2, WordsAssumption
  <2>2. \A a \in WordsBelow(t) : a \in D /\ a < t
    BY <1>1, <1>2
  <2>3. m0 = [a \in D |-> IF a < t THEN m[a] ELSE Junk]
    BY DEF MoreWords
  <2> HIDE DEF m0, D
  <2> QED
    BY <2>1, <2>2, <2>3
<1>4. t - 4 \in D /\ t + more - 8 \in D /\ e \in D
  BY <1>1, <1>2
<1>5. GET_SIZE(more) = more
  BY WordHolds
<1> HIDE DEF m0, D
<1>6. /\ m1 \in [D -> Nat]
      /\ \A a \in D : m1[a] = IF a = t - 4 \/ a = t + GET_SIZE(more) - 8 THEN more ELSE m0[a]
  <2>1. more \in Nat /\ t - 4 \in D /\ m0 \in [D -> Nat]
    BY <1>3, <1>4
  <2> QED
    BY <2>1, TagIs
<1> HIDE DEF m1
<1>7. m1[t - 4] = more /\ m1[t + more - 8] = more
  BY <1>4, <1>5, <1>6
<1>8. NEXT_BLKP(m1, t) = t + more
  BY <1>5, <1>7 DEF NEXT_BLKP
<1>9. m2 = [m1 EXCEPT ![e] = 1]
  BY DEF MoreMemory, m1, m0
<1>10. t - 4 # e /\ t + more - 8 # e
       /\ \A a \in WordsBelow(t) : a \in D /\ a # e /\ a # t + more - 8
  BY <1>1, <1>2
<1> HIDE DEF m2, e
<1>11. m2 \in [D -> Nat] /\ m2[e] = 1 /\ \A a \in D : a # e => m2[a] = m1[a]
  BY <1>4, <1>6, <1>9, PutIs
<1>12. m2[t - 4] = more /\ m2[t + more - 8] = more
  BY <1>4, <1>7, <1>10, <1>11
<1>13. \A a \in WordsBelow(t) : a # t - 4 => m2[a] = m[a]
  BY <1>3, <1>5, <1>6, <1>10, <1>11
<1> QED
  BY <1>8, <1>11, <1>12, <1>13 DEF m2, m1, m0, e, D

LEMMA ExtendIs ==
  ASSUME NEW t \in Nat, t >= 16, t % 8 = 0, NEW m \in [WordsBelow(t) -> Nat],
         NEW asize \in Nat, asize % 8 = 0, NEW listp, NEW r
  PROVE  LET more == ExtendSize(asize)
         IN  extend_heap(Heap(m, t, listp, r), asize)
               = coalesce(Heap(MoreMemory(m, t, more), t + more, listp, r), t)
<1> DEFINE h     == Heap(m, t, listp, r)
           more  == ExtendSize(asize)
           m0    == MoreWords(m, t, more)
           m2    == MoreMemory(m, t, more)
           grown == mem_sbrk(h, more)
           m1    == Tag(grown.mem, t, PACK(more, 0))
           m3    == [m1 EXCEPT ![HDRP(NEXT_BLKP(m1, t))] = PACK(0, 1)]
<1>1. more \in Nat /\ more >= 16 /\ more % 8 = 0
  BY ExtendSizeIs
<1>2. h.mem = m /\ h.brk = t
  BY DEF Heap
<1>3. extend_heap(h, asize) = coalesce([grown EXCEPT !.mem = m3], t)
  BY <1>2 DEF extend_heap
<1>4. grown = [h EXCEPT !.mem = m0, !.brk = t + more]
  BY <1>2 DEF mem_sbrk, MoreWords
<1> HIDE DEF more, m0
<1>5. grown = Heap(m0, t + more, listp, r)
  <2>1. h = Heap(m, t, listp, r)
    OBVIOUS
  <2> HIDE DEF h, grown
  <2>2. [h EXCEPT !.mem = m0] = Heap(m0, t, listp, r)
    BY <2>1, HeapMem
  <2>3. [Heap(m0, t, listp, r) EXCEPT !.brk = t + more] = Heap(m0, t + more, listp, r)
    BY HeapBrk
  <2>4. [h EXCEPT !.mem = m0, !.brk = t + more] = [[h EXCEPT !.mem = m0] EXCEPT !.brk = t + more]
    OBVIOUS
  <2> QED
    BY <1>4, <2>2, <2>3, <2>4
<1> HIDE DEF h, grown
<1>6. grown.mem = m0
  BY <1>5 DEF Heap
<1>7. m3 = m2
  <2>1. NEXT_BLKP(Tag(m0, t, more), t) = t + more
    BY <1>1, MoreMemoryIs DEF m0
  <2>2. m1 = Tag(m0, t, more)
    BY <1>1, <1>6
  <2>3. m2 = [Tag(m0, t, more) EXCEPT ![t + more - 4] = 1]
    BY DEF MoreMemory, m0
  <2> HIDE DEF m2, m1, m0
  <2>4. m3 = [m1 EXCEPT ![t + more - 4] = 1]
    <3>1. HDRP(NEXT_BLKP(m1, t)) = t + more - 4 /\ PACK(0, 1) = 1
      BY <1>1, <2>1, <2>2
    <3> QED
      BY <3>1
  <2> HIDE DEF m3
  <2> QED
    BY <2>2, <2>3, <2>4
<1> HIDE DEF m2, m3
<1>8. [grown EXCEPT !.mem = m3] = Heap(m2, t + more, listp, r)
  BY <1>5, <1>7, HeapMem
<1> QED
  BY <1>3, <1>8 DEF h, more, m2

\* What extend_heap makes of the heap of the blocks B: memory m1, rover r1, and
\* the free block n.
Extended(m, t, listp, r, B, asize, m1, r1, n) ==
  LET more == ExtendSize(asize)
      C    == P!Grown(B, t, more)
  IN  /\ extend_heap(Heap(m, t, listp, r), asize)
           = [heap |-> Heap(m1, t + more, listp, r1), bp |-> n.lo]
      /\ n \in C /\ n.req = 0 /\ n.hi - n.lo >= more
      /\ Stores(m1, t + more, C)
      /\ Keeps(m, m1, P!Held(B))
      /\ RoverIn(r1, C)

LEMMA ExtendStores ==
  ASSUME NEW B, NEW t, P!Sound(B, t), NEW m, Stores(m, t, B),
         NEW listp, NEW r, RoverIn(r, B), NEW asize \in Nat, asize % 8 = 0
  PROVE  /\ P!Sound(P!Grown(B, t, ExtendSize(asize)), t + ExtendSize(asize))
         /\ P!Held(P!Grown(B, t, ExtendSize(asize))) = P!Held(B)
         /\ \E m1, r1, n : Extended(m, t, listp, r, B, asize, m1, r1, n)
<1> DEFINE more  == ExtendSize(asize)
           C     == P!Grown(B, t, more)
           h     == Heap(m, t, listp, r)
           m2    == MoreMemory(m, t, more)
<1>1. more \in Nat /\ more >= 16 /\ more % 8 = 0
  BY ExtendSizeIs
<1>2. /\ t \in Nat /\ t >= 16 /\ t % 8 = 0 /\ m \in [WordsBelow(t) -> Nat]
      /\ \A x \in B : /\ x.lo \in Nat /\ x.hi \in Nat /\ 16 <= x.lo /\ x.lo + 16 <= x.hi
                      /\ x.hi <= t /\ x.lo % 8 = 0 /\ x.hi % 8 = 0
  BY SoundFacts DEF Stores
<1>3. extend_heap(h, asize) = coalesce(Heap(m2, t + more, listp, r), t)
  BY <1>2, ExtendIs
<1> HIDE DEF more
<1>4. /\ m2 \in [WordsBelow(t + more) -> Nat]
      /\ m2[t - 4] = more /\ m2[t + more - 8] = more /\ m2[t + more - 4] = 1
      /\ \A a \in WordsBelow(t) : a # t - 4 => m2[a] = m[a]
  <2>1. t \in Nat /\ t >= 16 /\ t % 8 = 0 /\ m \in [WordsBelow(t) -> Nat]
    BY <1>2
  <2>2. more \in Nat /\ more >= 16 /\ more % 8 = 0
    BY <1>1
  <2> HIDE DEF C, h
  <2>3. m2 \in [WordsBelow(t + more) -> Nat]
    BY <2>1, <2>2, MoreMemoryIs
  <2>4. m2[t - 4] = more
    BY <2>1, <2>2, MoreMemoryIs
  <2>5. m2[t + more - 8] = more
    BY <2>1, <2>2, MoreMemoryIs
  <2>6. m2[t + more - 4] = 1
    BY <2>1, <2>2, MoreMemoryIs
  <2>7. \A a \in WordsBelow(t) : a # t - 4 => m2[a] = m[a]
    BY <2>1, <2>2, MoreMemoryIs
  <2> QED
    BY <2>3, <2>4, <2>5, <2>6, <2>7
<1> HIDE DEF m2
<1>5. Stores(m2, t + more, B)
  <2>1. 4 \in WordsBelow(t) /\ 8 \in WordsBelow(t) /\ 4 # t - 4 /\ 8 # t - 4
    BY <1>2, WordsBelowIs
  <2>2. m[4] = 9 /\ m[8] = 9
    BY DEF Stores
  <2>3. \A x \in B : Tagged(m2, x.lo, x.hi, Word(x))
    <3> SUFFICES ASSUME NEW x \in B PROVE Tagged(m2, x.lo, x.hi, Word(x))
      OBVIOUS
    <3>1. x.lo - 4 \in WordsBelow(t) /\ x.hi - 8 \in WordsBelow(t)
      BY TagsApart
    <3>2. x.lo - 4 # t - 4 /\ x.hi - 8 # t - 4
      BY <1>2
    <3>3. Tagged(m, x.lo, x.hi, Word(x))
      BY DEF Stores
    <3> QED
      BY <1>4, <3>1, <3>2, <3>3 DEF Tagged
  <2>4. m2[4] = 9 /\ m2[8] = 9
    BY <1>4, <2>1, <2>2
  <2> DEFINE t1 == t + more
  <2>5. m2 \in [WordsBelow(t1) -> Nat] /\ m2[t1 - 4] = 1
    BY <1>1, <1>2, <1>4
  <2> HIDE DEF t1
  <2>6. Stores(m2, t1, B)
    BY <2>3, <2>4, <2>5 DEF Stores
  <2> QED
    BY <2>6 DEF t1
<1>6. P!Hole(B, t, t + more, t + more)
  BY <1>1, P!GrowthOpens, Assumptions DEF P!MINBLOCK
<1>7. Tagged(m2, t, t + more, (t + more) - t)
  BY <1>1, <1>2, <1>4 DEF Tagged
<1>8. C = P!Coalesce(B, t, t + more)
  BY <1>1 DEF P!Grown
<1>9. P!Sound(C, t + more) /\ P!Held(C) = P!Held(B)
  BY <1>6, <1>8, P!CoalesceIsSound, Assumptions
<1>10. PICK m3, r1 : \E n \in P!Coalesce(B, t, t + more) :
           /\ coalesce(Heap(m2, t + more, listp, r), t)
                = [heap |-> Heap(m3, t + more, listp, r1), bp |-> n.lo]
           /\ n.req = 0 /\ n.lo <= t /\ t + more <= n.hi
           /\ Stores(m3, t + more, P!Coalesce(B, t, t + more))
           /\ Keeps(m2, m3, P!Held(B))
           /\ RoverIn(r1, P!Coalesce(B, t, t + more))
  <2> DEFINE t1 == t + more
  <2>1. /\ Stores(m2, t1, B) /\ P!Hole(B, t, t1, t1) /\ Tagged(m2, t, t1, t1 - t)
    BY <1>5, <1>6, <1>7
  <2> HIDE DEF t1, h, C
  <2>2. \E m3, r1 : \E n \in P!Coalesce(B, t, t1) :
           /\ coalesce(Heap(m2, t1, listp, r), t)
                = [heap |-> Heap(m3, t1, listp, r1), bp |-> n.lo]
           /\ n.req = 0 /\ n.lo <= t /\ t1 <= n.hi
           /\ Stores(m3, t1, P!Coalesce(B, t, t1))
           /\ Keeps(m2, m3, P!Held(B))
           /\ RoverIn(r1, P!Coalesce(B, t, t1))
    BY <2>1, CoalesceStores
  <2> QED
    BY <2>2 DEF t1
<1>11. PICK n \in C :
           /\ extend_heap(h, asize) = [heap |-> Heap(m3, t + more, listp, r1), bp |-> n.lo]
           /\ n.req = 0 /\ n.lo <= t /\ t + more <= n.hi
  <2> HIDE DEF h
  <2> QED
    BY <1>3, <1>4, <1>8, <1>10
<1>12. Stores(m3, t + more, C) /\ Keeps(m2, m3, P!Held(B)) /\ RoverIn(r1, C)
  BY <1>8, <1>10
<1>13. n.hi - n.lo >= more
  <2>1. n.lo \in Nat /\ n.hi \in Nat
    BY <1>9, SoundFacts
  <2> QED
    BY <1>1, <1>2, <1>11, <2>1
<1>14. Keeps(m, m3, P!Held(B))
  <2> SUFFICES ASSUME NEW x \in P!Held(B), NEW a \in Payload(x) PROVE m3[a] = m[a]
    BY DEF Keeps
  <2>1. x \in B
    BY DEF P!Held
  <2>2. a \in Nat /\ a % 4 = 0 /\ a <= x.hi - 12
    BY DEF Payload
  <2>3. a \in WordsBelow(t) /\ a # t - 4
    BY <1>2, <2>1, <2>2, WordsBelowIs
  <2>4. m2[a] = m[a]
    BY <1>4, <2>3
  <2> QED
    BY <1>12, <2>4 DEF Keeps
<1>15. Extended(m, t, listp, r, B, asize, m3, r1, n)
  BY <1>11, <1>12, <1>13, <1>14 DEF Extended, h, C, more
<1> QED
  BY <1>9, <1>15 DEF C, more

-----------------------------------------------------------------------------
\* The block pointers of the heap, the prologue's and the epilogue's included.
Nodes(B, t) == {8} \cup {x.lo : x \in B} \cup {t}

\* The set w[n] is what is met in n rounds that go on from the points of go to
\* nx of them.
Rounds(w, K, Pts, go, nx) ==
  \A n \in 1 .. K : w[n - 1] \in SUBSET Pts =>
    \A y : y \in w[n] <=> y \in w[n - 1] \/ \E q \in w[n - 1] : q \in go /\ y = nx[q]

Leads(Pts, go, nx, p) ==
  /\ \A q \in go : nx[q] \in Pts /\ nx[q] >= q
  /\ \A q \in Pts : q > p => \E r \in go : r >= p /\ r + 8 <= q /\ nx[r] = q

Walks(w, m, bp) ==
  /\ w[0] = {bp}
  /\ \A n \in 1 .. MaxHeap \div 8 :
       \A y : y \in w[n] <=>
         \E q \in w[n - 1] : y = q \/ (GET_SIZE(m[q - 4]) > 0 /\ y = NEXT_BLKP(m, q))

LEMMA WalkReaches ==
  ASSUME NEW Pts \in SUBSET Nat, NEW go \in SUBSET Pts, NEW nx, NEW K \in Nat,
         NEW p \in Pts, NEW w, w[0] = {p}, Rounds(w, K, Pts, go, nx),
         Leads(Pts, go, nx, p), \A q \in Pts : q <= p + 8 * K
  PROVE  \A y : y \in w[K] <=> y \in Pts /\ y >= p
<1> DEFINE Near(n) == {q \in Pts : q >= p /\ q <= p + 8 * n}
           S == {n \in Nat : n <= K => /\ w[n] \in SUBSET {q \in Pts : q >= p}
                                       /\ Near(n) \subseteq w[n]}
<1>1. 0 \in S
  <2>1. \A q \in Near(0) : q = p
    OBVIOUS
  <2>2. p \in Pts /\ p >= p
    OBVIOUS
  <2> HIDE DEF Near
  <2> QED
    BY <2>1, <2>2
<1>2. \A n \in Nat : n \in S => n + 1 \in S
  <2> SUFFICES ASSUME NEW n \in Nat, n \in S, n + 1 <= K
               PROVE  /\ w[n + 1] \in SUBSET {q \in Pts : q >= p}
                      /\ Near(n + 1) \subseteq w[n + 1]
    OBVIOUS
  <2>1. w[n] \in SUBSET {q \in Pts : q >= p} /\ Near(n) \subseteq w[n]
    OBVIOUS
  <2>2. n + 1 \in 1 .. K /\ (n + 1) - 1 = n
    OBVIOUS
  <2>3. \A y : y \in w[n + 1] <=> y \in w[n] \/ \E q \in w[n] : q \in go /\ y = nx[q]
    <3>1. \A k \in 1 .. K : k - 1 = n =>
            \A y : y \in w[k] <=> y \in w[n] \/ \E q \in w[n] : q \in go /\ y = nx[q]
      BY <2>1 DEF Rounds
    <3> QED
      BY <2>2, <3>1
  <2>4. w[n + 1] \in SUBSET {q \in Pts : q >= p}
    <3>1. ASSUME NEW q \in w[n], q \in go PROVE nx[q] \in Pts /\ nx[q] >= p
      <4>1. nx[q] \in Pts /\ nx[q] >= q
        BY <3>1 DEF Leads
      <4>2. q \in Pts /\ q >= p
        BY <2>1
      <4>3. q \in Nat /\ p \in Nat /\ nx[q] \in Nat
        BY <4>1, <4>2
      <4> HIDE DEF S, Near
      <4> QED
        BY <4>1, <4>2, <4>3
    <3> QED
      BY <2>1, <2>3, <3>1
  <2>5. ASSUME NEW q \in Near(n + 1) PROVE q \in w[n + 1]
    <3>1. CASE q = p
      <4>1. p \in Near(n)
        <5>1. p \in Pts /\ p \in Nat /\ p >= p /\ p <= p + 8 * n
          OBVIOUS
        <5> HIDE DEF S
        <5> QED
          BY <5>1
      <4> HIDE DEF Near
      <4> QED
        BY <2>1, <2>3, <3>1, <4>1
    <3>2. CASE q # p
      <4>0. q \in Pts /\ q \in Nat /\ p \in Nat /\ q >= p /\ q <= p + 8 * (n + 1)
        BY <2>5
      <4> HIDE DEF S
      <4>1. q \in Pts /\ q > p /\ q <= p + 8 * (n + 1)
        BY <3>2, <4>0
      <4>2. PICK r \in go : r >= p /\ r + 8 <= q /\ nx[r] = q
        BY <4>1 DEF Leads
      <4>3. r \in Near(n)
        <5>1. r \in Pts /\ r \in Nat
          OBVIOUS
        <5>2. r <= p + 8 * n
          BY <4>0, <4>2, <5>1
        <5> QED
          BY <4>2, <5>1, <5>2
      <4> HIDE DEF Near
      <4> QED
        BY <2>1, <2>3, <4>2, <4>3
    <3> QED
      BY <3>1, <3>2
  <2> HIDE DEF Near
  <2> QED
    BY <2>4, <2>5
<1>3. Nat \subseteq S
  <2> HIDE DEF S
  <2> QED
    BY <1>1, <1>2, Inductive
<1>4. w[K] \in SUBSET {q \in Pts : q >= p} /\ Near(K) \subseteq w[K]
  BY <1>3
<1>5. \A q \in Pts : q >= p => q \in Near(K)
  OBVIOUS
<1> HIDE DEF Near
<1> QED
  BY <1>4, <1>5

\* The walk of find_fit and of checkheap, round by round.
LEMMA FromIs ==
  ASSUME NEW m, NEW bp
  PROVE  \E w : Walks(w, m, bp) /\ From(m, bp) = w[MaxHeap \div 8]
<1> DEFINE K == MaxHeap \div 8
           Round(W) == UNION {IF GET_SIZE(m[q - 4]) > 0 THEN {q, NEXT_BLKP(m, q)} ELSE {q}
                              : q \in W}
           Recurs(g, k) == g = [n \in 0 .. k |-> IF n = 0 THEN {bp} ELSE Round(g[n - 1])]
           f == CHOOSE g : Recurs(g, K)
           S == {k \in Nat : \E g : Recurs(g, k)}
<1>0. K \in Nat
  BY WordsAssumption
<1>1. From(m, bp) = f[K]
  BY DEF From
<1> HIDE DEF K, Round, f, Recurs
<1>2. 0 \in S
  <2> DEFINE g == [n \in 0 .. 0 |-> {bp}]
  <2>1. g = [n \in 0 .. 0 |-> IF n = 0 THEN {bp} ELSE Round(g[n - 1])]
    OBVIOUS
  <2> HIDE DEF g
  <2>2. Recurs(g, 0)
    BY <2>1 DEF Recurs
  <2> QED
    BY <2>2
<1>3. \A k \in Nat : k \in S => k + 1 \in S
  <2> SUFFICES ASSUME NEW k \in Nat, k \in S PROVE \E h : Recurs(h, k + 1)
    OBVIOUS
  <2>0. PICK g : Recurs(g, k)
    OBVIOUS
  <2> DEFINE h == [n \in 0 .. k + 1 |-> IF n <= k THEN g[n] ELSE Round(g[k])]
  <2>1. \A n \in 0 .. k : g[n] = IF n = 0 THEN {bp} ELSE Round(g[n - 1])
    BY <2>0 DEF Recurs
  <2>2. \A n \in 0 .. k + 1 : h[n] = IF n = 0 THEN {bp} ELSE Round(h[n - 1])
    <3> SUFFICES ASSUME NEW n \in 0 .. k + 1
                 PROVE  h[n] = IF n = 0 THEN {bp} ELSE Round(h[n - 1])
      OBVIOUS
    <3>1. CASE n = 0
      BY <2>1, <3>1
    <3>2. CASE n \in 1 .. k
      <4>1. n \in 0 .. k + 1 /\ n - 1 \in 0 .. k + 1 /\ n <= k /\ n - 1 <= k
        BY <3>2
      <4>2. h[n] = g[n] /\ h[n - 1] = g[n - 1]
        BY <4>1
      <4>3. n \in 0 .. k /\ n # 0
        BY <3>2
      <4> HIDE DEF h
      <4> QED
        BY <2>1, <4>2, <4>3
    <3>3. CASE n = k + 1
      <4>1. h[n] = Round(g[k]) /\ h[n - 1] = g[k]
        BY <3>3
      <4> QED
        BY <3>3, <4>1
    <3> QED
      BY <3>1, <3>2, <3>3
  <2>3. h = [n \in 0 .. k + 1 |-> h[n]]
    OBVIOUS
  <2> HIDE DEF h
  <2>4. Recurs(h, k + 1)
    BY <2>2, <2>3 DEF Recurs
  <2> QED
    BY <2>4
<1>4. \E g : Recurs(g, K)
  <2>1. Nat \subseteq S
    <3> HIDE DEF S
    <3> QED
      BY <1>2, <1>3, Inductive
  <2> QED
    BY <1>0, <2>1
<1>5. Recurs(f, K)
  BY <1>4 DEF f
<1>6. \A n \in 0 .. K : f[n] = IF n = 0 THEN {bp} ELSE Round(f[n - 1])
  BY <1>5 DEF Recurs
<1>7. f[0] = {bp} /\ \A n \in 1 .. K : f[n] = Round(f[n - 1])
  BY <1>0, <1>6
<1>8. \A W : \A y : y \in Round(W) <=>
        \E q \in W : y = q \/ (GET_SIZE(m[q - 4]) > 0 /\ y = NEXT_BLKP(m, q))
  BY DEF Round
<1> QED
  BY <1>1, <1>7, <1>8 DEF K, Walks

\* From a block pointer the walk goes to the next, up to the epilogue.
LEMMA NodesAre ==
  ASSUME NEW B, NEW t, P!Sound(B, t), NEW m, Stores(m, t, B)
  PROVE  /\ Nodes(B, t) \subseteq Nat
         /\ \A q \in Nodes(B, t) : 8 <= q /\ q <= t
         /\ GET_SIZE(m[t - 4]) = 0 /\ GET_ALLOC(m[t - 4]) = 1
         /\ GET_SIZE(m[4]) = 8 /\ GET_ALLOC(m[4]) = 1
         /\ NEXT_BLKP(m, 8) = 16 /\ 16 \in Nodes(B, t)
         /\ \A x \in B : /\ NEXT_BLKP(m, x.lo) = x.hi /\ x.hi \in Nodes(B, t)
                         /\ GET_SIZE(m[x.lo - 4]) = x.hi - x.lo
                         /\ GET_ALLOC(m[x.lo - 4]) = 0 <=> x.req = 0
<1>1. /\ t \in Nat /\ t >= 16
      /\ \A x \in B : /\ x.lo \in Nat /\ x.hi \in Nat /\ 16 <= x.lo /\ x.lo + 16 <= x.hi
                      /\ x.hi <= t /\ x.lo % 8 = 0 /\ x.hi % 8 = 0
      /\ \A x \in B : x.hi = t \/ \E y \in B : y.lo = x.hi
      /\ t > 16 => \E x \in B : x.lo = 16
  BY SoundFacts
<1>2. Nodes(B, t) \subseteq Nat /\ \A q \in Nodes(B, t) : 8 <= q /\ q <= t
  BY <1>1 DEF Nodes
<1>3. m[4] = 9 /\ m[t - 4] = 1
  BY DEF Stores
<1>4. GET_SIZE(9) = 8 /\ GET_ALLOC(9) = 1 /\ GET_SIZE(1) = 0 /\ GET_ALLOC(1) = 1
  BY DEF GET_SIZE, GET_ALLOC
<1>5. NEXT_BLKP(m, 8) = 16
  BY <1>3, <1>4 DEF NEXT_BLKP
<1>6. 16 \in Nodes(B, t)
  BY <1>1 DEF Nodes
<1>7. ASSUME NEW x \in B
      PROVE  /\ NEXT_BLKP(m, x.lo) = x.hi /\ x.hi \in Nodes(B, t)
             /\ GET_SIZE(m[x.lo - 4]) = x.hi - x.lo
             /\ GET_ALLOC(m[x.lo - 4]) = 0 <=> x.req = 0
  <2>1. m[x.lo - 4] = Word(x)
    BY DEF Stores, Tagged
  <2>2. GET_SIZE(Word(x)) = x.hi - x.lo /\ (GET_ALLOC(Word(x)) = 0 <=> x.req = 0)
    BY <1>1, WordIs
  <2>3. NEXT_BLKP(m, x.lo) = x.hi
    BY <1>1, <2>1, <2>2 DEF NEXT_BLKP
  <2>4. x.hi \in Nodes(B, t)
    BY <1>1 DEF Nodes
  <2> QED
    BY <2>1, <2>2, <2>3, <2>4
<1> QED
  BY <1>2, <1>3, <1>4, <1>5, <1>6, <1>7

LEMMA NodesFollow ==
  ASSUME NEW B, NEW t, P!Sound(B, t), NEW m, Stores(m, t, B),
         NEW p \in Nodes(B, t), NEW q \in Nodes(B, t), q > p
  PROVE  \E r \in Nodes(B, t) : r # t /\ r >= p /\ r + 8 <= q /\ NEXT_BLKP(m, r) = q
<1>1. /\ t \in Nat /\ t >= 16
      /\ \A x \in B : /\ x.lo \in Nat /\ x.hi \in Nat /\ 16 <= x.lo /\ x.lo + 16 <= x.hi
                      /\ x.hi <= t
      /\ \A x, y \in B : x = y \/ x.hi <= y.lo \/ y.hi <= x.lo
      /\ \A x \in B : x.hi = t \/ \E y \in B : y.lo = x.hi
      /\ t > 16 => \E x \in B : x.lo = 16
  BY SoundFacts
<1>2. p \in Nat /\ q \in Nat /\ p >= 8 /\ q <= t /\ NEXT_BLKP(m, 8) = 16
      /\ \A x \in B : NEXT_BLKP(m, x.lo) = x.hi
  BY NodesAre
<1>3. q >= 16
  BY <1>1, <1>2 DEF Nodes
<1>4. CASE q = 16
  <2>1. p = 8
    BY <1>1, <1>2, <1>4 DEF Nodes
  <2>2. 8 \in Nodes(B, t) /\ 8 # t /\ 8 >= p /\ 8 + 8 <= q
    BY <1>1, <1>4, <2>1 DEF Nodes
  <2> QED
    BY <1>2, <1>4, <2>2
<1>5. CASE q # 16
  <2>1. q > 16 /\ t > 16
    BY <1>1, <1>2, <1>3, <1>5
  <2>2. \A x \in B : x.hi <= q \/ q <= x.lo
    BY <1>1, <2>1 DEF Nodes
  <2>3. \A x \in B : x.hi < q => \E y \in B : y.lo = x.hi
    BY <1>1, <1>2
  <2>4. \E x \in B : x.lo = 16
    BY <1>1, <2>1
  <2>5. \A x \in B : x.lo \in Nat /\ x.hi \in Nat /\ x.lo < x.hi
    BY <1>1
  <2>6. PICK x \in B : x.hi = q
    BY <1>2, <2>1, <2>2, <2>3, <2>4, <2>5, EndsAt
  <2>7. x.lo >= p
    BY <1>1, <1>2, <2>6 DEF Nodes
  <2>8. x.lo \in Nodes(B, t) /\ x.lo # t /\ x.lo + 8 <= q
    BY <1>1, <2>6 DEF Nodes
  <2> QED
    BY <1>2, <2>6, <2>7, <2>8
<1> QED
  BY <1>4, <1>5

\* A walk meets every block pointer from its start on, and no other address.
LEMMA FromNodes ==
  ASSUME NEW B, NEW t, P!Sound(B, t), t <= MaxHeap, NEW m, Stores(m, t, B),
         NEW p \in Nodes(B, t)
  PROVE  \A y : y \in From(m, p) <=> y \in Nodes(B, t) /\ y >= p
<1> DEFINE Pts == Nodes(B, t)
           go  == Pts \ {t}
           nx  == [q \in Pts |-> NEXT_BLKP(m, q)]
           K   == MaxHeap \div 8
<1>1. PICK w : Walks(w, m, p) /\ From(m, p) = w[K]
  BY FromIs
<1>2. Pts \in SUBSET Nat /\ go \in SUBSET Pts /\ K \in Nat /\ t \in Nat
  BY NodesAre, WordsAssumption, SoundFacts
<1>3. ASSUME NEW q \in Pts
      PROVE  /\ GET_SIZE(m[q - 4]) > 0 <=> q \in go
             /\ q \in go => nx[q] \in Pts /\ nx[q] >= q
  <2>1. CASE q = t
    BY <2>1, NodesAre
  <2>2. CASE q # t /\ q = 8
    BY <2>2, NodesAre
  <2>3. CASE q # t /\ q # 8
    <3>1. PICK x \in B : q = x.lo
      BY <2>3 DEF Nodes
    <3>2. x.lo \in Nat /\ x.hi \in Nat /\ x.lo + 16 <= x.hi
      BY SoundFacts
    <3>3. NEXT_BLKP(m, x.lo) = x.hi /\ x.hi \in Pts /\ GET_SIZE(m[x.lo - 4]) = x.hi - x.lo
      BY NodesAre
    <3> QED
      BY <2>3, <3>1, <3>2, <3>3
  <2> QED
    BY <2>1, <2>2, <2>3
<1>4. \A q \in Pts : q > p => \E r \in go : r >= p /\ r + 8 <= q /\ nx[r] = q
  BY NodesFollow
<1>5. \A q \in Pts : q <= p + 8 * K
  BY <1>2, NodesAre, WordsAssumption
<1> HIDE DEF Pts, K
<1>6. ASSUME NEW n \in 1 .. K, w[n - 1] \in SUBSET Pts, NEW y
      PROVE  y \in w[n] <=> y \in w[n - 1] \/ \E q \in w[n - 1] : q \in go /\ y = nx[q]
  <2>1. \A q \in w[n - 1] : /\ q \in Pts /\ (GET_SIZE(m[q - 4]) > 0 <=> q \in go)
                           /\ nx[q] = NEXT_BLKP(m, q)
    BY <1>3, <1>6
  <2> HIDE DEF nx, go
  <2> QED
    BY <1>1, <2>1 DEF Walks, K
<1>7. \A y : y \in w[K] <=> y \in Pts /\ y >= p
  <2>1. \A q \in go : nx[q] \in Pts /\ nx[q] >= q
    BY <1>3
  <2>2. p \in Pts
    BY DEF Pts
  <2> HIDE DEF nx, go
  <2>3. w[0] = {p}
    BY <1>1 DEF Walks
  <2>4. Rounds(w, K, Pts, go, nx)
    BY <1>6 DEF Rounds
  <2>5. Leads(Pts, go, nx, p)
    BY <1>4, <2>1 DEF Leads
  <2> QED
    BY <1>2, <1>5, <2>2, <2>3, <2>4, <2>5, WalkReaches
<1> QED
  BY <1>1, <1>7 DEF Pts

\* What find_fit takes for a fit is a free block that is large enough.
LEMMA FittingIs ==
  ASSUME NEW B, NEW t, P!Sound(B, t), NEW m, Stores(m, t, B),
         NEW bps, \A y \in bps : y \in Nodes(B, t), NEW asize \in Nat, asize > 0
  PROVE  /\ \A y \in Fitting(m, bps, asize) :
              y \in bps /\ \E x \in P!Fits(B, asize) : y = x.lo
         /\ \A x \in P!Fits(B, asize) : x.lo \in bps => x.lo \in Fitting(m, bps, asize)
<1>1. ASSUME NEW y \in Fitting(m, bps, asize)
      PROVE  y \in bps /\ \E x \in P!Fits(B, asize) : y = x.lo
  <2>1. y \in bps /\ GET_ALLOC(m[y - 4]) = 0 /\ asize <= GET_SIZE(m[y - 4])
    BY DEF Fitting
  <2>2. y # 8 /\ y # t
    BY <2>1, NodesAre
  <2>3. PICK x \in B : y = x.lo
    BY <2>1, <2>2 DEF Nodes
  <2>4. x.req = 0 /\ asize <= x.hi - x.lo
    BY <2>1, <2>3, NodesAre
  <2>5. x.hi - x.lo >= asize
    <3>1. x.hi \in Nat /\ x.lo \in Nat
      BY SoundFacts
    <3> QED
      BY <2>4, <3>1
  <2>6. x \in P!Fits(B, asize)
    BY <2>4, <2>5 DEF P!Fits, P!Length
  <2> QED
    BY <2>1, <2>3, <2>6
<1>2. ASSUME NEW x \in P!Fits(B, asize), x.lo \in bps
      PROVE  x.lo \in Fitting(m, bps, asize)
  <2>1. x \in B /\ x.req = 0 /\ x.hi - x.lo >= asize
    BY DEF P!Fits, P!Length
  <2>2. GET_SIZE(m[x.lo - 4]) = x.hi - x.lo /\ GET_ALLOC(m[x.lo - 4]) = 0
    BY <2>1, NodesAre
  <2>3. x.hi \in Nat /\ x.lo \in Nat
    BY <2>1, SoundFacts
  <2>4. asize <= GET_SIZE(m[x.lo - 4])
    BY <2>1, <2>2, <2>3
  <2> QED
    BY <1>2, <2>2, <2>4 DEF Fitting
<1> QED
  BY <1>1, <1>2

LEMMA LeastOf ==
  ASSUME NEW T, T # {}, \A y \in T : y \in Nat
  PROVE  Min(T) \in T /\ \A y \in T : Min(T) <= y
<1>1. T \in SUBSET Nat
  OBVIOUS
<1> QED
  BY <1>1, LeastNumber

\* find_fit finds a free block that is large enough, unless there is none.
LEMMA FindFit ==
  ASSUME NEW B, NEW t, P!Sound(B, t), t <= MaxHeap, NEW m, Stores(m, t, B),
         NEW r, RoverIn(r, B), NEW listp, NEW asize \in Nat, asize > 0
  PROVE  LET f == find_fit(Heap(m, t, listp, r), asize)
         IN  /\ RoverIn(f.rover, B)
             /\ \/ f.bp = NULL /\ P!Fits(B, asize) = {}
                \/ \E b \in P!Fits(B, asize) : f.bp = b.lo
<1> DEFINE h      == Heap(m, t, listp, r)
           f      == find_fit(h, asize)
           all    == From(m, heap_listp)
           fits   == Fitting(m, all, asize)
           ahead  == Fitting(m, From(m, r), asize)
           behind == {bp \in fits : bp < r}
           rest   == {bp \in all : bp >= r}
           F      == P!Fits(B, asize)
           At(bp) == [bp |-> bp, rover |-> IF NextFit THEN bp ELSE r]
<1>1. h.mem = m /\ h.rover = r
  BY DEF Heap
<1>2. f = IF ~NextFit
          THEN IF fits = {} THEN [bp |-> NULL, rover |-> r] ELSE At(Min(fits))
          ELSE IF ahead # {} THEN At(Min(ahead))
          ELSE IF behind # {} THEN At(Min(behind))
          ELSE [bp |-> NULL, rover |-> Min(rest)]
  BY <1>1 DEF find_fit
<1>3. \A q \in Nodes(B, t) : q \in Nat /\ 8 <= q
  BY NodesAre
<1>4. \A y : y \in all <=> y \in Nodes(B, t)
  <2>1. 8 \in Nodes(B, t)
    BY DEF Nodes
  <2>2. \A y : y \in From(m, 8) <=> y \in Nodes(B, t) /\ y >= 8
    BY <2>1, FromNodes
  <2> QED
    BY <1>3, <2>2
<1>5. /\ \A y \in fits : y \in Nat /\ \E x \in F : y = x.lo
      /\ \A x \in F : x.lo \in fits /\ x \in B
  <2>1. \A x \in F : x \in B /\ x.lo \in Nodes(B, t)
    BY DEF P!Fits, Nodes
  <2> HIDE DEF all
  <2>2. /\ \A y \in fits : y \in all /\ \E x \in F : y = x.lo
        /\ \A x \in F : x.lo \in all => x.lo \in fits
    BY <1>4, FittingIs
  <2> QED
    BY <1>3, <1>4, <2>1, <2>2
<1> HIDE DEF fits, ahead, all, h, F, f
<1>6. ASSUME NEW b \in F, f = At(b.lo), NextFit \/ r = NULL
      PROVE  RoverIn(f.rover, B) /\ f.bp = b.lo
  <2>1. b \in B
    BY <1>5
  <2>2. f.bp = b.lo /\ f.rover = IF NextFit THEN b.lo ELSE r
    BY <1>6
  <2> QED
    BY <1>6, <2>1, <2>2 DEF RoverIn
<1>7. ASSUME ~NextFit
      PROVE  RoverIn(f.rover, B) /\ ((f.bp = NULL /\ F = {}) \/ \E b \in F : f.bp = b.lo)
  <2>1. r = NULL
    BY <1>7 DEF RoverIn
  <2>2. CASE fits = {}
    <3>1. f.bp = NULL /\ f.rover = r
      BY <1>2, <1>7, <2>2
    <3>2. F = {}
      BY <1>5, <2>2
    <3> QED
      BY <1>7, <2>1, <3>1, <3>2 DEF RoverIn
  <2>3. CASE fits # {}
    <3>1. Min(fits) \in fits
      BY <1>5, <2>3, LeastOf
    <3>2. PICK b \in F : Min(fits) = b.lo
      BY <1>5, <3>1
    <3>3. f = At(b.lo)
      BY <1>2, <1>7, <2>3, <3>2
    <3> QED
      BY <1>6, <2>1, <3>3
  <2> QED
    BY <2>2, <2>3
<1>8. ASSUME NextFit
      PROVE  RoverIn(f.rover, B) /\ ((f.bp = NULL /\ F = {}) \/ \E b \in F : f.bp = b.lo)
  <2>1. r \in Nodes(B, t) /\ r \in Nat
    BY <1>3, <1>8 DEF RoverIn, Nodes
  <2>2. \A y : y \in From(m, r) <=> y \in Nodes(B, t) /\ y >= r
    BY <2>1, FromNodes
  <2>3. /\ \A y \in ahead : y \in Nat /\ \E x \in F : y = x.lo
        /\ \A x \in F : x.lo >= r => x.lo \in ahead
    <3> DEFINE bps == From(m, r)
    <3>1. \A y \in bps : y \in Nodes(B, t)
      BY <2>2
    <3>2. \A x \in F : x.lo \in Nodes(B, t)
      BY DEF P!Fits, Nodes, F
    <3>3. \A x \in F : x.lo >= r => x.lo \in bps
      BY <2>2, <3>2
    <3>4. ahead = Fitting(m, bps, asize)
      BY DEF ahead
    <3> HIDE DEF bps
    <3>5. /\ \A y \in Fitting(m, bps, asize) : y \in bps /\ \E x \in P!Fits(B, asize) : y = x.lo
          /\ \A x \in P!Fits(B, asize) : x.lo \in bps => x.lo \in Fitting(m, bps, asize)
      BY <3>1, FittingIs
    <3> QED
      BY <1>3, <3>1, <3>3, <3>4, <3>5 DEF F
  <2>4. CASE ahead # {}
    <3>1. Min(ahead) \in ahead
      BY <2>3, <2>4, LeastOf
    <3>2. PICK b \in F : Min(ahead) = b.lo
      BY <2>3, <3>1
    <3>3. f = At(b.lo)
      BY <1>2, <1>8, <2>4, <3>2
    <3> QED
      BY <1>6, <1>8, <3>3
  <2>5. CASE ahead = {} /\ behind # {}
    <3>1. Min(behind) \in behind
      <4>1. \A y \in behind : y \in Nat
        BY <1>5
      <4> QED
        BY <2>5, <4>1, LeastOf
    <3>2. PICK b \in F : Min(behind) = b.lo
      BY <1>5, <3>1
    <3>3. f = At(b.lo)
      BY <1>2, <1>8, <2>5, <3>2
    <3> QED
      BY <1>6, <1>8, <3>3
  <2>6. CASE ahead = {} /\ behind = {}
    <3>1. f.bp = NULL /\ f.rover = Min(rest)
      BY <1>2, <1>8, <2>6
    <3>2. ASSUME NEW x \in F PROVE FALSE
      <4>1. x.lo \in fits /\ x.lo \in Nat
        BY <1>5
      <4>2. x.lo >= r \/ x.lo < r
        BY <2>1, <4>1
      <4> QED
        BY <2>3, <2>6, <4>1, <4>2
    <3>3. \A y \in rest : y \in Nat /\ y >= r
      BY <1>3, <1>4
    <3>4. r \in rest
      BY <1>4, <2>1
    <3> HIDE DEF rest
    <3>5. Min(rest) \in rest /\ Min(rest) <= r
      BY <3>3, <3>4, LeastOf
    <3>6. Min(rest) = r
      BY <2>1, <3>3, <3>5
    <3> QED
      BY <3>1, <3>2, <3>6
  <2> QED
    BY <2>4, <2>5, <2>6
<1>9. RoverIn(f.rover, B) /\ ((f.bp = NULL /\ F = {}) \/ \E b \in F : f.bp = b.lo)
  BY <1>7, <1>8
<1> QED
  BY <1>9 DEF f, F, h

-----------------------------------------------------------------------------
\* Every block the client holds has room for the header, the size it asked
\* for, and the footer.
Roomy(B) == \A x \in B : x.req > 0 => x.req + 8 <= x.hi - x.lo

\* The heap of memory m, break t and rover r is that of the blocks B.
Rep(m, t, r, B) ==
  P!Sound(B, t) /\ t <= MaxHeap /\ Roomy(B) /\ Stores(m, t, B) /\ RoverIn(r, B)

\* A call of malloc served a request for size with the block at ptr.
Served(B, t, B1, t1, size, ptr) ==
  LET asize == AdjustedSize(size)
      more  == P!Growth(B, asize)
  IN  /\ t1 = t + more
      /\ \E b \in P!Fits(P!Grown(B, t, more), asize) :
           B1 = P!Place(P!Grown(B, t, more), b, asize, size)
      /\ Hands(P!Grown(B, t, more), B1, size, ptr)
      /\ P!Held(P!Grown(B, t, more)) = P!Held(B)

\* What a call of malloc may come to: nothing, or a step of BlockHeap.
Outcome(o, m, t, listp, B, size) ==
  \/ o.ptr = NULL /\ \E r1 : o.heap = Heap(m, t, listp, r1) /\ Rep(m, t, r1, B)
  \/ \E m1, t1, r1, B1 :
       /\ o.heap = Heap(m1, t1, listp, r1) /\ Rep(m1, t1, r1, B1)
       /\ Keeps(m, m1, P!Held(B))
       /\ Served(B, t, B1, t1, size, o.ptr)

LEMMA AdjustedSizeIs ==
  ASSUME NEW n \in Nat, n > 0
  PROVE  /\ AdjustedSize(n) \in Nat /\ AdjustedSize(n) >= 16 /\ AdjustedSize(n) % 8 = 0
         /\ AdjustedSize(n) >= n + 8
BY DEF AdjustedSize

\* A free block of a sound heap, placed.
LEMMA PlaceRep ==
  ASSUME NEW B, NEW t, NEW m, NEW r, Rep(m, t, r, B), NEW size \in Nat, size > 0,
         NEW b \in P!Fits(B, AdjustedSize(size))
  PROVE  /\ Rep(place(m, b.lo, AdjustedSize(size)), t, r, P!Place(B, b, AdjustedSize(size), size))
         /\ Keeps(m, place(m, b.lo, AdjustedSize(size)), P!Held(B))
         /\ Hands(B, P!Place(B, b, AdjustedSize(size), size), size, b.lo)
<1> DEFINE asize == AdjustedSize(size)
           C     == P!Place(B, b, asize, size)
           m1    == place(m, b.lo, asize)
<1>1. asize \in Nat /\ asize >= 16 /\ asize % 8 = 0 /\ asize >= size + 8
  BY AdjustedSizeIs
<1> HIDE DEF asize
<1>2. b \in P!Fits(B, asize)
  BY DEF asize
<1>3. P!Sound(B, t) /\ t <= MaxHeap /\ Roomy(B) /\ Stores(m, t, B) /\ RoverIn(r, B)
  BY DEF Rep
<1>4. /\ P!Sound(C, t)
      /\ Stores(m1, t, C)
      /\ Keeps(m, m1, P!Held(B))
      /\ \A x \in B : \E y \in C : y.lo = x.lo
      /\ Hands(B, C, size, b.lo)
  BY <1>1, <1>2, <1>3, PlaceStores
<1> HIDE DEF C, m1
<1>5. PICK u \in C : /\ u.lo = b.lo /\ u.req = size /\ size + 8 <= u.hi - u.lo
                     /\ P!Held(C) = P!Held(B) \cup {u}
  BY <1>4 DEF Hands
<1>6. Roomy(C)
  <2> SUFFICES ASSUME NEW x \in C, x.req > 0 PROVE x.req + 8 <= x.hi - x.lo
    BY DEF Roomy
  <2>1. x = u \/ x \in B
    BY <1>5 DEF P!Held
  <2> QED
    BY <1>3, <1>5, <2>1 DEF Roomy
<1>7. RoverIn(r, C)
  BY <1>3, <1>4 DEF RoverIn
<1> QED
  BY <1>3, <1>4, <1>6, <1>7 DEF Rep, C, m1, asize

\* A heap grown by extend_heap.
LEMMA ExtendRep ==
  ASSUME NEW B, NEW t, NEW m, NEW r, Rep(m, t, r, B), NEW listp,
         NEW asize \in Nat, asize % 8 = 0, asize > 0, t + ExtendSize(asize) <= MaxHeap
  PROVE  \E m1, r1, n :
           /\ Extended(m, t, listp, r, B, asize, m1, r1, n)
           /\ n \in P!Fits(P!Grown(B, t, ExtendSize(asize)), asize)
           /\ Rep(m1, t + ExtendSize(asize), r1, P!Grown(B, t, ExtendSize(asize)))
           /\ P!Held(P!Grown(B, t, ExtendSize(asize))) = P!Held(B)
<1> DEFINE more == ExtendSize(asize)
           C    == P!Grown(B, t, more)
           h    == Heap(m, t, listp, r)
<1>1. P!Sound(B, t) /\ t <= MaxHeap /\ Roomy(B) /\ Stores(m, t, B) /\ RoverIn(r, B)
  BY DEF Rep
<1>2. P!Sound(C, t + more) /\ P!Held(C) = P!Held(B)
  BY <1>1, ExtendStores
<1>3. PICK m1, r1, n : Extended(m, t, listp, r, B, asize, m1, r1, n)
  BY <1>1, ExtendStores
<1>4. more \in Nat /\ more >= asize
  BY ExtendSizeIs, ChunkAssumption
<1>5. t + more <= MaxHeap
  OBVIOUS
<1>6. n \in C /\ n.req = 0 /\ n.hi - n.lo >= more
  BY <1>3 DEF Extended
<1>7. Stores(m1, t + more, C) /\ RoverIn(r1, C)
  BY <1>3 DEF Extended
<1> HIDE DEF more, C, h
<1>8. n \in P!Fits(C, asize)
  <2>1. n.hi \in Nat /\ n.lo \in Nat
    BY <1>2, <1>6, SoundFacts
  <2>2. n.hi - n.lo >= asize
    BY <1>4, <1>6, <2>1
  <2> QED
    BY <1>6, <2>2 DEF P!Fits, P!Length
<1>9. Roomy(C)
  <2>1. \A x \in C : x.req > 0 => x \in B
    BY <1>2 DEF P!Held
  <2> QED
    BY <1>1, <2>1 DEF Roomy
<1>10. Rep(m1, t + more, r1, C)
  BY <1>2, <1>5, <1>7, <1>9 DEF Rep
<1> QED
  BY <1>2, <1>3, <1>8, <1>10 DEF more, C

\* A block of the heap C, which is the heap B or B grown, serves the request.
LEMMA BlockServes ==
  ASSUME NEW B, NEW t, NEW C, NEW t1, NEW m, NEW m1, NEW r1, NEW listp,
         NEW size \in Nat, size > 0, Rep(m1, t1, r1, C),
         Keeps(m, m1, P!Held(B)), P!Held(C) = P!Held(B),
         NEW more, more = P!Growth(B, AdjustedSize(size)),
         t1 = t + more, C = P!Grown(B, t, more),
         NEW b \in P!Fits(C, AdjustedSize(size)),
         NEW o, o.ptr = b.lo,
         o.heap = Heap(place(m1, b.lo, AdjustedSize(size)), t1, listp, r1)
  PROVE  Outcome(o, m, t, listp, B, size)
<1> DEFINE asize == AdjustedSize(size)
           m2 == place(m1, b.lo, asize)
           B1 == P!Place(C, b, asize, size)
<1>1. Rep(m2, t1, r1, B1) /\ Keeps(m1, m2, P!Held(C)) /\ Hands(C, B1, size, b.lo)
  BY PlaceRep
<1>2. Keeps(m, m2, P!Held(B))
  BY <1>1 DEF Keeps
<1>3. \E bb \in P!Fits(C, asize) : B1 = P!Place(C, bb, asize, size)
  OBVIOUS
<1>4. o.heap = Heap(m2, t1, listp, r1)
  OBVIOUS
<1> HIDE DEF m2, B1
<1>5. Served(B, t, B1, t1, size, o.ptr)
  BY <1>1, <1>3 DEF Served
<1> QED
  BY <1>1, <1>2, <1>4, <1>5 DEF Outcome

\* malloc on an initialised heap.
LEMMA AllocateStores ==
  ASSUME NEW B, NEW t, NEW m, NEW r, Rep(m, t, r, B), NEW listp,
         NEW size \in Nat, size > 0,
         NEW o \in Allocate(Heap(m, t, listp, r), size)
  PROVE  Outcome(o, m, t, listp, B, size)
<1> DEFINE asize == AdjustedSize(size)
           h     == Heap(m, t, listp, r)
           found == find_fit(h, asize)
           g     == [h EXCEPT !.rover = found.rover]
           At(e) == [heap |-> [e.heap EXCEPT !.mem = place(@, e.bp, asize)], ptr |-> e.bp]
<1>1. asize \in Nat /\ asize >= 16 /\ asize % 8 = 0 /\ asize > 0
  BY AdjustedSizeIs
<1>2. P!Sound(B, t) /\ t <= MaxHeap /\ Stores(m, t, B) /\ RoverIn(r, B)
  BY DEF Rep
<1>3. o \in IF found.bp # NULL THEN {At([heap |-> g, bp |-> found.bp])}
            ELSE {[heap |-> g, ptr |-> NULL]} \cup
                 (IF CanGrow(g, ExtendSize(asize)) THEN {At(extend_heap(g, asize))} ELSE {})
  BY DEF Allocate
<1>4. ASSUME NEW e, NEW mm, NEW tt, NEW rr, e.heap = Heap(mm, tt, listp, rr), o = At(e)
      PROVE  o.ptr = e.bp /\ o.heap = Heap(place(mm, e.bp, asize), tt, listp, rr)
  <2> DEFINE hh == Heap(mm, tt, listp, rr)
  <2>1. hh.mem = mm
    BY DEF Heap
  <2>2. [hh EXCEPT !.mem = place(mm, e.bp, asize)] = Heap(place(mm, e.bp, asize), tt, listp, rr)
    BY HeapMem
  <2> HIDE DEF hh, asize
  <2>3. o.ptr = e.bp /\ o.heap = [hh EXCEPT !.mem = place(hh.mem, e.bp, asize)]
    BY <1>4 DEF hh
  <2> QED
    BY <2>1, <2>2, <2>3
<1> HIDE DEF asize, At
<1>5. /\ RoverIn(found.rover, B)
      /\ \/ found.bp = NULL /\ P!Fits(B, asize) = {}
         \/ \E b \in P!Fits(B, asize) : found.bp = b.lo
  BY <1>1, <1>2, FindFit
<1> HIDE DEF found
<1> DEFINE r0 == found.rover
<1>6. g = Heap(m, t, listp, r0)
  BY HeapRover
<1>7. Rep(m, t, r0, B)
  BY <1>5 DEF Rep
<1> HIDE DEF h, g, r0
<1>8. CASE found.bp # NULL
  <2>1. PICK b \in P!Fits(B, asize) : found.bp = b.lo
    BY <1>5, <1>8
  <2>2. P!Growth(B, asize) = 0 /\ P!Grown(B, t, 0) = B
    BY <2>1 DEF P!Growth, P!Grown
  <2>3. t = t + 0
    <3>1. t \in Nat
      BY <1>2, SoundFacts
    <3> QED
      BY <3>1
  <2> DEFINE e == [heap |-> g, bp |-> found.bp]
  <2>4. e.heap = Heap(m, t, listp, r0) /\ e.bp = b.lo /\ o = At(e)
    BY <1>3, <1>6, <1>8, <2>1
  <2> HIDE DEF e
  <2>5. o.ptr = b.lo /\ o.heap = Heap(place(m, b.lo, asize), t, listp, r0)
    BY <1>4, <2>4
  <2>6. Keeps(m, m, P!Held(B))
    BY DEF Keeps
  <2> QED
    BY <1>7, <2>2, <2>3, <2>5, <2>6, BlockServes DEF asize
<1>9. CASE found.bp = NULL /\ o = [heap |-> g, ptr |-> NULL]
  <2>1. o.ptr = NULL /\ o.heap = Heap(m, t, listp, r0)
    BY <1>6, <1>9
  <2> QED
    BY <1>7, <2>1 DEF Outcome
<1>10. CASE /\ found.bp = NULL /\ CanGrow(g, ExtendSize(asize))
            /\ o = At(extend_heap(g, asize))
  <2> DEFINE more == ExtendSize(asize)
             C    == P!Grown(B, t, more)
  <2>1. t + more <= MaxHeap
    <3>1. g.brk = t
      BY <1>6 DEF Heap
    <3> QED
      BY <1>10, <3>1 DEF CanGrow
  <2>2. PICK m1, r1, n :
           /\ Extended(m, t, listp, r0, B, asize, m1, r1, n)
           /\ n \in P!Fits(C, asize)
           /\ Rep(m1, t + more, r1, C)
           /\ P!Held(C) = P!Held(B)
    BY <1>1, <1>7, <2>1, ExtendRep
  <2>3. P!Growth(B, asize) = more
    <3>1. \A b \in P!Fits(B, asize) : b.lo # NULL
      <4>1. \A b \in P!Fits(B, asize) : b \in B
        BY DEF P!Fits
      <4>2. \A b \in B : b.lo \in Nat /\ 16 <= b.lo
        BY <1>2, SoundFacts
      <4> QED
        BY <4>1, <4>2
    <3>2. P!Fits(B, asize) = {}
      BY <1>5, <1>10, <3>1
    <3> QED
      BY <1>1, <3>2, ExtendSizeIs DEF P!Growth
  <2> DEFINE e == extend_heap(g, asize)
  <2>4. e.heap = Heap(m1, t + more, listp, r1) /\ e.bp = n.lo /\ Keeps(m, m1, P!Held(B))
    BY <1>6, <2>2 DEF Extended
  <2>5. o = At(e)
    BY <1>10
  <2> HIDE DEF e, more
  <2>6. o.ptr = n.lo /\ o.heap = Heap(place(m1, n.lo, asize), t + more, listp, r1)
    BY <1>4, <2>4, <2>5
  <2> QED
    BY <2>2, <2>3, <2>4, <2>6, BlockServes DEF asize
<1> QED
  BY <1>3, <1>8, <1>9, <1>10

-----------------------------------------------------------------------------
\* free gives the block back the way BlockHeap does.
LEMMA FreeStores ==
  ASSUME NEW B, NEW t, NEW m, NEW r, Rep(m, t, r, B), NEW listp,
         NEW x \in B, x.req > 0
  PROVE  \E m1, r1 :
           /\ free(Heap(m, t, listp, r), x.lo) = Heap(m1, t, listp, r1)
           /\ Rep(m1, t, r1, P!Release(B, x))
           /\ Keeps(m, m1, P!Held(B) \ {x})
           /\ P!Held(P!Release(B, x)) = P!Held(B) \ {x}
<1> DEFINE S  == B \ {x}
           m2 == Tag(m, x.lo, x.hi - x.lo)
           C  == P!Coalesce(S, x.lo, x.hi)
<1>1. P!Sound(B, t) /\ t <= MaxHeap /\ Roomy(B) /\ Stores(m, t, B) /\ RoverIn(r, B)
  BY DEF Rep
<1>2. /\ x.lo \in Nat /\ x.hi \in Nat /\ x.hi - x.lo \in Nat
      /\ GET_SIZE(x.hi - x.lo) = x.hi - x.lo
  <2>1. x.lo \in Nat /\ x.hi \in Nat /\ x.lo + 16 <= x.hi /\ x.lo % 8 = 0 /\ x.hi % 8 = 0
    BY <1>1, SoundFacts
  <2>2. x.hi - x.lo \in Nat /\ (x.hi - x.lo) % 8 = 0
    BY <2>1
  <2> QED
    BY <2>1, <2>2, WordHolds
<1>3. free(Heap(m, t, listp, r), x.lo) = coalesce(Heap(m2, t, listp, r), x.lo).heap
  <2> DEFINE h == Heap(m, t, listp, r)
  <2>1. h.mem = m
    BY DEF Heap
  <2>2. GET_SIZE(m[x.lo - 4]) = x.hi - x.lo
    BY <1>1, NodesAre
  <2>3. [h EXCEPT !.mem = m2] = Heap(m2, t, listp, r)
    BY HeapMem
  <2> HIDE DEF h
  <2>4. free(h, x.lo) = coalesce([h EXCEPT !.mem = Tag(h.mem, x.lo, x.hi - x.lo)], x.lo).heap
    BY <1>2, <2>1, <2>2 DEF free
  <2> QED
    BY <2>1, <2>3, <2>4 DEF h
<1>4. Stores(m2, t, S) /\ Tagged(m2, x.lo, x.hi, x.hi - x.lo) /\ Keeps(m, m2, B)
  <2>1. S \in SUBSET B /\ x \notin S /\ Stores(m, t, S)
    BY <1>1 DEF Stores
  <2> QED
    BY <1>1, <1>2, <2>1, TagWrites
<1> HIDE DEF m2
<1>5. P!Hole(S, x.lo, x.hi, t)
  BY <1>1, Assumptions, P!ReleaseOpens
<1>6. RoverIn(r, S) \/ (NextFit /\ r = x.lo)
  BY <1>1 DEF RoverIn
<1>7. PICK m1, r1 :
        /\ coalesce(Heap(m2, t, listp, r), x.lo).heap = Heap(m1, t, listp, r1)
        /\ Stores(m1, t, C) /\ Keeps(m2, m1, P!Held(S)) /\ RoverIn(r1, C)
  <2> DEFINE lo == x.lo
             hi == x.hi
  <2>1. /\ P!Hole(S, lo, hi, t) /\ Stores(m2, t, S) /\ Tagged(m2, lo, hi, hi - lo)
        /\ RoverIn(r, S) \/ (NextFit /\ r = lo)
    BY <1>4, <1>5, <1>6
  <2> HIDE DEF S, lo, hi
  <2>2. \E m1, r1 : \E n \in P!Coalesce(S, lo, hi) :
           /\ coalesce(Heap(m2, t, listp, r), lo) = [heap |-> Heap(m1, t, listp, r1), bp |-> n.lo]
           /\ n.req = 0 /\ n.lo <= lo /\ hi <= n.hi
           /\ Stores(m1, t, P!Coalesce(S, lo, hi))
           /\ Keeps(m2, m1, P!Held(S))
           /\ RoverIn(r1, P!Coalesce(S, lo, hi))
    BY <2>1, CoalesceStores
  <2> QED
    BY <2>2 DEF lo, hi
<1>8. P!Sound(C, t) /\ P!Held(C) = P!Held(S)
  BY <1>5, Assumptions, P!CoalesceIsSound
<1>9. P!Held(S) = P!Held(B) \ {x}
  BY DEF P!Held
<1>10. P!Release(B, x) = C
  BY DEF P!Release
<1> HIDE DEF C, S
<1>11. Roomy(C)
  <2>1. \A y \in C : y.req > 0 => y \in B
    BY <1>8, <1>9 DEF P!Held
  <2> QED
    BY <1>1, <2>1 DEF Roomy
<1>12. Keeps(m, m1, P!Held(B) \ {x})
  <2>1. \A y \in P!Held(B) \ {x} : y \in B
    BY DEF P!Held
  <2> QED
    BY <1>4, <1>7, <1>9, <2>1 DEF Keeps
<1>13. Rep(m1, t, r1, C)
  BY <1>1, <1>7, <1>8, <1>11 DEF Rep
<1> QED
  BY <1>3, <1>7, <1>8, <1>9, <1>10, <1>12, <1>13

\* Padding, prologue and epilogue are the heap without blocks.
LEMMA EmptyStores ==
  /\ Rep(EmptyMemory, 16, IF NextFit THEN 8 ELSE NULL, {})
  /\ P!Held({}) = {} /\ P!Grown({}, 16, CHUNKSIZE) = P!FirstHeap.blocks
  /\ P!FirstHeap.top = 16 + CHUNKSIZE /\ ExtendSize(CHUNKSIZE) = CHUNKSIZE
<1>1. P!Sound({}, 16)
  <2>1. P!EmptyHeap \in {P!EmptyHeap, P!FirstHeap}
    OBVIOUS
  <2>2. P!Sound(P!EmptyHeap.blocks, P!EmptyHeap.top)
    BY <2>1, Assumptions, P!FirstHeapsAreSound
  <2>3. P!EmptyHeap.blocks = {} /\ P!EmptyHeap.top = 16
    BY DEF P!EmptyHeap
  <2> QED
    BY <2>2, <2>3
<1>2. 16 <= MaxHeap
  BY WordsAssumption, RoomAssumption, ChunkAssumption
<1>3. Stores(EmptyMemory, 16, {})
  <2>1. 4 \in WordsBelow(16) /\ 8 \in WordsBelow(16) /\ 12 \in WordsBelow(16)
    BY WordsBelowIs
  <2>2. EmptyMemory \in [WordsBelow(16) -> Nat]
    BY DEF EmptyMemory
  <2>3. EmptyMemory[4] = 9 /\ EmptyMemory[8] = 9 /\ EmptyMemory[12] = 1
    BY <2>1 DEF EmptyMemory
  <2> QED
    BY <2>2, <2>3 DEF Stores
<1>4. Roomy({}) /\ RoverIn(IF NextFit THEN 8 ELSE NULL, {})
  BY DEF Roomy, RoverIn
<1>5. P!Grown({}, 16, CHUNKSIZE) = P!FirstHeap.blocks /\ P!FirstHeap.top = 16 + CHUNKSIZE
  BY ChunkAssumption DEF P!Grown, P!FirstHeap
<1>6. ExtendSize(CHUNKSIZE) = CHUNKSIZE
  BY ChunkAssumption, ExtendSizeIs
<1> QED
  BY <1>1, <1>2, <1>3, <1>4, <1>5, <1>6 DEF Rep, P!Held

-----------------------------------------------------------------------------
LEMMA WordAligned ==
  /\ \A n \in Nat : n % 8 = 0 => n % 4 = 0
  /\ \A a, hi \in Nat : a % 4 = 0 /\ hi % 8 = 0 /\ a + 8 < hi => a <= hi - 12
  /\ \A a, p, q \in Nat : a % 4 = 0 /\ p % 4 = 0 /\ q % 4 = 0 /\ p <= a =>
        (a - p) + q \in Nat /\ ((a - p) + q) % 4 = 0
OBVIOUS

\* The words of a region, by address.
LEMMA RegionIs ==
  ASSUME NEW p \in Nat, p % 4 = 0, NEW n \in Nat
  PROVE  /\ \A a : a \in Region(p, n) <=> a \in Nat /\ a % 4 = 0 /\ p <= a /\ a < p + n
         /\ Fields(n) \in Nat /\ \A i \in Nat : i < Fields(n) <=> 4 * i < n
<1>1. Fields(n) \in Nat /\ \A i \in Nat : i < Fields(n) <=> 4 * i < n
  <2>1. Fields(n) = (n + 3) \div 4
    BY DEF Fields
  <2>2. (n + 3) \div 4 \in Nat /\ \A i \in Nat : i < (n + 3) \div 4 <=> 4 * i < n
    OBVIOUS
  <2> QED
    BY <2>1, <2>2
<1>2. ASSUME NEW a \in Region(p, n) PROVE a \in Nat /\ a % 4 = 0 /\ p <= a /\ a < p + n
  <2>1. PICK i \in 0 .. Fields(n) - 1 : a = p + 4 * i
    BY DEF Region
  <2>2. i \in Nat /\ 4 * i < n
    BY <1>1, <2>1
  <2> QED
    BY <2>1, <2>2
<1>3. ASSUME NEW a \in Nat, a % 4 = 0, p <= a, a < p + n PROVE a \in Region(p, n)
  <2>1. PICK i \in Nat : a = p + 4 * i
    <3>1. (a - p) \div 4 \in Nat /\ a = p + 4 * ((a - p) \div 4)
      BY <1>3
    <3> QED
      BY <3>1
  <2>2. i \in 0 .. Fields(n) - 1
    BY <1>1, <1>3, <2>1
  <2> QED
    BY <2>1, <2>2 DEF Region
<1> QED
  BY <1>1, <1>2, <1>3

\* What the client asked for lies between the header and the footer.
LEMMA RegionInside ==
  ASSUME NEW B, NEW t, NEW m, NEW r, Rep(m, t, r, B), NEW u \in P!Held(B),
         NEW n \in Nat, n <= u.req
  PROVE  \A a \in Region(u.lo, n) : a \in Payload(u)
<1>1. /\ u.lo \in Nat /\ u.hi \in Nat /\ u.req \in Nat /\ u.lo % 8 = 0 /\ u.hi % 8 = 0
      /\ u.req + 8 <= u.hi - u.lo
  BY SoundFacts DEF Rep, P!Held, Roomy
<1> SUFFICES ASSUME NEW a \in Region(u.lo, n) PROVE a \in Payload(u)
  OBVIOUS
<1>2. u.lo % 4 = 0
  BY <1>1, WordAligned
<1>3. a \in Nat /\ a % 4 = 0 /\ u.lo <= a /\ a < u.lo + n
  BY <1>1, <1>2, RegionIs
<1>4. a + 8 < u.hi
  BY <1>1, <1>3
<1>5. a <= u.hi - 12
  BY <1>1, <1>3, <1>4, WordAligned
<1> QED
  BY <1>3, <1>5 DEF Payload

\* Whoever writes between the header and the footer of one block leaves the
\* heap, and what the other blocks hold, alone.
LEMMA PayloadApart ==
  ASSUME NEW B, NEW t, NEW m, NEW r, Rep(m, t, r, B), NEW u \in B,
         NEW m1 \in [WordsBelow(t) -> Nat],
         \A a \in WordsBelow(t) : a \notin Payload(u) => m1[a] = m[a]
  PROVE  Rep(m1, t, r, B) /\ Keeps(m, m1, B \ {u})
<1>1. P!Sound(B, t) /\ t <= MaxHeap /\ Roomy(B) /\ Stores(m, t, B) /\ RoverIn(r, B)
  BY DEF Rep
<1>2. /\ t \in Nat /\ t >= 16 /\ t % 8 = 0
      /\ \A x \in B : /\ x.lo \in Nat /\ x.hi \in Nat /\ 16 <= x.lo /\ x.lo + 16 <= x.hi
                      /\ x.hi <= t /\ x.lo % 8 = 0 /\ x.hi % 8 = 0
                      /\ x = u \/ x.hi <= u.lo \/ u.hi <= x.lo
  BY <1>1, SoundFacts
<1>3. \A a \in Payload(u) : a \in Nat /\ u.lo <= a /\ a <= u.hi - 12
  BY DEF Payload
<1>4. m1[4] = 9 /\ m1[8] = 9 /\ m1[t - 4] = 1
  <2>1. 4 \in WordsBelow(t) /\ 8 \in WordsBelow(t) /\ t - 4 \in WordsBelow(t)
    BY <1>2, WordsBelowIs
  <2>2. 4 \notin Payload(u) /\ 8 \notin Payload(u) /\ t - 4 \notin Payload(u)
    BY <1>2, <1>3
  <2> QED
    BY <1>1, <2>1, <2>2 DEF Stores
<1>5. ASSUME NEW x \in B PROVE Tagged(m1, x.lo, x.hi, Word(x))
  <2>1. x.lo - 4 \in WordsBelow(t) /\ x.hi - 8 \in WordsBelow(t)
    BY <1>1, TagsApart
  <2>2. x.lo - 4 \notin Payload(u) /\ x.hi - 8 \notin Payload(u)
    BY <1>2, <1>3
  <2>3. Tagged(m, x.lo, x.hi, Word(x))
    BY <1>1 DEF Stores
  <2> QED
    BY <2>1, <2>2, <2>3 DEF Tagged
<1>6. ASSUME NEW x \in B \ {u}, NEW a \in Payload(x) PROVE m1[a] = m[a]
  <2>1. a \in Nat /\ a % 4 = 0 /\ x.lo <= a /\ a <= x.hi - 12
    BY DEF Payload
  <2>2. a \in WordsBelow(t)
    BY <1>2, <2>1, WordsBelowIs
  <2>3. a \notin Payload(u)
    BY <1>2, <1>3, <2>1
  <2> QED
    BY <2>2, <2>3
<1>7. Stores(m1, t, B)
  BY <1>4, <1>5 DEF Stores
<1> QED
  BY <1>1, <1>6, <1>7 DEF Rep, Keeps

\* Every word of R holds v.
Filling(m, R, v) == \A a \in R : m[a] = v

\* The client's write.
LEMMA FilledStores ==
  ASSUME NEW B, NEW t, NEW m, NEW r, Rep(m, t, r, B), NEW u \in P!Held(B), NEW v \in Nat
  PROVE  /\ Rep(Filled(m, u.lo, u.req, v), t, r, B)
         /\ Keeps(m, Filled(m, u.lo, u.req, v), B \ {u})
         /\ Filling(Filled(m, u.lo, u.req, v), Region(u.lo, u.req), v)
<1> DEFINE R  == Region(u.lo, u.req)
           m1 == Filled(m, u.lo, u.req, v)
<1>1. /\ u \in B /\ u.req \in Nat /\ t \in Nat /\ t % 8 = 0 /\ u.hi \in Nat /\ u.hi <= t
      /\ m \in [WordsBelow(t) -> Nat]
  BY SoundFacts DEF Rep, P!Held, Stores
<1>2. \A a \in R : a \in Payload(u)
  BY <1>1, RegionInside
<1>3. \A a \in Payload(u) : a \in WordsBelow(t)
  <2>1. \A a \in Payload(u) : a \in Nat /\ a % 4 = 0 /\ a < t
    BY <1>1 DEF Payload
  <2> QED
    BY <1>1, <2>1, WordsBelowIs
<1> HIDE DEF R
<1>4. m1 = [a \in WordsBelow(t) |-> IF a \in R THEN v ELSE m[a]]
  BY <1>1 DEF Filled, R
<1> HIDE DEF m1
<1>5. m1 \in [WordsBelow(t) -> Nat]
  BY <1>1, <1>4
<1>6. \A a \in WordsBelow(t) : a \notin Payload(u) => m1[a] = m[a]
  BY <1>2, <1>4
<1>7. \A a \in R : m1[a] = v
  BY <1>2, <1>3, <1>4
<1> QED
  BY <1>1, <1>5, <1>6, <1>7, PayloadApart DEF m1, R, Filling

\* The words the regions at q and at p have in common are those of p.
Moved(m1, q, size, m, p, n) ==
  \A i \in Nat : i < Fields(size) /\ i < Fields(n) => m1[q + 4 * i] = m[p + 4 * i]

\* realloc's copy, cut off at the size of the old block.
LEMMA CopiedStores ==
  ASSUME NEW B, NEW t, NEW m, NEW r, Rep(m, t, r, B),
         NEW u \in P!Held(B), NEW x \in P!Held(B),
         NEW n, n = IF u.req < x.hi - x.lo THEN u.req ELSE x.hi - x.lo
  PROVE  /\ Rep(Copied(m, u.lo, x.lo, n), t, r, B)
         /\ Keeps(m, Copied(m, u.lo, x.lo, n), B \ {u})
         /\ Moved(Copied(m, u.lo, x.lo, n), u.lo, u.req, m, x.lo, x.req)
<1> DEFINE R  == Region(u.lo, n)
           m1 == Copied(m, u.lo, x.lo, n)
<1>1. /\ u \in B /\ u.lo \in Nat /\ u.hi \in Nat /\ u.req \in Nat /\ u.lo % 8 = 0 /\ u.hi <= t
      /\ x \in B /\ x.lo \in Nat /\ x.hi \in Nat /\ x.req \in Nat /\ x.lo % 8 = 0 /\ x.hi <= t
      /\ x.lo + 16 <= x.hi /\ x.hi % 8 = 0
      /\ t \in Nat /\ t % 8 = 0 /\ m \in [WordsBelow(t) -> Nat]
  BY SoundFacts DEF Rep, P!Held, Stores
<1>2. n \in Nat /\ n <= u.req /\ n <= x.hi - x.lo
  BY <1>1
<1>3. \A a : a \in R <=> a \in Nat /\ a % 4 = 0 /\ u.lo <= a /\ a < u.lo + n
  <2>1. u.lo % 4 = 0
    BY <1>1, WordAligned
  <2> QED
    BY <1>1, <1>2, <2>1, RegionIs
<1>4. \A a \in R : a \in Payload(u)
  BY <1>2, RegionInside
<1>5. \A a \in Payload(u) : a \in WordsBelow(t)
  <2>1. u.hi \in Nat /\ u.hi <= t /\ t \in Nat
    BY <1>1
  <2>2. \A a \in Payload(u) : a \in Nat /\ a % 4 = 0 /\ a < t
    BY <2>1 DEF Payload
  <2> QED
    BY <1>1, <2>2, WordsBelowIs
<1>6. \A a \in R : a - u.lo + x.lo \in WordsBelow(t)
  <2> SUFFICES ASSUME NEW a \in R PROVE a - u.lo + x.lo \in WordsBelow(t)
    OBVIOUS
  <2>1. a \in Nat /\ a % 4 = 0 /\ u.lo <= a /\ a < u.lo + n
    BY <1>3
  <2>2. u.lo % 4 = 0 /\ x.lo % 4 = 0
    BY <1>1, WordAligned
  <2>3. (a - u.lo) + x.lo \in Nat /\ ((a - u.lo) + x.lo) % 4 = 0
    BY <1>1, <2>1, <2>2, WordAligned
  <2>4. (a - u.lo) + x.lo < t
    BY <1>1, <1>2, <2>1
  <2> QED
    BY <1>1, <2>3, <2>4, WordsBelowIs
<1> HIDE DEF R
<1>7. m1 = [a \in WordsBelow(t) |-> IF a \in R THEN m[a - u.lo + x.lo] ELSE m[a]]
  BY <1>1 DEF Copied, R
<1> HIDE DEF m1
<1>8. m1 \in [WordsBelow(t) -> Nat]
  BY <1>1, <1>6, <1>7
<1>9. \A a \in WordsBelow(t) : a \notin Payload(u) => m1[a] = m[a]
  BY <1>4, <1>7
<1>10. Moved(m1, u.lo, u.req, m, x.lo, x.req)
  <2> SUFFICES ASSUME NEW i \in Nat, i < Fields(u.req), i < Fields(x.req)
               PROVE  m1[u.lo + 4 * i] = m[x.lo + 4 * i]
    BY DEF Moved
  <2>1. 4 * i < u.req /\ 4 * i < x.req
    BY <1>1, RegionIs
  <2>2. x.req + 8 <= x.hi - x.lo
    BY <1>1 DEF Rep, Roomy, P!Held
  <2>3. 4 * i < n
    BY <1>1, <2>1, <2>2
  <2>4. u.lo + 4 * i \in R
    BY <1>1, <1>2, <1>3, <2>3
  <2>5. (u.lo + 4 * i) - u.lo + x.lo = x.lo + 4 * i
    BY <1>1
  <2> QED
    BY <1>4, <1>5, <1>7, <2>4, <2>5
<1>11. Rep(m1, t, r, B) /\ Keeps(m, m1, B \ {u})
  BY <1>1, <1>8, <1>9, PayloadApart
<1> QED
  BY <1>10, <1>11 DEF m1

-----------------------------------------------------------------------------
LEMMA AllocateIsPair ==
  ASSUME NEW h, NEW size, NEW o \in Allocate(h, size)
  PROVE  o = [heap |-> o.heap, ptr |-> o.ptr]
<1> DEFINE asize == AdjustedSize(size)
           found == find_fit(h, asize)
           g     == [h EXCEPT !.rover = found.rover]
           At(e) == [heap |-> [e.heap EXCEPT !.mem = place(@, e.bp, asize)], ptr |-> e.bp]
<1>1. \/ o = At([heap |-> g, bp |-> found.bp])
      \/ o = [heap |-> g, ptr |-> NULL]
      \/ o = At(extend_heap(g, asize))
  BY DEF Allocate
<1> HIDE DEF asize, found, g
<1>2. \A e : At(e) = [heap |-> At(e).heap, ptr |-> At(e).ptr]
  OBVIOUS
<1> HIDE DEF At
<1> QED
  BY <1>1, <1>2

\* malloc on an initialised heap.
LEMMA MallocIs ==
  ASSUME NEW m, NEW t, NEW r, NEW size \in Nat
  PROVE  malloc(Heap(m, t, "heap", r), size) =
           IF size = 0 THEN {[heap |-> Heap(m, t, "heap", r), ptr |-> NULL]}
           ELSE Allocate(Heap(m, t, "heap", r), size)
<1> DEFINE h == Heap(m, t, "heap", r)
<1>1. h.listp = "heap"
  BY DEF Heap
<1> HIDE DEF h
<1>2. malloc(h, size) = UNION {IF size = 0 THEN {[heap |-> g, ptr |-> NULL]}
                               ELSE IF g.listp = "failed" THEN {[heap |-> g, ptr |-> CRASH]}
                               ELSE Allocate(g, size) : g \in {h}}
  BY <1>1 DEF malloc
<1> QED
  BY <1>1, <1>2 DEF h

\* What a call of realloc may come to: nothing, or a step of BlockHeap that
\* moves the words of the block x.
Reallocated(o, m, t, listp, B, x, size) ==
  \/ o.ptr = NULL /\ \E r1 : o.heap = Heap(m, t, listp, r1) /\ Rep(m, t, r1, B)
  \/ \E m1, t1, r1, B1 :
       /\ o.heap = Heap(m1, t1, listp, r1) /\ Rep(m1, t1, r1, P!Release(B1, x))
       /\ Keeps(m, m1, P!Held(B) \ {x})
       /\ Moved(m1, o.ptr, size, m, x.lo, x.req)
       /\ Served(B, t, B1, t1, size, o.ptr) /\ P!Sound(B1, t1)
       /\ P!Held(P!Release(B1, x)) = P!Held(B1) \ {x}

LEMMA ReallocStores ==
  ASSUME NEW B, NEW t, NEW m, NEW r, Rep(m, t, r, B), NEW x \in P!Held(B),
         NEW size \in Nat, size > 0, NEW o \in realloc(Heap(m, t, "heap", r), x.lo, size)
  PROVE  Reallocated(o, m, t, "heap", B, x, size)
<1> DEFINE h == Heap(m, t, "heap", r)
           n == IF size < x.hi - x.lo THEN size ELSE x.hi - x.lo
<1>1. x \in B /\ x.req > 0 /\ P!Sound(B, t) /\ Stores(m, t, B)
  BY DEF Rep, P!Held
<1>2. h.mem = m /\ GET_SIZE(m[x.lo - 4]) = x.hi - x.lo
  BY <1>1, NodesAre DEF Heap
<1>3. malloc(h, size) = Allocate(h, size) /\ o \in realloc(h, x.lo, size)
  BY MallocIs
<1> HIDE DEF h
<1>4. PICK a \in Allocate(h, size) :
        o = IF a.ptr \in {NULL, CRASH} THEN a
            ELSE [a EXCEPT !.heap =
                    free([a.heap EXCEPT !.mem = Copied(a.heap.mem, a.ptr, x.lo, n)], x.lo)]
  <2> DEFINE Out(a) ==
               IF a.ptr \in {NULL, CRASH} THEN a
               ELSE LET k == IF size < GET_SIZE(h.mem[x.lo - 4]) THEN size
                             ELSE GET_SIZE(h.mem[x.lo - 4])
                    IN  [a EXCEPT !.heap =
                           free([a.heap EXCEPT !.mem = Copied(a.heap.mem, a.ptr, x.lo, k)], x.lo)]
  <2>1. o \in {Out(a) : a \in malloc(h, size)}
    BY <1>3 DEF realloc
  <2>2. PICK a \in Allocate(h, size) : o = Out(a)
    <3> HIDE DEF Out
    <3> QED
      BY <1>3, <2>1
  <2>3. Out(a) = IF a.ptr \in {NULL, CRASH} THEN a
                 ELSE [a EXCEPT !.heap =
                         free([a.heap EXCEPT !.mem = Copied(a.heap.mem, a.ptr, x.lo, n)], x.lo)]
    BY <1>2
  <2> QED
    BY <2>2, <2>3
<1>5. a = [heap |-> a.heap, ptr |-> a.ptr]
  BY AllocateIsPair
<1>6. Outcome(a, m, t, "heap", B, size)
  BY AllocateStores DEF h
<1>7. CASE a.ptr = NULL /\ \E r1 : a.heap = Heap(m, t, "heap", r1) /\ Rep(m, t, r1, B)
  BY <1>4, <1>7 DEF Reallocated
<1>8. CASE \E m1, t1, r1, B1 :
             /\ a.heap = Heap(m1, t1, "heap", r1) /\ Rep(m1, t1, r1, B1)
             /\ Keeps(m, m1, P!Held(B))
             /\ Served(B, t, B1, t1, size, a.ptr)
  <2>1. PICK m1, t1, r1, B1 :
           /\ a.heap = Heap(m1, t1, "heap", r1) /\ Rep(m1, t1, r1, B1)
           /\ Keeps(m, m1, P!Held(B))
           /\ Served(B, t, B1, t1, size, a.ptr)
    BY <1>8
  <2>2. PICK u \in B1 : /\ u.lo = a.ptr /\ u.req = size
                        /\ P!Held(B1) = P!Held(B) \cup {u} /\ u \notin P!Held(B)
    BY <2>1 DEF Served, Hands, P!Held
  <2>3. a.ptr \notin {NULL, CRASH}
    <3>1. u.lo \in Nat /\ u.lo >= 16
      BY <2>1, SoundFacts DEF Rep
    <3> QED
      BY <2>2, <3>1 DEF CRASH
  <2> DEFINE m2 == Copied(m1, u.lo, x.lo, n)
  <2>4. u \in P!Held(B1) /\ x \in P!Held(B1)
    BY <2>2
  <2>5. Rep(m2, t1, r1, B1) /\ Keeps(m1, m2, B1 \ {u}) /\ Moved(m2, u.lo, size, m1, x.lo, x.req)
    <3>1. n = IF u.req < x.hi - x.lo THEN u.req ELSE x.hi - x.lo
      BY <2>2
    <3> HIDE DEF n
    <3> QED
      BY <2>1, <2>2, <2>4, <3>1, CopiedStores
  <2>6. a.heap.mem = m1 /\ [a.heap EXCEPT !.mem = m2] = Heap(m2, t1, "heap", r1)
    <3>1. Heap(m1, t1, "heap", r1).mem = m1
      BY DEF Heap
    <3>2. [Heap(m1, t1, "heap", r1) EXCEPT !.mem = m2] = Heap(m2, t1, "heap", r1)
      BY HeapMem
    <3> QED
      BY <2>1, <3>1, <3>2
  <2>7. o = [a EXCEPT !.heap = free(Heap(m2, t1, "heap", r1), x.lo)]
    BY <1>4, <2>2, <2>3, <2>6
  <2>8. o.ptr = a.ptr /\ o.heap = free(Heap(m2, t1, "heap", r1), x.lo)
    BY <1>5, <2>7
  <2> HIDE DEF m2
  <2>9. x \in B1 /\ x.req > 0
    BY <2>4 DEF P!Held
  <2>10. PICK m3, r3 :
           /\ o.heap = Heap(m3, t1, "heap", r3)
           /\ Rep(m3, t1, r3, P!Release(B1, x))
           /\ Keeps(m2, m3, P!Held(B1) \ {x})
           /\ P!Held(P!Release(B1, x)) = P!Held(B1) \ {x}
    <3>1. \E m3, r3 :
           /\ free(Heap(m2, t1, "heap", r1), x.lo) = Heap(m3, t1, "heap", r3)
           /\ Rep(m3, t1, r3, P!Release(B1, x))
           /\ Keeps(m2, m3, P!Held(B1) \ {x})
           /\ P!Held(P!Release(B1, x)) = P!Held(B1) \ {x}
      BY <2>5, <2>9, FreeStores
    <3> QED
      BY <2>8, <3>1
  <2>11. Keeps(m, m3, P!Held(B) \ {x})
    <3> SUFFICES ASSUME NEW y \in P!Held(B) \ {x}, NEW b \in Payload(y) PROVE m3[b] = m[b]
      BY DEF Keeps
    <3>1. y \in P!Held(B1) \ {x} /\ y \in B1 \ {u}
      BY <2>2 DEF P!Held
    <3>2. m3[b] = m2[b] /\ m2[b] = m1[b]
      BY <2>5, <2>10, <3>1 DEF Keeps
    <3>3. m1[b] = m[b]
      BY <2>1 DEF Keeps
    <3> QED
      BY <3>2, <3>3
  <2>12. Moved(m3, u.lo, size, m, x.lo, x.req)
    <3> SUFFICES ASSUME NEW i \in Nat, i < Fields(size), i < Fields(x.req)
                 PROVE  m3[u.lo + 4 * i] = m[x.lo + 4 * i]
      BY DEF Moved
    <3>1. m2[u.lo + 4 * i] = m1[x.lo + 4 * i]
      BY <2>5 DEF Moved
    <3>2. \A y \in P!Held(B1) : /\ y.lo \in Nat /\ y.req \in Nat /\ y.lo % 4 = 0
      BY <2>1, SoundFacts, WordAligned DEF Rep, P!Held
    <3>3. u.lo + 4 * i \in Region(u.lo, u.req) /\ x.lo + 4 * i \in Region(x.lo, x.req)
      <4>1. u.lo + 4 * i \in Region(u.lo, u.req)
        BY <2>2, <2>4, <3>2, RegionIs DEF Region
      <4>2. x.lo + 4 * i \in Region(x.lo, x.req)
        BY <2>4, <3>2, RegionIs DEF Region
      <4> QED
        BY <4>1, <4>2
    <3>4. u.lo + 4 * i \in Payload(u) /\ x.lo + 4 * i \in Payload(x)
      BY <2>1, <2>4, <3>2, <3>3, RegionInside
    <3>5. m3[u.lo + 4 * i] = m2[u.lo + 4 * i]
      BY <2>2, <2>4, <2>10, <3>4 DEF Keeps
    <3>6. m1[x.lo + 4 * i] = m[x.lo + 4 * i]
      BY <2>1, <3>4 DEF Keeps
    <3> QED
      BY <3>1, <3>5, <3>6
  <2>13. Served(B, t, B1, t1, size, o.ptr) /\ Moved(m3, o.ptr, size, m, x.lo, x.req)
    BY <2>1, <2>2, <2>8, <2>12
  <2>14. P!Sound(B1, t1)
    BY <2>1 DEF Rep
  <2> QED
    BY <2>10, <2>11, <2>13, <2>14 DEF Reallocated
<1> QED
  BY <1>6, <1>7, <1>8 DEF Outcome

-----------------------------------------------------------------------------
LEMMA HeapFields ==
  ASSUME NEW m, NEW t, NEW listp, NEW r
  PROVE  /\ Heap(m, t, listp, r).mem = m /\ Heap(m, t, listp, r).brk = t
         /\ Heap(m, t, listp, r).listp = listp /\ Heap(m, t, listp, r).rover = r
BY DEF Heap

\* The pointers l of the client are those of the blocks it holds.
Holds(l, B) ==
  /\ DOMAIN l = {x.lo : x \in P!Held(B)}
  /\ \A x \in P!Held(B) : l[x.lo] = x.req /\ x.req \in Sizes

\* The heap h is initialised and is that of the blocks B.
Stands(h, l, B) ==
  /\ h = Heap(h.mem, h.brk, "heap", h.rover)
  /\ Rep(h.mem, h.brk, h.rover, B)
  /\ Holds(l, B)

\* No memory: mm_init has not been called, or its first mem_sbrk failed.  The
\* rover may be that of the trace before.
Dormant(h, l) ==
  /\ l = <<>> /\ h.listp \in {"null", "failed"}
  /\ h = Heap(<<>>, 0, h.listp, h.rover) /\ h.rover \in 0 .. MaxHeap

\* The blocks of a heap that mm_init just made.
Fresh(B, t) == \E e \in {P!EmptyHeap, P!FirstHeap} : B = e.blocks /\ t = e.top

LEMMA HoldsMore ==
  ASSUME NEW l, NEW B, Holds(l, B), NEW B1, NEW t1, P!Sound(B1, t1),
         NEW u \in P!Held(B1), u \notin P!Held(B), P!Held(B1) = P!Held(B) \cup {u},
         u.req \in Sizes
  PROVE  Holds(With(l, u.lo, u.req), B1) /\ u.lo \notin DOMAIN l
<1>1. \A x \in P!Held(B) : x.lo # u.lo
  <2> SUFFICES ASSUME NEW x \in P!Held(B), x.lo = u.lo PROVE FALSE
    OBVIOUS
  <2>1. x \in B1 /\ u \in B1 /\ x # u
    BY DEF P!Held
  <2>2. /\ x.lo \in Nat /\ x.hi \in Nat /\ u.lo \in Nat /\ u.hi \in Nat
        /\ x.lo + 16 <= x.hi /\ u.lo + 16 <= u.hi /\ (x.hi <= u.lo \/ u.hi <= x.lo)
    BY <2>1, SoundFacts
  <2> QED
    BY <2>2
<1>2. DOMAIN With(l, u.lo, u.req) = {x.lo : x \in P!Held(B1)}
  BY DEF Holds, With
<1>3. ASSUME NEW x \in P!Held(B1)
      PROVE  With(l, u.lo, u.req)[x.lo] = x.req /\ x.req \in Sizes
  <2>1. CASE x = u
    BY <2>1 DEF With
  <2>2. CASE x \in P!Held(B)
    BY <1>1, <2>2 DEF Holds, With
  <2> QED
    BY <2>1, <2>2
<1>4. u.lo \notin DOMAIN l
  BY <1>1 DEF Holds
<1> QED
  BY <1>2, <1>3, <1>4 DEF Holds

LEMMA HoldsLess ==
  ASSUME NEW l, NEW B, Holds(l, B), NEW t, P!Sound(B, t), NEW x \in P!Held(B),
         NEW B1, P!Held(B1) = P!Held(B) \ {x}
  PROVE  Holds(Without(l, x.lo), B1)
<1>1. \A y \in P!Held(B) : y # x => y.lo # x.lo
  <2> SUFFICES ASSUME NEW y \in P!Held(B), y # x, x.lo = y.lo PROVE FALSE
    OBVIOUS
  <2>1. x \in B /\ y \in B
    BY DEF P!Held
  <2>2. /\ x.lo \in Nat /\ x.hi \in Nat /\ y.lo \in Nat /\ y.hi \in Nat
        /\ x.lo + 16 <= x.hi /\ y.lo + 16 <= y.hi /\ (x.hi <= y.lo \/ y.hi <= x.lo)
    BY <2>1, SoundFacts
  <2> QED
    BY <2>2
<1>2. DOMAIN Without(l, x.lo) = {y.lo : y \in P!Held(B1)}
  BY <1>1 DEF Holds, Without
<1>3. \A y \in P!Held(B1) : Without(l, x.lo)[y.lo] = y.req /\ y.req \in Sizes
  BY <1>1 DEF Holds, Without
<1> QED
  BY <1>2, <1>3 DEF Holds

\* The heaps mm_init leaves.
LEMMA InitStands ==
  ASSUME NEW h, NEW g \in mm_init(h)
  PROVE  \/ g = [h EXCEPT !.listp = "failed"]
         \/ \E B : Stands(g, <<>>, B) /\ Fresh(B, g.brk)
<1> DEFINE r     == IF NextFit THEN 8 ELSE NULL
           empty == Heap(EmptyMemory, 16, "heap", r)
<1>1. \/ g = [h EXCEPT !.listp = "failed"]
      \/ g = empty
      \/ CanGrow(empty, ExtendSize(CHUNKSIZE)) /\ g = extend_heap(empty, CHUNKSIZE).heap
  <2>1. empty = [mem |-> EmptyMemory, brk |-> HEAP_START, listp |-> "heap",
                 rover |-> IF NextFit THEN heap_listp ELSE NULL]
    BY DEF Heap
  <2> HIDE DEF empty
  <2>2. mm_init(h) = {[h EXCEPT !.listp = "failed"], empty} \cup
          (IF CanGrow(empty, ExtendSize(CHUNKSIZE))
           THEN {extend_heap(empty, CHUNKSIZE).heap} ELSE {})
    BY <2>1 DEF mm_init
  <2> QED
    BY <2>2
<1>2. /\ Rep(EmptyMemory, 16, r, {})
      /\ P!Held({}) = {} /\ P!Grown({}, 16, CHUNKSIZE) = P!FirstHeap.blocks
      /\ P!FirstHeap.top = 16 + CHUNKSIZE /\ ExtendSize(CHUNKSIZE) = CHUNKSIZE
  BY EmptyStores
<1>3. ASSUME NEW B, P!Held(B) = {} PROVE Holds(<<>>, B)
  BY <1>3 DEF Holds
<1>4. CASE g = empty
  <2>1. g.mem = EmptyMemory /\ g.brk = 16 /\ g.rover = r
    BY <1>4, HeapFields
  <2>2. Fresh({}, g.brk)
    BY <2>1 DEF Fresh, P!EmptyHeap
  <2> HIDE DEF r
  <2>3. Stands(g, <<>>, {})
    BY <1>2, <1>3, <1>4, <2>1 DEF Stands
  <2> QED
    BY <2>2, <2>3
<1>5. CASE CanGrow(empty, ExtendSize(CHUNKSIZE)) /\ g = extend_heap(empty, CHUNKSIZE).heap
  <2> DEFINE B == P!FirstHeap.blocks
             t == 16 + CHUNKSIZE
  <2>1. 16 + ExtendSize(CHUNKSIZE) <= MaxHeap
    BY <1>5, HeapFields DEF CanGrow
  <2>2. CHUNKSIZE \in Nat /\ CHUNKSIZE % 8 = 0 /\ CHUNKSIZE > 0
    BY ChunkAssumption
  <2> HIDE DEF r, empty
  <2>3. PICK m1, r1, n :
          /\ Extended(EmptyMemory, 16, "heap", r, {}, CHUNKSIZE, m1, r1, n)
          /\ Rep(m1, 16 + ExtendSize(CHUNKSIZE), r1, P!Grown({}, 16, ExtendSize(CHUNKSIZE)))
          /\ P!Held(P!Grown({}, 16, ExtendSize(CHUNKSIZE))) = P!Held({})
    BY <1>2, <2>1, <2>2, ExtendRep
  <2>4. Rep(m1, t, r1, B) /\ P!Held(B) = {}
    BY <1>2, <2>3
  <2>5. g = Heap(m1, t, "heap", r1)
    <3>1. extend_heap(empty, CHUNKSIZE) = [heap |-> Heap(m1, t, "heap", r1), bp |-> n.lo]
      BY <1>2, <2>3 DEF Extended, empty
    <3> QED
      BY <1>5, <3>1
  <2>6. g.mem = m1 /\ g.brk = t /\ g.rover = r1
    BY <2>5, HeapFields
  <2>7. Fresh(B, g.brk)
    BY <1>2, <2>6 DEF Fresh
  <2> HIDE DEF B, t
  <2>8. Stands(g, <<>>, B)
    BY <1>3, <2>4, <2>5, <2>6 DEF Stands
  <2> QED
    BY <2>7, <2>8
<1> QED
  BY <1>1, <1>4, <1>5

\* malloc on a heap that stands: NULL and nothing changed but the rover, or one
\* more pointer.
Malloced(o, h, l, B, size) ==
  \/ o.ptr = NULL /\ Stands(o.heap, l, B) /\ o.heap.mem = h.mem /\ o.heap.brk = h.brk
  \/ /\ o.ptr \notin {NULL, CRASH} /\ o.ptr \notin DOMAIN l
     /\ \E B1 : /\ Stands(o.heap, With(l, o.ptr, size), B1)
                /\ Keeps(h.mem, o.heap.mem, P!Held(B))
                /\ Served(B, h.brk, B1, o.heap.brk, size, o.ptr)

LEMMA SizesAreRequests == Sizes \subseteq Nat \ {0} /\ UserWords \subseteq Nat
BY ProgramsAssumption DEF Sizes, UserWords

LEMMA ServedAdds ==
  ASSUME NEW B, NEW t, NEW B1, NEW t1, NEW size, NEW ptr, Served(B, t, B1, t1, size, ptr),
         P!Sound(B1, t1), size \in Sizes
  PROVE  /\ ptr \notin {NULL, CRASH}
         /\ \E u \in P!Held(B1) : /\ u.lo = ptr /\ u.req = size /\ u \notin P!Held(B)
                                  /\ P!Held(B1) = P!Held(B) \cup {u}
<1>1. PICK u \in B1 : /\ u.lo = ptr /\ u.req = size /\ u \notin P!Held(B)
                      /\ P!Held(B1) = P!Held(B) \cup {u}
  BY DEF Served, Hands, P!Held
<1>2. u.lo \in Nat /\ u.lo >= 16
  BY SoundFacts
<1> QED
  BY <1>1, <1>2 DEF CRASH

LEMMA MallocStands ==
  ASSUME NEW h, NEW l, NEW B, Stands(h, l, B), NEW size \in Sizes, NEW o \in malloc(h, size)
  PROVE  Malloced(o, h, l, B, size)
<1> DEFINE m == h.mem
           t == h.brk
           r == h.rover
<1>1. size \in Nat /\ size > 0
  BY SizesAreRequests
<1>2. h = Heap(m, t, "heap", r) /\ Rep(m, t, r, B) /\ Holds(l, B)
  BY DEF Stands
<1> HIDE DEF m, t, r
<1>3. o \in Allocate(Heap(m, t, "heap", r), size)
  BY <1>1, <1>2, MallocIs
<1>4. Outcome(o, m, t, "heap", B, size)
  BY <1>1, <1>2, <1>3, AllocateStores
<1>5. CASE o.ptr = NULL /\ \E r1 : o.heap = Heap(m, t, "heap", r1) /\ Rep(m, t, r1, B)
  BY <1>2, <1>5, HeapFields DEF Malloced, Stands, m, t
<1>6. CASE \E m1, t1, r1, B1 :
             /\ o.heap = Heap(m1, t1, "heap", r1) /\ Rep(m1, t1, r1, B1)
             /\ Keeps(m, m1, P!Held(B))
             /\ Served(B, t, B1, t1, size, o.ptr)
  <2>1. PICK m1, t1, r1, B1 :
           /\ o.heap = Heap(m1, t1, "heap", r1) /\ Rep(m1, t1, r1, B1)
           /\ Keeps(m, m1, P!Held(B))
           /\ Served(B, t, B1, t1, size, o.ptr)
    BY <1>6
  <2>2. P!Sound(B1, t1)
    BY <2>1 DEF Rep
  <2>3. /\ o.ptr \notin {NULL, CRASH}
        /\ \E u \in P!Held(B1) : /\ u.lo = o.ptr /\ u.req = size /\ u \notin P!Held(B)
                                 /\ P!Held(B1) = P!Held(B) \cup {u}
    BY <2>1, <2>2, ServedAdds
  <2>4. Holds(With(l, o.ptr, size), B1) /\ o.ptr \notin DOMAIN l
    BY <1>2, <2>2, <2>3, HoldsMore
  <2>5. o.heap.mem = m1 /\ o.heap.brk = t1 /\ o.heap.rover = r1
    BY <2>1, HeapFields
  <2>6. Stands(o.heap, With(l, o.ptr, size), B1)
    BY <2>1, <2>4, <2>5 DEF Stands
  <2> QED
    BY <2>1, <2>3, <2>4, <2>5, <2>6 DEF Malloced, m, t
<1> QED
  BY <1>4, <1>5, <1>6 DEF Outcome

LEMMA MallocOfZero ==
  ASSUME NEW h, NEW l, NEW B, Stands(h, l, B), NEW o \in malloc(h, 0)
  PROVE  o.ptr = NULL /\ o.heap = h
<1>1. h = Heap(h.mem, h.brk, "heap", h.rover)
  BY DEF Stands
<1>2. o \in {[heap |-> h, ptr |-> NULL]}
  BY <1>1, MallocIs
<1> QED
  BY <1>2

\* malloc before mm_init succeeded: it may leave things as they are, or it
\* works on the heap that mm_init makes.
LEMMA MallocFirst ==
  ASSUME NEW h, NEW l, Dormant(h, l), NEW size, NEW o \in malloc(h, size)
  PROVE  \/ o.ptr \in {NULL, CRASH} /\ Dormant(o.heap, l)
         \/ \E g, B : Stands(g, l, B) /\ Fresh(B, g.brk) /\ o \in malloc(g, size)
<1> DEFINE On(g) == IF size = 0 THEN {[heap |-> g, ptr |-> NULL]}
                    ELSE IF g.listp = "failed" THEN {[heap |-> g, ptr |-> CRASH]}
                    ELSE Allocate(g, size)
<1>1. malloc(h, size) = UNION {On(g) : g \in IF h.listp = "null" THEN mm_init(h) ELSE {h}}
  BY DEF malloc
<1>2. \A g : g.listp = "heap" => malloc(g, size) = On(g)
  <2> SUFFICES ASSUME NEW g, g.listp = "heap" PROVE malloc(g, size) = On(g)
    OBVIOUS
  <2>1. malloc(g, size) = UNION {On(f) : f \in {g}}
    BY DEF malloc
  <2> QED
    BY <2>1
<1>3. \A g : g.listp = "failed" =>
        \A e \in On(g) : e.ptr \in {NULL, CRASH} /\ e.heap = g
  OBVIOUS
<1> HIDE DEF On
<1>4. PICK g : o \in On(g) /\ ((g = h /\ h.listp # "null") \/ g \in mm_init(h))
  BY <1>1
<1> DEFINE r == h.rover
<1>5. /\ l = <<>> /\ h.listp \in {"null", "failed"} /\ h = Heap(<<>>, 0, h.listp, r)
      /\ r \in 0 .. MaxHeap
  BY DEF Dormant
<1> HIDE DEF r
<1>6. CASE g.listp = "failed" /\ Dormant(g, l)
  BY <1>3, <1>4, <1>6
<1>7. CASE \E B : Stands(g, <<>>, B) /\ Fresh(B, g.brk)
  <2>1. PICK B : Stands(g, <<>>, B) /\ Fresh(B, g.brk)
    BY <1>7
  <2>2. g.listp = "heap"
    <3>1. g = Heap(g.mem, g.brk, "heap", g.rover)
      BY <2>1 DEF Stands
    <3> QED
      BY <3>1, HeapFields
  <2> QED
    BY <1>2, <1>4, <1>5, <2>1, <2>2
<1>8. CASE g = h /\ h.listp # "null"
  BY <1>5, <1>6, <1>8
<1>9. CASE g \in mm_init(h)
  <2>1. CASE g = [h EXCEPT !.listp = "failed"]
    <3>1. g = Heap(<<>>, 0, "failed", r)
      BY <1>5, <2>1, HeapListp
    <3>2. g.listp = "failed" /\ Dormant(g, l)
      BY <1>5, <3>1, HeapFields DEF Dormant
    <3> QED
      BY <1>6, <3>2
  <2> QED
    BY <1>7, <1>9, <2>1, InitStands
<1> QED
  BY <1>4, <1>8, <1>9

LEMMA FreeStands ==
  ASSUME NEW h, NEW l, NEW B, Stands(h, l, B), NEW p \in DOMAIN l
  PROVE  \E x \in P!Held(B) :
           /\ x.lo = p /\ x.req = l[p]
           /\ Stands(free(h, p), Without(l, p), P!Release(B, x))
           /\ Keeps(h.mem, free(h, p).mem, P!Held(B) \ {x})
           /\ free(h, p).brk = h.brk
<1> DEFINE m == h.mem
           t == h.brk
           r == h.rover
<1>1. h = Heap(m, t, "heap", r) /\ Rep(m, t, r, B) /\ Holds(l, B) /\ P!Sound(B, t)
  BY DEF Stands, Rep
<1>2. PICK x \in P!Held(B) : x.lo = p /\ x.req = l[p]
  BY <1>1 DEF Holds
<1>3. x \in B /\ x.req > 0
  BY <1>2 DEF P!Held
<1> HIDE DEF m, t, r
<1>4. PICK m1, r1 :
        /\ free(Heap(m, t, "heap", r), x.lo) = Heap(m1, t, "heap", r1)
        /\ Rep(m1, t, r1, P!Release(B, x))
        /\ Keeps(m, m1, P!Held(B) \ {x})
        /\ P!Held(P!Release(B, x)) = P!Held(B) \ {x}
  BY <1>1, <1>3, FreeStores
<1>5. free(h, p) = Heap(m1, t, "heap", r1)
  BY <1>1, <1>2, <1>4
<1>6. free(h, p).mem = m1 /\ free(h, p).brk = t /\ free(h, p).rover = r1
  BY <1>5, HeapFields
<1>7. Holds(Without(l, p), P!Release(B, x))
  BY <1>1, <1>2, <1>4, HoldsLess
<1>8. Stands(free(h, p), Without(l, p), P!Release(B, x))
  BY <1>4, <1>5, <1>6, <1>7 DEF Stands
<1> QED
  BY <1>2, <1>4, <1>6, <1>8 DEF m, t

\* realloc on a live pointer.
ReallocMoves(o, h, l, B, p, size) ==
  \/ o.ptr = NULL /\ Stands(o.heap, l, B) /\ o.heap.mem = h.mem /\ o.heap.brk = h.brk
  \/ /\ o.ptr \notin {NULL, CRASH} /\ o.ptr \notin DOMAIN l
     /\ \E x \in P!Held(B) : \E B1 :
          /\ x.lo = p /\ x.req = l[p]
          /\ Stands(o.heap, With(Without(l, p), o.ptr, size), P!Release(B1, x))
          /\ Keeps(h.mem, o.heap.mem, P!Held(B) \ {x})
          /\ Moved(o.heap.mem, o.ptr, size, h.mem, p, l[p])
          /\ Served(B, h.brk, B1, o.heap.brk, size, o.ptr)

LEMMA ReallocStands ==
  ASSUME NEW h, NEW l, NEW B, Stands(h, l, B), NEW p \in DOMAIN l, NEW size \in Sizes,
         NEW o \in realloc(h, p, size)
  PROVE  ReallocMoves(o, h, l, B, p, size)
<1> DEFINE m == h.mem
           t == h.brk
           r == h.rover
<1>1. h = Heap(m, t, "heap", r) /\ Rep(m, t, r, B) /\ Holds(l, B) /\ P!Sound(B, t)
  BY DEF Stands, Rep
<1>2. PICK x \in P!Held(B) : x.lo = p /\ x.req = l[p]
  BY <1>1 DEF Holds
<1>3. size \in Nat /\ size > 0
  BY SizesAreRequests
<1> HIDE DEF m, t, r
<1>4. o \in realloc(Heap(m, t, "heap", r), x.lo, size)
  BY <1>1, <1>2
<1>5. Reallocated(o, m, t, "heap", B, x, size)
  BY <1>1, <1>3, <1>4, ReallocStores
<1>6. CASE o.ptr = NULL /\ \E r1 : o.heap = Heap(m, t, "heap", r1) /\ Rep(m, t, r1, B)
  BY <1>1, <1>6, HeapFields DEF ReallocMoves, Stands, m, t
<1>7. CASE \E m1, t1, r1, B1 :
             /\ o.heap = Heap(m1, t1, "heap", r1) /\ Rep(m1, t1, r1, P!Release(B1, x))
             /\ Keeps(m, m1, P!Held(B) \ {x})
             /\ Moved(m1, o.ptr, size, m, x.lo, x.req)
             /\ Served(B, t, B1, t1, size, o.ptr) /\ P!Sound(B1, t1)
             /\ P!Held(P!Release(B1, x)) = P!Held(B1) \ {x}
  <2>1. PICK m1, t1, r1, B1 :
           /\ o.heap = Heap(m1, t1, "heap", r1) /\ Rep(m1, t1, r1, P!Release(B1, x))
           /\ Keeps(m, m1, P!Held(B) \ {x})
           /\ Moved(m1, o.ptr, size, m, x.lo, x.req)
           /\ Served(B, t, B1, t1, size, o.ptr) /\ P!Sound(B1, t1)
           /\ P!Held(P!Release(B1, x)) = P!Held(B1) \ {x}
    BY <1>7
  <2> DEFINE C == P!Release(B1, x)
             S == B \ {x}
  <2>2. P!Sound(C, t1)
    BY <2>1 DEF Rep
  <2>3. /\ o.ptr \notin {NULL, CRASH}
        /\ \E u \in P!Held(B1) : /\ u.lo = o.ptr /\ u.req = size /\ u \notin P!Held(B)
                                 /\ P!Held(B1) = P!Held(B) \cup {u}
    BY <2>1, ServedAdds
  <2>4. PICK u \in P!Held(B1) : /\ u.lo = o.ptr /\ u.req = size /\ u \notin P!Held(B)
                               /\ P!Held(B1) = P!Held(B) \cup {u}
    BY <2>3
  <2>5. o.ptr \notin DOMAIN l
    BY <1>1, <2>1, <2>4, HoldsMore
  <2>6. P!Held(S) = P!Held(B) \ {x}
    BY DEF P!Held
  <2>7. P!Held(C) = P!Held(S) \cup {u} /\ u \in P!Held(C) /\ u \notin P!Held(S)
    BY <1>2, <2>1, <2>4, <2>6
  <2> HIDE DEF C, S
  <2>8. Holds(Without(l, x.lo), S)
    BY <1>1, <2>6, HoldsLess
  <2>9. Holds(With(Without(l, p), o.ptr, size), C)
    BY <1>2, <2>2, <2>4, <2>7, <2>8, HoldsMore
  <2>10. o.heap.mem = m1 /\ o.heap.brk = t1 /\ o.heap.rover = r1
    BY <2>1, HeapFields
  <2>11. Stands(o.heap, With(Without(l, p), o.ptr, size), C)
    BY <2>1, <2>9, <2>10 DEF Stands, C
  <2> QED
    BY <1>2, <2>1, <2>3, <2>5, <2>10, <2>11 DEF ReallocMoves, C, m, t
<1> QED
  BY <1>5, <1>6, <1>7 DEF Reallocated

\* The blocks the client holds keep their words, that at p excepted.
Spares(h, g, B, p) == \E x \in P!Held(B) : x.lo = p /\ Keeps(h.mem, g.mem, P!Held(B) \ {x})

\* The client's write.
Written(h, l, p, v) == [h EXCEPT !.mem = Filled(h.mem, p, l[p], v)]

LEMMA WriteStands ==
  ASSUME NEW h, NEW l, NEW B, Stands(h, l, B), NEW p \in DOMAIN l, NEW v \in UserWords,
         NEW g, g = Written(h, l, p, v)
  PROVE  /\ Stands(g, l, B) /\ g.brk = h.brk
         /\ Filling(g.mem, Region(p, l[p]), v)
         /\ Spares(h, g, B, p)
<1> DEFINE m == h.mem
           t == h.brk
           r == h.rover
<1>1. h = Heap(m, t, "heap", r) /\ Rep(m, t, r, B) /\ Holds(l, B)
  BY DEF Stands
<1>2. PICK x \in P!Held(B) : x.lo = p /\ x.req = l[p]
  BY <1>1 DEF Holds
<1>3. v \in Nat
  BY SizesAreRequests
<1> DEFINE m1 == Filled(m, x.lo, x.req, v)
<1>4. g = [h EXCEPT !.mem = m1]
  BY <1>2 DEF Written
<1> HIDE DEF m, t, r
<1>5. /\ Rep(m1, t, r, B) /\ Keeps(m, m1, B \ {x})
      /\ Filling(m1, Region(x.lo, x.req), v)
  BY <1>1, <1>3, FilledStores
<1> HIDE DEF m1
<1>6. g = Heap(m1, t, "heap", r)
  BY <1>1, <1>4, HeapMem
<1>7. g.mem = m1 /\ g.brk = t /\ g.rover = r
  <2> DEFINE f == Heap(m1, t, "heap", r)
  <2>1. f.mem = m1 /\ f.brk = t /\ f.rover = r
    BY HeapFields
  <2>2. g = f
    BY <1>6
  <2> HIDE DEF f
  <2> QED
    BY <2>1, <2>2
<1>8. Keeps(m, m1, P!Held(B) \ {x})
  BY <1>5 DEF Keeps, P!Held
<1> QED
  BY <1>1, <1>2, <1>5, <1>6, <1>7, <1>8 DEF Stands, Spares, m, t

-----------------------------------------------------------------------------
\* The blocks one reads from the headers of h and the client's pointers l.
BlocksOf(h, l) ==
  {[lo |-> bp, hi |-> NEXT_BLKP(h.mem, bp), req |-> IF bp \in DOMAIN l THEN l[bp] ELSE 0]
   : bp \in From(h.mem, HEAP_START) \ {h.brk}}

\* They are the blocks the heap stands for.
LEMMA BlocksAre ==
  ASSUME NEW h, NEW l, NEW B, Stands(h, l, B)
  PROVE  /\ BlocksOf(h, l) = B
         /\ \A y : y \in From(h.mem, 16) <=> y = h.brk \/ \E x \in B : y = x.lo
         /\ h.listp = "heap" /\ h.brk >= 16
<1> DEFINE m == h.mem
           t == h.brk
           r == h.rover
           Read(bp) == [lo |-> bp, hi |-> NEXT_BLKP(m, bp),
                        req |-> IF bp \in DOMAIN l THEN l[bp] ELSE 0]
<1>1. /\ h = Heap(m, t, "heap", r) /\ Rep(m, t, r, B) /\ Holds(l, B)
      /\ P!Sound(B, t) /\ t <= MaxHeap /\ Stores(m, t, B)
  BY DEF Stands, Rep
<1>2. h.listp = "heap"
  BY <1>1, HeapFields
<1> HIDE DEF m, t, r
<1>3. /\ t \in Nat /\ t >= 16 /\ B \subseteq P!Block
      /\ \A x \in B : x.lo \in Nat /\ x.hi \in Nat /\ 16 <= x.lo /\ x.lo + 16 <= x.hi /\ x.hi <= t
      /\ \A x, y \in B : x = y \/ x.hi <= y.lo \/ y.hi <= x.lo
  BY <1>1, SoundFacts
<1>4. 16 \in Nodes(B, t) /\ \A x \in B : NEXT_BLKP(m, x.lo) = x.hi
  BY <1>1, NodesAre
<1>5. \A y : y \in From(m, 16) <=> y \in Nodes(B, t) /\ y >= 16
  BY <1>1, <1>4, FromNodes
<1>6. \A y : y \in From(m, 16) <=> y = t \/ \E x \in B : y = x.lo
  BY <1>3, <1>5 DEF Nodes
<1>7. \A y : y \in From(m, 16) \ {t} <=> \E x \in B : y = x.lo
  BY <1>3, <1>6
<1>8. ASSUME NEW x \in B PROVE Read(x.lo) = x
  <2>1. x.lo \in DOMAIN l => x.req > 0
    <3> SUFFICES ASSUME x.lo \in DOMAIN l PROVE x.req > 0
      OBVIOUS
    <3>1. PICK y \in P!Held(B) : y.lo = x.lo
      BY <1>1 DEF Holds
    <3>2. y \in B /\ y.req > 0
      BY DEF P!Held
    <3>3. y = x
      BY <1>3, <3>1, <3>2
    <3> QED
      BY <3>2, <3>3
  <2>2. x.req > 0 => x.lo \in DOMAIN l /\ l[x.lo] = x.req
    BY <1>1 DEF Holds, P!Held
  <2>3. x \in P!Block /\ x.req \in Nat
    BY <1>3 DEF P!Block
  <2>4. x.req = IF x.lo \in DOMAIN l THEN l[x.lo] ELSE 0
    BY <2>1, <2>2, <2>3
  <2>5. x = [lo |-> x.lo, hi |-> x.hi, req |-> x.req]
    BY <2>3 DEF P!Block
  <2>6. Read(x.lo) = [lo |-> x.lo, hi |-> x.hi, req |-> x.req]
    BY <1>4, <2>4
  <2> QED
    BY <2>5, <2>6
<1>9. BlocksOf(h, l) = {Read(bp) : bp \in From(m, 16) \ {t}}
  BY DEF BlocksOf, m, t
<1> HIDE DEF Read
<1>10. BlocksOf(h, l) = B
  BY <1>7, <1>8, <1>9
<1> QED
  BY <1>2, <1>3, <1>6, <1>10 DEF m, t

LEMMA Mapped ==
  /\ \A B : Stands(heap, live, B) => AbstractBlocks = B /\ Started
  /\ Dormant(heap, live) => AbstractBlocks = {} /\ ~Started
<1>1. ASSUME NEW B, Stands(heap, live, B) PROVE AbstractBlocks = B /\ Started
  <2>1. BlocksOf(heap, live) = B /\ heap.listp = "heap"
    BY <1>1, BlocksAre
  <2>2. Started
    BY <2>1 DEF Started
  <2>3. BlockPtrs = From(heap.mem, HEAP_START) \ {heap.brk}
    BY <2>2 DEF BlockPtrs, Walk
  <2> QED
    BY <2>1, <2>2, <2>3 DEF AbstractBlocks, BlocksOf
<1>2. ASSUME Dormant(heap, live) PROVE AbstractBlocks = {} /\ ~Started
  BY <1>2 DEF Dormant, Started, AbstractBlocks, BlockPtrs
<1> QED
  BY <1>1, <1>2

LEMMA MappedNext ==
  /\ \A B : Stands(heap', live', B) => AbstractBlocks' = B /\ Started'
  /\ Dormant(heap', live') => AbstractBlocks' = {} /\ ~Started'
<1>1. ASSUME NEW B, Stands(heap', live', B) PROVE AbstractBlocks' = B /\ Started'
  <2>1. BlocksOf(heap', live') = B /\ heap'.listp = "heap"
    BY <1>1, BlocksAre
  <2>2. Started'
    BY <2>1 DEF Started
  <2>3. BlockPtrs' = From(heap'.mem, HEAP_START) \ {heap'.brk}
    BY <2>2 DEF BlockPtrs, Walk
  <2> QED
    BY <2>1, <2>2, <2>3 DEF AbstractBlocks, BlocksOf
<1>2. ASSUME Dormant(heap', live') PROVE AbstractBlocks' = {} /\ ~Started'
  BY <1>2 DEF Dormant, Started, AbstractBlocks, BlockPtrs
<1> QED
  BY <1>1, <1>2

-----------------------------------------------------------------------------
\* Either there is no heap yet, or memory, break and rover are those of a sound
\* set of blocks with room for two tags each, and the client holds those.
IInv ==
  /\ program \in Programs /\ crashed \in BOOLEAN
  /\ Dormant(heap, live) \/ \E B : Stands(heap, live, B)

LEMMA InitIsInvariant == Init => IInv
<1> SUFFICES ASSUME Init PROVE IInv
  OBVIOUS
<1>1. heap = Heap(<<>>, 0, "null", NULL)
  BY DEF Init, Heap
<1>2. NULL \in 0 .. MaxHeap
  BY WordsAssumption DEF NULL
<1>3. Dormant(heap, live)
  BY <1>1, <1>2, HeapFields DEF Init, Dormant
<1> QED
  BY <1>3 DEF Init, IInv

\* What stands after the step stands in the next state: the program is the same.
LEMMA NextIsInv ==
  ASSUME IInv, program' = program, crashed' \in BOOLEAN,
         Dormant(heap', live') \/ \E B : Stands(heap', live', B)
  PROVE  IInv'
<1>1. \A B : Stands(heap', live', B) => Stands(heap, live, B)'
  BY DEF Stands, Rep, RoverIn, NextFit
<1>2. Dormant(heap', live') => Dormant(heap, live)'
  BY DEF Dormant
<1>3. program' \in Programs
  BY DEF IInv
<1> QED
  BY <1>1, <1>2, <1>3 DEF IInv

-----------------------------------------------------------------------------
\* One step of each action, in terms of blocks.  A call of malloc works on the
\* heap h there is, or on one that mm_init makes first.
Base(h, B) ==
  /\ Stands(h, live, B)
  /\ h = heap \/ (Dormant(heap, live) /\ Fresh(B, h.brk))

Unserved(h, B) ==
  live' = live /\ Stands(heap', live, B) /\ heap'.mem = h.mem /\ heap'.brk = h.brk

LEMMA Programmed ==
  ASSUME IInv
  PROVE  /\ program.mallocs \subseteq Sizes /\ program.reallocs \subseteq Sizes
         /\ program.words \subseteq UserWords
BY DEF IInv, Sizes, UserWords

LEMMA HasPointers ==
  ASSUME IInv, NEW p \in DOMAIN live
  PROVE  \E B : Stands(heap, live, B)
<1>1. live # <<>>
  OBVIOUS
<1> QED
  BY <1>1 DEF IInv, Dormant

LEMMA RoverIsLow ==
  ASSUME NEW B, Stands(heap, live, B)
  PROVE  heap.rover \in 0 .. MaxHeap
<1> DEFINE r == heap.rover
           t == heap.brk
<1>1. P!Sound(B, t) /\ t <= MaxHeap /\ RoverIn(r, B)
  BY DEF Stands, Rep
<1> HIDE DEF r, t
<1>2. t \in Nat /\ t >= 16 /\ MaxHeap \in Nat
  BY <1>1, SoundFacts, WordsAssumption
<1>3. \A x \in B : x.lo \in Nat /\ x.lo <= t
  BY <1>1, SoundFacts
<1>4. r \in 0 .. t
  BY <1>1, <1>2, <1>3 DEF RoverIn, NULL, heap_listp, WSIZE
<1>5. r \in 0 .. MaxHeap
  BY <1>1, <1>2, <1>4
<1> QED
  BY <1>5 DEF r

LEMMA NewTraceStep ==
  ASSUME IInv, NewTrace
  PROVE  /\ live' = <<>> /\ crashed' \in BOOLEAN
         /\ Dormant(heap', live') \/ \E B : Stands(heap', live', B) /\ Fresh(B, heap'.brk)
<1> DEFINE h == [heap EXCEPT !.mem = <<>>, !.brk = 0]
           r == heap.rover
           k == heap.listp
<1>1. heap' \in mm_init(h) /\ live' = <<>> /\ crashed' \in BOOLEAN
  BY DEF NewTrace, IInv
<1>2. heap = Heap(heap.mem, heap.brk, k, r) /\ r \in 0 .. MaxHeap
  <2>1. CASE Dormant(heap, live)
    <3>1. heap = Heap(<<>>, 0, k, r) /\ r \in 0 .. MaxHeap
      BY <2>1 DEF Dormant
    <3> HIDE DEF k, r
    <3>2. heap.mem = <<>> /\ heap.brk = 0
      BY <3>1, HeapFields
    <3> QED
      BY <3>1, <3>2
  <2>2. ASSUME NEW B, Stands(heap, live, B)
        PROVE  heap = Heap(heap.mem, heap.brk, k, r) /\ r \in 0 .. MaxHeap
    <3>1. heap = Heap(heap.mem, heap.brk, "heap", r) /\ heap.listp = "heap"
      BY <2>2, BlocksAre DEF Stands
    <3>2. r \in 0 .. MaxHeap
      BY <2>2, RoverIsLow
    <3> QED
      BY <3>1, <3>2
  <2> QED
    BY <2>1, <2>2 DEF IInv
<1>3. h = [[heap EXCEPT !.mem = <<>>] EXCEPT !.brk = 0]
  OBVIOUS
<1> HIDE DEF h, k, r
<1>4. CASE heap' = [h EXCEPT !.listp = "failed"]
  <2> DEFINE m == heap.mem
             t == heap.brk
  <2>1. heap = Heap(m, t, k, r)
    BY <1>2
  <2> HIDE DEF m, t
  <2>2. /\ [Heap(m, t, k, r) EXCEPT !.mem = <<>>] = Heap(<<>>, t, k, r)
        /\ [Heap(<<>>, t, k, r) EXCEPT !.brk = 0] = Heap(<<>>, 0, k, r)
    BY HeapMem, HeapBrk
  <2>3. h = Heap(<<>>, 0, k, r)
    BY <1>3, <2>1, <2>2
  <2>4. heap' = Heap(<<>>, 0, "failed", r)
    BY <1>4, <2>3, HeapListp
  <2>5. Dormant(heap', live')
    BY <1>1, <1>2, <2>4, HeapFields DEF Dormant
  <2> QED
    BY <1>1, <2>5
<1>5. CASE \E B : Stands(heap', <<>>, B) /\ Fresh(B, heap'.brk)
  BY <1>1, <1>5
<1> QED
  BY <1>1, <1>4, <1>5, InitStands

LEMMA MallocStep ==
  ASSUME IInv, NEW size \in program.mallocs \cup {0}, Malloc(size)
  PROVE  /\ crashed' \in BOOLEAN
         /\ \/ Dormant(heap, live) /\ Dormant(heap', live') /\ live' = live
            \/ \E h, B : Base(h, B) /\ Unserved(h, B)
            \/ \E h, B, q, B1 :
                 /\ Base(h, B) /\ size \in Sizes
                 /\ q \notin DOMAIN live /\ live' = With(live, q, size)
                 /\ Stands(heap', live', B1)
                 /\ Keeps(h.mem, heap'.mem, P!Held(B))
                 /\ Served(B, h.brk, B1, heap'.brk, size, q)
<1>1. PICK o \in malloc(heap, size) :
        /\ heap' = o.heap /\ crashed' \in BOOLEAN
        /\ live' = IF o.ptr \in {NULL, CRASH} THEN live ELSE With(live, o.ptr, size)
  BY DEF Malloc, Returns
<1>2. size \in Sizes \/ size = 0
  BY Programmed
<1>3. ASSUME NEW h, NEW B, Base(h, B), o \in malloc(h, size)
      PROVE  \/ Unserved(h, B)
             \/ /\ size \in Sizes /\ o.ptr \notin DOMAIN live
                /\ live' = With(live, o.ptr, size)
                /\ \E B1 : /\ Stands(heap', live', B1)
                           /\ Keeps(h.mem, heap'.mem, P!Held(B))
                           /\ Served(B, h.brk, B1, heap'.brk, size, o.ptr)
  <2>1. Stands(h, live, B)
    BY <1>3 DEF Base
  <2>2. CASE size = 0
    <3>1. o.ptr = NULL /\ o.heap = h
      BY <1>3, <2>1, <2>2, MallocOfZero
    <3> QED
      BY <1>1, <2>1, <3>1 DEF Unserved
  <2>3. CASE size \in Sizes
    <3>1. Malloced(o, h, live, B, size)
      BY <1>3, <2>1, <2>3, MallocStands
    <3>2. CASE /\ o.ptr = NULL /\ Stands(o.heap, live, B)
               /\ o.heap.mem = h.mem /\ o.heap.brk = h.brk
      BY <1>1, <3>2 DEF Unserved
    <3>3. CASE /\ o.ptr \notin {NULL, CRASH} /\ o.ptr \notin DOMAIN live
               /\ \E B1 : /\ Stands(o.heap, With(live, o.ptr, size), B1)
                          /\ Keeps(h.mem, o.heap.mem, P!Held(B))
                          /\ Served(B, h.brk, B1, o.heap.brk, size, o.ptr)
      <4>1. live' = With(live, o.ptr, size)
        BY <1>1, <3>3
      <4> QED
        BY <1>1, <2>3, <3>3, <4>1
    <3> QED
      BY <3>1, <3>2, <3>3 DEF Malloced
  <2> QED
    BY <1>2, <2>2, <2>3
<1>4. CASE \E B : Stands(heap, live, B)
  <2>1. PICK B : Stands(heap, live, B)
    BY <1>4
  <2>2. Base(heap, B)
    BY <2>1 DEF Base
  <2> QED
    BY <1>1, <1>3, <2>2
<1>5. CASE Dormant(heap, live)
  <2>1. CASE o.ptr \in {NULL, CRASH} /\ Dormant(o.heap, live)
    BY <1>1, <1>5, <2>1
  <2>2. CASE \E g, B : Stands(g, live, B) /\ Fresh(B, g.brk) /\ o \in malloc(g, size)
    <3>1. PICK g, B : Stands(g, live, B) /\ Fresh(B, g.brk) /\ o \in malloc(g, size)
      BY <2>2
    <3>2. Base(g, B)
      BY <1>5, <3>1 DEF Base
    <3> QED
      BY <1>1, <1>3, <3>1, <3>2
  <2> QED
    BY <1>5, <2>1, <2>2, MallocFirst
<1> QED
  BY <1>4, <1>5 DEF IInv

LEMMA FreeStep ==
  ASSUME IInv, NEW p \in DOMAIN live, Free(p)
  PROVE  \E B : \E x \in P!Held(B) :
           /\ Stands(heap, live, B) /\ x.lo = p
           /\ live' = Without(live, p) /\ Stands(heap', live', P!Release(B, x))
           /\ Keeps(heap.mem, heap'.mem, P!Held(B) \ {x})
           /\ heap'.brk = heap.brk /\ crashed' \in BOOLEAN
<1>1. PICK B : Stands(heap, live, B)
  BY HasPointers
<1>2. heap' = free(heap, p) /\ live' = Without(live, p) /\ crashed' \in BOOLEAN
  BY DEF Free, IInv
<1> QED
  BY <1>1, <1>2, FreeStands

LEMMA ReallocStep ==
  ASSUME IInv, NEW p \in DOMAIN live, NEW size \in program.reallocs, Realloc(p, size)
  PROVE  \E B :
           /\ Stands(heap, live, B) /\ crashed' \in BOOLEAN /\ size \in Sizes
           /\ \/ Unserved(heap, B)
              \/ \E x \in P!Held(B) : \E B1, q :
                   /\ x.lo = p /\ x.req = live[p] /\ q \notin DOMAIN live
                   /\ live' = With(Without(live, p), q, size)
                   /\ Stands(heap', live', P!Release(B1, x))
                   /\ Keeps(heap.mem, heap'.mem, P!Held(B) \ {x})
                   /\ Moved(heap'.mem, q, size, heap.mem, p, live[p])
                   /\ Served(B, heap.brk, B1, heap'.brk, size, q)
<1>1. PICK B : Stands(heap, live, B)
  BY HasPointers
<1>2. PICK o \in realloc(heap, p, size) :
        /\ heap' = o.heap /\ crashed' \in BOOLEAN
        /\ live' = IF o.ptr \in {NULL, CRASH} THEN live ELSE With(Without(live, p), o.ptr, size)
  BY DEF Realloc, Returns
<1>3. size \in Sizes
  BY Programmed
<1>4. ReallocMoves(o, heap, live, B, p, size)
  BY <1>1, <1>3, ReallocStands
<1>5. CASE /\ o.ptr = NULL /\ Stands(o.heap, live, B)
           /\ o.heap.mem = heap.mem /\ o.heap.brk = heap.brk
  BY <1>1, <1>2, <1>3, <1>5 DEF Unserved
<1>6. CASE /\ o.ptr \notin {NULL, CRASH} /\ o.ptr \notin DOMAIN live
           /\ \E x \in P!Held(B) : \E B1 :
                /\ x.lo = p /\ x.req = live[p]
                /\ Stands(o.heap, With(Without(live, p), o.ptr, size), P!Release(B1, x))
                /\ Keeps(heap.mem, o.heap.mem, P!Held(B) \ {x})
                /\ Moved(o.heap.mem, o.ptr, size, heap.mem, p, live[p])
                /\ Served(B, heap.brk, B1, o.heap.brk, size, o.ptr)
  <2>1. live' = With(Without(live, p), o.ptr, size)
    BY <1>2, <1>6
  <2> QED
    BY <1>1, <1>2, <1>3, <1>6, <2>1
<1> QED
  BY <1>4, <1>5, <1>6 DEF ReallocMoves

LEMMA WriteStep ==
  ASSUME IInv, NEW p \in DOMAIN live, NEW v \in program.words, Write(p, v)
  PROVE  \E B : \E x \in P!Held(B) :
           /\ Stands(heap, live, B) /\ x.lo = p /\ v \in UserWords
           /\ live' = live /\ Stands(heap', live', B) /\ heap'.brk = heap.brk
           /\ Filling(heap'.mem, Region(p, live[p]), v)
           /\ Keeps(heap.mem, heap'.mem, P!Held(B) \ {x}) /\ crashed' \in BOOLEAN
<1>1. PICK B : Stands(heap, live, B)
  BY HasPointers
<1>2. /\ heap' = Written(heap, live, p, v)
      /\ live' = live /\ crashed' \in BOOLEAN
  BY DEF Write, IInv, Written
<1>3. v \in UserWords
  BY Programmed
<1> DEFINE g == heap'
<1>4. g = Written(heap, live, p, v)
  BY <1>2
<1> HIDE DEF g
<1>5. /\ Stands(g, live, B) /\ g.brk = heap.brk
      /\ Filling(g.mem, Region(p, live[p]), v)
      /\ Spares(heap, g, B, p)
  BY <1>1, <1>3, <1>4, WriteStands
<1> QED
  BY <1>1, <1>2, <1>3, <1>5 DEF g, Spares

-----------------------------------------------------------------------------
LEMMA NextIsInvariant ==
  ASSUME IInv, [Next]_vars
  PROVE  IInv'
<1>1. CASE UNCHANGED vars
  BY <1>1, NextIsInv DEF vars, IInv
<1>2. CASE Next
  <2>1. program' = program
    BY <1>2 DEF Next
  <2>2. ASSUME NewTrace PROVE IInv'
    BY <2>1, <2>2, NewTraceStep, NextIsInv
  <2>3. ASSUME NEW size \in program.mallocs \cup {0}, Malloc(size) PROVE IInv'
    BY <2>1, <2>3, MallocStep, NextIsInv DEF Unserved
  <2>4. ASSUME NEW p \in DOMAIN live, Free(p) PROVE IInv'
    BY <2>1, <2>4, FreeStep, NextIsInv
  <2>5. ASSUME NEW p \in DOMAIN live, NEW size \in program.reallocs, Realloc(p, size)
        PROVE  IInv'
    BY <2>1, <2>5, ReallocStep, NextIsInv DEF Unserved
  <2>6. ASSUME NEW p \in DOMAIN live, NEW v \in program.words, Write(p, v) PROVE IInv'
    BY <2>1, <2>6, WriteStep, NextIsInv
  <2> QED
    BY <1>2, <2>2, <2>3, <2>4, <2>5, <2>6 DEF Next
<1> QED
  BY <1>1, <1>2

\* Whatever the client does and whenever mem_sbrk fails, what the headers and
\* footers of mm_implicit_list.c say is a sound heap, the client's blocks in it.
THEOREM HeapStands == Spec => []IInv
<1>1. IInv /\ [Next]_vars => IInv'
  BY NextIsInvariant
<1> QED
  BY InitIsInvariant, <1>1, PTL DEF Spec

LEMMA TypeFollows ==
  ASSUME IInv
  PROVE  TypeOK
<1>1. CASE Dormant(heap, live)
  <2>1. /\ heap.mem = <<>> /\ heap.brk = 0 /\ heap.rover \in 0 .. MaxHeap /\ live = <<>>
        /\ heap.listp \in {"null", "failed"}
    BY <1>1, HeapFields DEF Dormant
  <2>2. MaxHeap \in Nat
    BY WordsAssumption
  <2>3. DOMAIN <<>> = {} /\ WordsBelow(0) = {}
    BY DEF WordsBelow
  <2> QED
    BY <2>1, <2>2, <2>3 DEF TypeOK, IInv
<1>2. ASSUME NEW B, Stands(heap, live, B) PROVE TypeOK
  <2> DEFINE m == heap.mem
             t == heap.brk
             r == heap.rover
  <2>1. /\ P!Sound(B, t) /\ t <= MaxHeap /\ Stores(m, t, B) /\ RoverIn(r, B)
        /\ Holds(live, B) /\ heap.listp = "heap"
    BY <1>2, BlocksAre DEF Stands, Rep
  <2> HIDE DEF m, t, r
  <2>2. /\ t \in Nat /\ MaxHeap \in Nat /\ t >= 16
        /\ \A x \in B : x.lo \in Nat /\ x.hi \in Nat /\ x.lo + 16 <= x.hi /\ x.hi <= t
    BY <2>1, SoundFacts, WordsAssumption
  <2>3. t \in 0 .. MaxHeap
    BY <2>1, <2>2
  <2>4. r \in 0 .. MaxHeap
    <3>1. \A x \in B : x.lo \in 0 .. MaxHeap
      BY <2>1, <2>2
    <3>2. 0 \in 0 .. MaxHeap /\ 8 \in 0 .. MaxHeap
      BY <2>1, <2>2
    <3> QED
      BY <2>1, <3>1, <3>2 DEF RoverIn
  <2>5. DOMAIN m = WordsBelow(t) /\ \A a \in DOMAIN m : m[a] \in Nat
    BY <2>1 DEF Stores
  <2>6. \A p \in DOMAIN live : p \in Nat /\ live[p] \in Sizes
    BY <2>1, <2>2 DEF Holds, P!Held
  <2> QED
    BY <2>1, <2>3, <2>4, <2>5, <2>6 DEF TypeOK, IInv, m, t, r
<1> QED
  BY <1>1, <1>2 DEF IInv

LEMMA ConsistencyFollows ==
  ASSUME IInv
  PROVE  HeapIsConsistent
<1> SUFFICES ASSUME Started
             PROVE  /\ Header(8) = 9 /\ heap.mem[8] = 9
                    /\ heap.brk \in Walk /\ Header(heap.brk) = 1
                    /\ \A bp \in BlockPtrs :
                         /\ bp % 8 = 0 /\ GET_SIZE(Header(bp)) >= 2 * 8
                         /\ heap.mem[FTRP(heap.mem, bp)] = Header(bp)
  BY TypeFollows DEF HeapIsConsistent
<1>1. PICK B : Stands(heap, live, B)
  BY Mapped DEF IInv
<1> DEFINE m == heap.mem
           t == heap.brk
<1>2. P!Sound(B, t) /\ Stores(m, t, B)
  BY <1>1 DEF Stands, Rep
<1>3. \A y : y \in Walk <=> y = t \/ \E x \in B : y = x.lo
  BY <1>1, BlocksAre DEF Walk
<1>4. /\ Header(8) = 9 /\ m[8] = 9 /\ Header(t) = 1
  BY <1>2 DEF Header, Stores
<1>5. ASSUME NEW x \in B
      PROVE  /\ x.lo % 8 = 0 /\ GET_SIZE(Header(x.lo)) >= 2 * 8
             /\ m[FTRP(m, x.lo)] = Header(x.lo)
  <2>1. x.lo \in Nat /\ x.hi \in Nat /\ x.lo + 16 <= x.hi /\ x.lo % 8 = 0
    BY <1>2, SoundFacts
  <2>2. GET_SIZE(m[x.lo - 4]) = x.hi - x.lo
    BY <1>2, NodesAre
  <2>3. m[x.lo - 4] = Word(x) /\ m[x.hi - 8] = Word(x)
    BY <1>2 DEF Stores, Tagged
  <2>4. FTRP(m, x.lo) = x.hi - 8
    BY <2>1, <2>2 DEF FTRP
  <2> QED
    BY <2>1, <2>2, <2>3, <2>4 DEF Header
<1>6. \A bp \in BlockPtrs : \E x \in B : bp = x.lo
  BY <1>3 DEF BlockPtrs
<1> QED
  BY <1>3, <1>4, <1>5, <1>6

\* What a call leaves passes checkheap: prologue and epilogue stand, and the
\* footer of every block, allocated or free, agrees with its header
\* (mm_implicit_list.c checkheap and checkblock).
THEOREM HeapStaysConsistent == Spec => []HeapIsConsistent
<1>1. IInv => HeapIsConsistent
  BY ConsistencyFollows
<1> QED
  BY HeapStands, <1>1, PTL

\* After any number of merges the rover of next fit is a block pointer of the
\* heap, not an address inside a block (mm_implicit_list.c coalesce).
THEOREM RoverStaysABlock == Spec => []RoverIsABlock
<1>1. ASSUME IInv PROVE RoverIsABlock
  <2> SUFFICES ASSUME NextFit, Started PROVE heap.rover \in BlockPtrs \cup {8}
    BY DEF RoverIsABlock
  <2>1. PICK B : Stands(heap, live, B)
    BY <1>1, Mapped DEF IInv
  <2> DEFINE t == heap.brk
             r == heap.rover
  <2>2. P!Sound(B, t) /\ RoverIn(r, B)
    BY <2>1 DEF Stands, Rep
  <2>3. \A y : y \in Walk <=> y = t \/ \E x \in B : y = x.lo
    BY <2>1, BlocksAre DEF Walk
  <2>4. \A x \in B : x.lo # t
    BY <2>2, SoundFacts
  <2>5. \A x \in B : x.lo \in BlockPtrs
    BY <2>3, <2>4 DEF BlockPtrs
  <2> QED
    BY <2>2, <2>5 DEF RoverIn
<1> QED
  BY HeapStands, <1>1, PTL

-----------------------------------------------------------------------------
\* The specification this heap implements has the operators proved about.
LEMMA SameOperators ==
  ASSUME NEW B, NEW lo, NEW hi, NEW b, NEW x, NEW asize, NEW size, NEW t, NEW more
  PROVE  /\ BH!Coalesce(B, lo, hi) = P!Coalesce(B, lo, hi)
         /\ BH!Place(B, b, asize, size) = P!Place(B, b, asize, size)
         /\ BH!Release(B, x) = P!Release(B, x)
         /\ BH!Fits(B, asize) = P!Fits(B, asize)
         /\ BH!Growth(B, asize) = P!Growth(B, asize)
         /\ BH!Grown(B, t, more) = P!Grown(B, t, more)
         /\ BH!EmptyHeap = P!EmptyHeap /\ BH!FirstHeap = P!FirstHeap
<1>1. \A C, l, h : BH!Coalesce(C, l, h) = P!Coalesce(C, l, h)
  BY DEF BH!Coalesce, BH!Left, BH!Right, P!Coalesce, P!Left, P!Right
<1>2. BH!Place(B, b, asize, size) = P!Place(B, b, asize, size)
  BY <1>1 DEF BH!Place, BH!Length, BH!MINBLOCK, P!Place, P!Length, P!MINBLOCK
<1>3. BH!Release(B, x) = P!Release(B, x)
  BY <1>1 DEF BH!Release, P!Release
<1>4. BH!Fits(B, asize) = P!Fits(B, asize)
  BY DEF BH!Fits, BH!Length, P!Fits, P!Length
<1>5. BH!Growth(B, asize) = P!Growth(B, asize)
  BY <1>4 DEF BH!Growth, P!Growth
<1>6. BH!Grown(B, t, more) = P!Grown(B, t, more)
  BY <1>1 DEF BH!Grown, P!Grown
<1>7. BH!EmptyHeap = P!EmptyHeap /\ BH!FirstHeap = P!FirstHeap
  BY <1>1 DEF BH!EmptyHeap, BH!FirstHeap, P!EmptyHeap, P!FirstHeap
<1> QED
  BY <1>1, <1>2, <1>3, <1>4, <1>5, <1>6, <1>7

\* The abstract state: the blocks and the break.
Shows(B, t)     == AbstractBlocks = B /\ (IF Started THEN heap.brk ELSE 0) = t
ShowsNext(B, t) == AbstractBlocks' = B /\ (IF Started' THEN heap'.brk ELSE 0) = t

LEMMA Shown ==
  /\ \A B : Stands(heap, live, B) => Shows(B, heap.brk)
  /\ Dormant(heap, live) => Shows({}, 0)
  /\ \A B, l : l = live' /\ Stands(heap', l, B) => ShowsNext(B, heap'.brk)
  /\ Dormant(heap', live') => ShowsNext({}, 0)
BY Mapped, MappedNext DEF Shows, ShowsNext

\* The heap malloc works on is one of those BlockHeap works on.
LEMMA BaseIsStarted ==
  ASSUME NEW h, NEW B, Base(h, B)
  PROVE  [blocks |-> B, top |-> h.brk] \in BH!Started /\ P!Sound(B, h.brk)
<1>1. P!Sound(B, h.brk)
  BY DEF Base, Stands, Rep
<1>2. CASE h = heap
  <2>1. Shows(B, h.brk)
    BY <1>2, Shown DEF Base
  <2>2. h.brk # 0
    <3>1. h.brk \in Nat /\ h.brk >= 16
      BY <1>1, SoundFacts
    <3> QED
      BY <3>1
  <2> QED
    BY <1>1, <2>1, <2>2 DEF Shows, BH!Started
<1>3. CASE Dormant(heap, live) /\ Fresh(B, h.brk)
  <2>1. Shows({}, 0)
    BY <1>3, Shown
  <2>2. PICK e \in {P!EmptyHeap, P!FirstHeap} : B = e.blocks /\ h.brk = e.top
    BY <1>3 DEF Fresh
  <2>3. e = [blocks |-> B, top |-> h.brk]
    BY <2>2 DEF P!EmptyHeap, P!FirstHeap
  <2>4. BH!Started = {P!EmptyHeap, P!FirstHeap}
    BY <2>1, SameOperators DEF Shows, BH!Started
  <2> QED
    BY <1>1, <2>2, <2>3, <2>4
<1> QED
  BY <1>2, <1>3 DEF Base

LEMMA FreshStep ==
  ASSUME NEW B, Fresh(B, heap'.brk), ShowsNext(B, heap'.brk)
  PROVE  BH!NewTrace
BY SameOperators DEF Fresh, ShowsNext, BH!NewTrace

LEMMA ServedStep ==
  ASSUME NEW h, NEW B, Base(h, B), NEW size \in Sizes, NEW q, NEW B1,
         Stands(heap', live', B1), Served(B, h.brk, B1, heap'.brk, size, q)
  PROVE  BH!Malloc(size)
<1> DEFINE asize == AdjustedSize(size)
           e     == [blocks |-> B, top |-> h.brk]
           more  == P!Growth(B, asize)
           grown == P!Grown(B, h.brk, more)
<1>1. e \in BH!Started
  BY BaseIsStarted
<1>2. heap'.brk = h.brk + more /\ \E b \in P!Fits(grown, asize) : B1 = P!Place(grown, b, asize, size)
  BY DEF Served
<1>3. heap'.brk <= MaxHeap
  BY DEF Stands, Rep
<1>4. ShowsNext(B1, heap'.brk)
  BY Shown
<1>5. e.blocks = B /\ e.top = h.brk
  OBVIOUS
<1> HIDE DEF e
<1>6. /\ e.top + BH!Growth(e.blocks, asize) <= MaxHeap
      /\ (IF Started' THEN heap'.brk ELSE 0) = e.top + BH!Growth(e.blocks, asize)
      /\ \E b \in BH!Fits(BH!Grown(e.blocks, e.top, BH!Growth(e.blocks, asize)), asize) :
           AbstractBlocks' = BH!Place(BH!Grown(e.blocks, e.top, BH!Growth(e.blocks, asize)),
                                      b, asize, size)
  <2>1. BH!Growth(e.blocks, asize) = more
    BY <1>5, SameOperators
  <2>2. BH!Grown(e.blocks, e.top, more) = grown
    BY <1>5, SameOperators
  <2> HIDE DEF more, grown, asize
  <2>3. BH!Fits(grown, asize) = P!Fits(grown, asize)
    BY SameOperators
  <2>4. \A b : BH!Place(grown, b, asize, size) = P!Place(grown, b, asize, size)
    BY SameOperators
  <2> QED
    BY <1>2, <1>3, <1>4, <1>5, <2>1, <2>2, <2>3, <2>4 DEF ShowsNext
<1> QED
  BY <1>1, <1>6 DEF BH!Malloc

LEMMA ServedThenReleased ==
  ASSUME NEW B, Stands(heap, live, B), NEW size \in Sizes, NEW q, NEW B1,
         NEW x \in P!Held(B), Stands(heap', live', P!Release(B1, x)),
         Served(B, heap.brk, B1, heap'.brk, size, q)
  PROVE  BH!Realloc(x, size)
<1> DEFINE asize == AdjustedSize(size)
           t     == heap.brk
           more  == P!Growth(B, asize)
           grown == P!Grown(B, t, more)
<1>1. Shows(B, t) /\ ShowsNext(P!Release(B1, x), heap'.brk)
  BY Shown
<1>2. heap'.brk = t + more /\ \E b \in P!Fits(grown, asize) : B1 = P!Place(grown, b, asize, size)
  BY DEF Served
<1>3. heap'.brk <= MaxHeap
  BY DEF Stands, Rep
<1>4. x \in B /\ x.req > 0
  BY DEF P!Held
<1>5. BH!Growth(B, asize) = more /\ BH!Grown(B, t, more) = grown
  BY SameOperators
<1> HIDE DEF more, grown, asize, t
<1>6. BH!Fits(grown, asize) = P!Fits(grown, asize)
  BY SameOperators
<1>7. \A b : BH!Place(grown, b, asize, size) = P!Place(grown, b, asize, size)
  BY SameOperators
<1>8. \A C : BH!Release(C, x) = P!Release(C, x)
  BY SameOperators
<1>9. AbstractBlocks = B /\ (IF Started THEN heap.brk ELSE 0) = t
  BY <1>1 DEF Shows
<1>10. AbstractBlocks' = P!Release(B1, x) /\ (IF Started' THEN heap'.brk ELSE 0) = heap'.brk
  BY <1>1 DEF ShowsNext
<1>11. PICK b \in P!Fits(grown, asize) : B1 = P!Place(grown, b, asize, size)
  BY <1>2
<1>12. AbstractBlocks' = BH!Release(BH!Place(grown, b, asize, size), x)
  BY <1>7, <1>8, <1>10, <1>11
<1> QED
  BY <1>2, <1>3, <1>4, <1>5, <1>6, <1>9, <1>10, <1>12 DEF BH!Realloc, asize

LEMMA StepImplements ==
  ASSUME IInv, [Next]_vars
  PROVE  [BH!Next]_(BH!vars)
<1> DEFINE Same == AbstractBlocks' = AbstractBlocks
                   /\ (IF Started' THEN heap'.brk ELSE 0) = (IF Started THEN heap.brk ELSE 0)
<1>1. Same => UNCHANGED BH!vars
  BY DEF BH!vars
<1>2. \A B, t : Shows(B, t) /\ ShowsNext(B, t) => Same
  BY DEF Shows, ShowsNext
<1>3. CASE UNCHANGED vars
  BY <1>1, <1>3 DEF vars, AbstractBlocks, BlockPtrs, Walk, Started
<1> HIDE DEF Same
<1>4. ASSUME NewTrace PROVE BH!Next
  <2>1. CASE Dormant(heap', live')
    BY <2>1, Shown DEF ShowsNext, BH!NewTrace, BH!Next
  <2>2. CASE \E B : Stands(heap', live', B) /\ Fresh(B, heap'.brk)
    BY <2>2, Shown, FreshStep DEF BH!Next
  <2> QED
    BY <1>4, <2>1, <2>2, NewTraceStep
<1>5. ASSUME NEW size \in program.mallocs \cup {0}, Malloc(size) PROVE BH!Next \/ Same
  <2>1. CASE Dormant(heap, live) /\ Dormant(heap', live')
    BY <1>2, <2>1, Shown
  <2>2. ASSUME NEW h, NEW B, Base(h, B), Unserved(h, B) PROVE BH!Next \/ Same
    <3>1. ShowsNext(B, h.brk) /\ heap'.brk = h.brk
      BY <2>2, Shown DEF Unserved
    <3>2. CASE h = heap
      BY <1>2, <2>2, <3>1, <3>2, Shown DEF Base
    <3>3. CASE Fresh(B, h.brk)
      BY <3>1, <3>3, FreshStep DEF BH!Next
    <3> QED
      BY <2>2, <3>2, <3>3 DEF Base
  <2>3. ASSUME NEW h, NEW B, NEW q, NEW B1, Base(h, B), size \in Sizes,
               Stands(heap', live', B1), Served(B, h.brk, B1, heap'.brk, size, q)
        PROVE  BH!Next
    <3>1. BH!Malloc(size)
      BY <2>3, ServedStep
    <3> QED
      BY <2>3, <3>1 DEF BH!Next
  <2> QED
    BY <1>5, <2>1, <2>2, <2>3, MallocStep
<1>6. ASSUME NEW p \in DOMAIN live, Free(p) PROVE BH!Next
  <2>1. PICK B : \E x \in P!Held(B) :
           /\ Stands(heap, live, B) /\ Stands(heap', live', P!Release(B, x))
           /\ heap'.brk = heap.brk
    BY <1>6, FreeStep
  <2>2. PICK x \in P!Held(B) :
           /\ Stands(heap, live, B) /\ Stands(heap', live', P!Release(B, x))
           /\ heap'.brk = heap.brk
    BY <2>1
  <2>3. Shows(B, heap.brk) /\ ShowsNext(P!Release(B, x), heap.brk)
    BY <2>2, Shown
  <2>4. x \in B /\ x.req > 0 /\ BH!Release(B, x) = P!Release(B, x)
    BY SameOperators DEF P!Held
  <2>5. x \in AbstractBlocks /\ BH!Free(x)
    BY <2>3, <2>4 DEF Shows, ShowsNext, BH!Free
  <2> QED
    BY <2>5 DEF BH!Next
<1>7. ASSUME NEW p \in DOMAIN live, NEW size \in program.reallocs, Realloc(p, size)
      PROVE  BH!Next \/ Same
  <2>1. PICK B :
           /\ Stands(heap, live, B) /\ size \in Sizes
           /\ \/ Unserved(heap, B)
              \/ \E x \in P!Held(B) : \E B1, q :
                   /\ Stands(heap', live', P!Release(B1, x))
                   /\ Served(B, heap.brk, B1, heap'.brk, size, q)
    BY <1>7, ReallocStep
  <2>2. CASE Unserved(heap, B)
    BY <1>2, <2>1, <2>2, Shown DEF Unserved
  <2>3. ASSUME NEW x \in P!Held(B), NEW B1, NEW q,
               Stands(heap', live', P!Release(B1, x)), Served(B, heap.brk, B1, heap'.brk, size, q)
        PROVE  BH!Next
    <3>1. BH!Realloc(x, size)
      BY <2>1, <2>3, ServedThenReleased
    <3>2. x \in AbstractBlocks
      BY <2>1, Shown DEF Shows, P!Held
    <3> QED
      BY <2>1, <3>1, <3>2 DEF BH!Next
  <2> QED
    BY <2>1, <2>2, <2>3
<1>8. ASSUME NEW p \in DOMAIN live, NEW v \in program.words, Write(p, v) PROVE Same
  BY <1>2, <1>8, WriteStep, Shown
<1>9. CASE Next
  BY <1>1, <1>4, <1>5, <1>6, <1>7, <1>8, <1>9 DEF Next
<1> QED
  BY <1>3, <1>9

\* Headers, footers and the walk of find_fit implement BlockHeap: every call
\* splits, merges and grows as it does, for first fit and for next fit
\* (mm_implicit_list.c malloc, free, realloc, place, coalesce, extend_heap).
THEOREM HeadersImplementBlocks == Spec => ImplementsBlockHeap
<1>1. Init => BH!Init
  BY DEF Init, BH!Init, AbstractBlocks, BlockPtrs, Started
<1>2. IInv /\ [Next]_vars => [BH!Next]_(BH!vars)
  BY StepImplements
<1> QED
  BY <1>1, <1>2, HeapStands, PTL DEF Spec, ImplementsBlockHeap, BH!Spec

-----------------------------------------------------------------------------
\* The words the client holds through the pointers l.
LiveOf(l) == UNION {Region(p, l[p]) : p \in DOMAIN l}

LEMMA SameRegions ==
  ASSUME NEW l, NEW p, NEW size
  PROVE  /\ A!Region(p, size) = Region(p, size) /\ A!Fields(size) = Fields(size)
         /\ A!LiveWords(l) = LiveOf(l)
         /\ A!With(l, p, size) = With(l, p, size) /\ A!Without(l, p) = Without(l, p)
<1>1. \A n : A!Fields(n) = Fields(n)
  BY DEF A!Fields, A!FSIZE, Fields
<1>2. \A q, n : A!Region(q, n) = Region(q, n)
  BY <1>1 DEF A!Region, A!FSIZE, Region
<1>3. A!LiveWords(l) = LiveOf(l)
  BY <1>2 DEF A!LiveWords, LiveOf
<1>4. A!With(l, p, size) = With(l, p, size) /\ A!Without(l, p) = Without(l, p)
  BY DEF A!With, With, A!Without, Without
<1> QED
  BY <1>1, <1>2, <1>3, <1>4

\* The words of a block the client holds are kept when the block's are.
LEMMA KeptWords ==
  ASSUME NEW h, NEW l, NEW B, Stands(h, l, B), NEW m1, NEW S \in SUBSET P!Held(B),
         Keeps(h.mem, m1, S), NEW y \in S, NEW a \in Region(y.lo, l[y.lo])
  PROVE  m1[a] = h.mem[a]
<1>1. Rep(h.mem, h.brk, h.rover, B) /\ l[y.lo] = y.req /\ y.req \in Nat
  BY SoundFacts DEF Stands, Holds, Rep, P!Held
<1>2. a \in Payload(y)
  BY <1>1, RegionInside
<1> QED
  BY <1>2 DEF Keeps

\* The pointers of the client lead to the blocks it holds.
LEMMA PointerIs ==
  ASSUME NEW h, NEW l, NEW B, Stands(h, l, B), NEW p \in DOMAIN l
  PROVE  /\ \E x \in P!Held(B) : x.lo = p /\ x.req = l[p]
         /\ p \in A!Pointers /\ p % 4 = 0 /\ p \in Nat /\ l[p] \in Nat /\ l[p] \in Sizes
<1>1. /\ P!Sound(B, h.brk) /\ h.brk <= MaxHeap /\ h.brk \in Nat /\ MaxHeap \in Nat
      /\ Holds(l, B)
  BY SoundFacts, WordsAssumption DEF Stands, Rep
<1>2. PICK x \in P!Held(B) : x.lo = p /\ x.req = l[p] /\ x.req \in Sizes
  BY <1>1 DEF Holds
<1>3. /\ p \in Nat /\ l[p] \in Nat /\ p % 8 = 0 /\ 16 <= p /\ p <= MaxHeap
  <2>1. x \in B
    BY DEF P!Held
  <2>2. /\ x.lo \in Nat /\ x.hi \in Nat /\ x.req \in Nat /\ x.lo % 8 = 0 /\ 16 <= x.lo
        /\ x.lo + 16 <= x.hi /\ x.hi <= h.brk
    BY <1>1, <2>1, SoundFacts
  <2> QED
    BY <1>1, <1>2, <2>2
<1>4. p \div 8 \in 1 .. MaxHeap \div 8 /\ p = 8 * (p \div 8)
  BY <1>1, <1>3
<1>5. p \in A!Pointers
  BY <1>4 DEF A!Pointers
<1> QED
  BY <1>2, <1>3, <1>5, WordAligned

\* The regions of two pointers are disjoint.
LEMMA RegionsApart ==
  ASSUME NEW h, NEW l, NEW B, Stands(h, l, B), NEW p \in DOMAIN l, NEW q \in DOMAIN l, p # q,
         NEW a \in Region(p, l[p])
  PROVE  a \notin Region(q, l[q])
<1>1. Rep(h.mem, h.brk, h.rover, B) /\ P!Sound(B, h.brk)
  BY DEF Stands, Rep
<1>2. PICK x \in P!Held(B) : x.lo = p /\ x.req = l[p]
  BY PointerIs
<1>3. PICK y \in P!Held(B) : y.lo = q /\ y.req = l[q]
  BY PointerIs
<1>4. /\ x.lo \in Nat /\ x.hi \in Nat /\ x.req \in Nat /\ y.lo \in Nat /\ y.hi \in Nat
      /\ y.req \in Nat /\ (x.hi <= y.lo \/ y.hi <= x.lo)
  BY <1>1, <1>2, <1>3, SoundFacts DEF P!Held
<1>5. a \in Payload(x)
  BY <1>1, <1>2, <1>4, RegionInside
<1>6. ASSUME a \in Region(q, l[q]) PROVE FALSE
  <2>1. a \in Payload(y)
    BY <1>1, <1>3, <1>4, <1>6, RegionInside
  <2>2. a \in Nat /\ x.lo <= a /\ a <= x.hi - 12 /\ y.lo <= a /\ a <= y.hi - 12
    BY <1>5, <2>1 DEF Payload
  <2> QED
    BY <1>4, <2>2
<1> QED
  BY <1>6

\* A new pointer's region is none of the others'.
LEMMA NewRegionApart ==
  ASSUME NEW h, NEW l, NEW B, NEW q, NEW size, Stands(h, With(l, q, size), B), q \notin DOMAIN l
  PROVE  /\ Region(q, size) \cap LiveOf(l) = {}
         /\ LiveOf(With(l, q, size)) = LiveOf(l) \cup Region(q, size)
<1> DEFINE k == With(l, q, size)
<1>1. /\ DOMAIN k = DOMAIN l \cup {q} /\ k[q] = size
      /\ \A p \in DOMAIN l : k[p] = l[p] /\ p # q
  BY DEF With
<1> HIDE DEF k
<1>2. \A p \in DOMAIN l : \A a \in Region(q, size) : a \notin Region(p, l[p])
  <2> SUFFICES ASSUME NEW p \in DOMAIN l, NEW a \in Region(q, size)
               PROVE  a \notin Region(p, l[p])
    OBVIOUS
  <2>1. Stands(h, k, B) /\ p \in DOMAIN k /\ q \in DOMAIN k /\ p # q /\ a \in Region(q, k[q])
    BY <1>1 DEF k
  <2>2. a \notin Region(p, k[p])
    BY <2>1, RegionsApart
  <2> QED
    BY <1>1, <2>2
<1>3. LiveOf(k) = LiveOf(l) \cup Region(q, size)
  BY <1>1 DEF LiveOf
<1> QED
  BY <1>2, <1>3 DEF k, LiveOf

\* The words live before and after the step are kept, those of R excepted.
Steady(R) ==
  \A a \in LiveOf(live) : a \in LiveOf(live') => a \in R \/ heap'.mem[a] = heap.mem[a]

LEMMA Kept ==
  ASSUME NEW R, Steady(R)
  PROVE  A!KeepsExcept(R)
BY SameRegions DEF A!KeepsExcept, LiveOf, Steady

\* The words in which a pointer taken away has no part.
LEMMA LeftRegions ==
  ASSUME NEW l, NEW p \in DOMAIN l, NEW a \in LiveOf(Without(l, p))
  PROVE  \E q \in DOMAIN l : q # p /\ a \in Region(q, l[q])
BY DEF LiveOf, Without

LEMMA HeldKept ==
  ASSUME NEW h, NEW l, NEW B, Stands(h, l, B), NEW m1, Keeps(h.mem, m1, P!Held(B)),
         NEW q \in DOMAIN l, NEW a \in Region(q, l[q])
  PROVE  m1[a] = h.mem[a]
<1>1. PICK y \in P!Held(B) : y.lo = q
  BY PointerIs
<1> DEFINE S == P!Held(B)
<1>2. S \in SUBSET P!Held(B) /\ y \in S /\ Keeps(h.mem, m1, S) /\ a \in Region(y.lo, l[y.lo])
  BY <1>1
<1> HIDE DEF S
<1> QED
  BY <1>2, KeptWords

LEMMA OthersKept ==
  ASSUME NEW h, NEW l, NEW B, Stands(h, l, B), NEW m1, NEW x \in P!Held(B),
         NEW S, S = P!Held(B) \ {x}, Keeps(h.mem, m1, S), NEW q \in DOMAIN l, q # x.lo,
         NEW a \in Region(q, l[q])
  PROVE  m1[a] = h.mem[a]
<1>1. PICK y \in P!Held(B) : y.lo = q
  BY PointerIs
<1>2. y \in S /\ S \in SUBSET P!Held(B)
  BY <1>1
<1> QED
  BY <1>1, <1>2, KeptWords

\* A call that serves no one changes no live word.
LEMMA UnservedKeeps ==
  ASSUME NEW h, NEW B, Base(h, B), Unserved(h, B)
  PROVE  UNCHANGED A!vars
<1>1. live' = live /\ heap'.mem = h.mem
  BY DEF Unserved
<1>2. \A a \in LiveOf(live) : heap'.mem[a] = heap.mem[a]
  <2>1. CASE h = heap
    BY <1>1, <2>1
  <2>2. CASE Dormant(heap, live)
    BY <2>2 DEF Dormant, LiveOf
  <2> QED
    BY <2>1, <2>2 DEF Base
<1> QED
  BY <1>1, <1>2 DEF A!vars, LiveOf

LEMMA EmptyStore ==
  ASSUME live' = <<>>
  PROVE  A!NewTrace
BY DEF A!NewTrace

LEMMA ServedKeeps ==
  ASSUME NEW h, NEW B, Base(h, B), NEW size \in Sizes, NEW q, q \notin DOMAIN live,
         live' = With(live, q, size), NEW B1, Stands(heap', live', B1),
         Keeps(h.mem, heap'.mem, P!Held(B))
  PROVE  q \in A!Pointers /\ A!Malloc(q, size)
<1> DEFINE g == heap'
<1>1. Stands(g, With(live, q, size), B1)
  OBVIOUS
<1> HIDE DEF g
<1>2. q \in DOMAIN With(live, q, size)
  BY DEF With
<1>3. q \in A!Pointers
  BY <1>1, <1>2, PointerIs
<1>4. Region(q, size) \cap LiveOf(live) = {}
  BY <1>1, NewRegionApart
<1>5. \A a \in LiveOf(live) : heap'.mem[a] = heap.mem[a]
  <2>1. CASE h = heap
    <3> SUFFICES ASSUME NEW p \in DOMAIN live, NEW a \in Region(p, live[p])
                 PROVE  heap'.mem[a] = heap.mem[a]
      BY DEF LiveOf
    <3> DEFINE m1 == heap'.mem
    <3>1. Stands(heap, live, B) /\ Keeps(heap.mem, m1, P!Held(B))
      BY <2>1 DEF Base
    <3> HIDE DEF m1
    <3>2. m1[a] = heap.mem[a]
      BY <3>1, HeldKept
    <3> QED
      BY <3>2 DEF m1
  <2>2. CASE Dormant(heap, live)
    BY <2>2 DEF Dormant, LiveOf
  <2> QED
    BY <2>1, <2>2 DEF Base
<1>6. A!KeepsExcept({})
  BY <1>5, Kept DEF Steady
<1> QED
  BY <1>3, <1>4, <1>6, SameRegions DEF A!Malloc

LEMMA ReleasedKeeps ==
  ASSUME NEW B, Stands(heap, live, B), NEW p \in DOMAIN live, NEW x \in P!Held(B), x.lo = p,
         live' = Without(live, p), Keeps(heap.mem, heap'.mem, P!Held(B) \ {x})
  PROVE  p \in A!Pointers /\ A!Free(p)
<1>1. p \in A!Pointers
  BY PointerIs
<1>2. ASSUME NEW a \in LiveOf(live), a \in LiveOf(live')
      PROVE  heap'.mem[a] = heap.mem[a]
  <2>1. PICK q \in DOMAIN live : q # p /\ a \in Region(q, live[q])
    BY <1>2, LeftRegions
  <2> DEFINE m1 == heap'.mem
             S  == P!Held(B) \ {x}
  <2>2. Keeps(heap.mem, m1, S) /\ S = P!Held(B) \ {x} /\ q # x.lo
    BY <2>1
  <2> HIDE DEF m1, S
  <2>3. m1[a] = heap.mem[a]
    BY <2>1, <2>2, OthersKept
  <2> QED
    BY <2>3 DEF m1
<1>3. A!KeepsExcept({})
  BY <1>2, Kept DEF Steady
<1> QED
  BY <1>1, <1>3, SameRegions DEF A!Free

LEMMA WrittenKeeps ==
  ASSUME NEW B, Stands(heap, live, B), NEW p \in DOMAIN live, NEW x \in P!Held(B), x.lo = p,
         live' = live, Keeps(heap.mem, heap'.mem, P!Held(B) \ {x}),
         NEW v, Filling(heap'.mem, Region(p, live[p]), v)
  PROVE  p \in A!Pointers /\ A!Write(p, v)
<1>1. p \in A!Pointers
  BY PointerIs
<1>2. ASSUME NEW a \in LiveOf(live), a \notin Region(p, live[p])
      PROVE  heap'.mem[a] = heap.mem[a]
  <2>1. PICK q \in DOMAIN live : q # p /\ a \in Region(q, live[q])
    BY <1>2 DEF LiveOf
  <2> DEFINE m1 == heap'.mem
             S  == P!Held(B) \ {x}
  <2>2. Keeps(heap.mem, m1, S) /\ S = P!Held(B) \ {x} /\ q # x.lo
    BY <2>1
  <2> HIDE DEF m1, S
  <2>3. m1[a] = heap.mem[a]
    BY <2>1, <2>2, OthersKept
  <2> QED
    BY <2>3 DEF m1
<1> DEFINE R == Region(p, live[p])
<1>3. Steady(R)
  BY <1>2 DEF Steady
<1>4. A!Region(p, live[p]) = R
  BY SameRegions
<1>5. \A a \in R : [b \in LiveOf(live') |-> heap'.mem[b]][a] = v
  BY DEF Filling, LiveOf
<1> QED
  BY <1>1, <1>3, <1>4, <1>5, SameRegions DEF A!Write, A!KeepsExcept, Steady, LiveOf

LEMMA MovedKeeps ==
  ASSUME NEW B, Stands(heap, live, B), NEW p \in DOMAIN live, NEW x \in P!Held(B), x.lo = p,
         NEW q, q \notin DOMAIN live, NEW size \in Sizes,
         live' = With(Without(live, p), q, size), NEW C, Stands(heap', live', C),
         Keeps(heap.mem, heap'.mem, P!Held(B) \ {x}),
         Moved(heap'.mem, q, size, heap.mem, p, live[p])
  PROVE  p \in A!Pointers /\ q \in A!Pointers /\ A!Realloc(p, q, size)
<1> DEFINE l0 == Without(live, p)
           g  == heap'
           m1 == heap'.mem
<1>1. Stands(g, With(l0, q, size), C) /\ q \notin DOMAIN l0
  BY DEF Without
<1>2. Keeps(heap.mem, m1, P!Held(B) \ {x}) /\ live' = With(l0, q, size)
  OBVIOUS
<1>3. Moved(m1, q, size, heap.mem, p, live[p])
  OBVIOUS
<1> HIDE DEF g, m1, l0
<1>4. q \in DOMAIN With(l0, q, size) /\ With(l0, q, size)[q] = size
  BY DEF With
<1>5. p \in A!Pointers /\ q \in A!Pointers
  BY <1>1, <1>4, PointerIs
<1>6. Region(q, size) \cap LiveOf(l0) = {} /\ LiveOf(live') = LiveOf(l0) \cup Region(q, size)
  BY <1>1, <1>2, NewRegionApart
<1>7. ASSUME NEW a \in LiveOf(live), a \in LiveOf(live'), a \notin Region(q, size)
      PROVE  m1[a] = heap.mem[a]
  <2>1. a \in LiveOf(Without(live, p))
    BY <1>6, <1>7 DEF l0
  <2>2. PICK y \in DOMAIN live : y # x.lo /\ a \in Region(y, live[y])
    BY <2>1, LeftRegions
  <2> DEFINE S == P!Held(B) \ {x}
  <2>3. Keeps(heap.mem, m1, S) /\ S = P!Held(B) \ {x}
    BY <1>2
  <2> HIDE DEF S
  <2> QED
    BY <2>2, <2>3, OthersKept
<1>8. A!KeepsExcept(Region(q, size))
  BY <1>7, Kept DEF Steady, m1
<1>9. Fields(size) \in Nat /\ Fields(live[p]) \in Nat
  <2>1. size \in Nat
    BY SizesAreRequests
  <2>2. live[p] \in Nat /\ p \in Nat /\ p % 4 = 0
    BY PointerIs
  <2> QED
    BY <2>1, <2>2, RegionIs
<1>10. ASSUME NEW i \in 0 .. Fields(size) - 1, i < Fields(live[p])
       PROVE  /\ m1[q + 4 * i] = heap.mem[p + 4 * i]
              /\ q + 4 * i \in LiveOf(live') /\ p + 4 * i \in LiveOf(live)
  <2>1. i \in Nat /\ i < Fields(size) /\ i \in 0 .. Fields(live[p]) - 1
    BY <1>9, <1>10
  <2>2. m1[q + 4 * i] = heap.mem[p + 4 * i]
    BY <1>3, <1>10, <2>1 DEF Moved
  <2>3. q + 4 * i \in Region(q, size) /\ p + 4 * i \in Region(p, live[p])
    BY <2>1 DEF Region
  <2> QED
    BY <1>6, <2>2, <2>3 DEF LiveOf
<1>11. A!Region(q, size) = Region(q, size) /\ A!Without(live, p) = l0
       /\ A!With(l0, q, size) = With(l0, q, size) /\ A!LiveWords(l0) = LiveOf(l0)
       /\ A!Fields(size) = Fields(size) /\ A!Fields(live[p]) = Fields(live[p])
  BY SameRegions DEF l0
<1>12. \A i \in 0 .. Fields(size) - 1 : i < Fields(live[p]) =>
         [a \in LiveOf(live') |-> heap'.mem[a]][q + 4 * i]
           = [a \in LiveOf(live) |-> heap.mem[a]][p + 4 * i]
  BY <1>10 DEF m1
<1>13. q \notin DOMAIN live \ {p}
  OBVIOUS
<1> QED
  BY <1>2, <1>5, <1>6, <1>8, <1>11, <1>12, <1>13 DEF A!Realloc, A!FSIZE, LiveOf

LEMMA StepImplementsAllocator ==
  ASSUME IInv, [Next]_vars
  PROVE  [A!Next]_(A!vars)
<1>1. CASE UNCHANGED vars
  BY <1>1 DEF vars, A!vars
<1>2. ASSUME NewTrace PROVE A!Next
  BY <1>2, NewTraceStep, EmptyStore DEF A!Next
<1>3. ASSUME NEW size \in program.mallocs \cup {0}, Malloc(size)
      PROVE  A!Next \/ UNCHANGED A!vars
  <2>1. CASE Dormant(heap', live')
    BY <2>1, EmptyStore DEF Dormant, A!Next
  <2>2. ASSUME NEW h, NEW B, Base(h, B), Unserved(h, B) PROVE UNCHANGED A!vars
    BY <2>2, UnservedKeeps
  <2>3. ASSUME NEW h, NEW B, NEW q, NEW B1, Base(h, B), size \in Sizes,
               q \notin DOMAIN live, live' = With(live, q, size),
               Stands(heap', live', B1), Keeps(h.mem, heap'.mem, P!Held(B))
        PROVE  A!Next
    <3>1. q \in A!Pointers /\ A!Malloc(q, size)
      BY <2>3, ServedKeeps
    <3> QED
      BY <2>3, <3>1 DEF A!Next
  <2> QED
    BY <1>3, <2>1, <2>2, <2>3, MallocStep
<1>4. ASSUME NEW p \in DOMAIN live, Free(p) PROVE A!Next
  <2>1. PICK B : \E x \in P!Held(B) :
           /\ Stands(heap, live, B) /\ x.lo = p /\ live' = Without(live, p)
           /\ Keeps(heap.mem, heap'.mem, P!Held(B) \ {x})
    BY <1>4, FreeStep
  <2>2. p \in A!Pointers /\ A!Free(p)
    BY <2>1, ReleasedKeeps
  <2> QED
    BY <2>2 DEF A!Next
<1>5. ASSUME NEW p \in DOMAIN live, NEW size \in program.reallocs, Realloc(p, size)
      PROVE  A!Next \/ UNCHANGED A!vars
  <2>1. PICK B :
           /\ Stands(heap, live, B) /\ size \in Sizes
           /\ \/ Unserved(heap, B)
              \/ \E x \in P!Held(B) : \E B1, q :
                   /\ x.lo = p /\ q \notin DOMAIN live
                   /\ live' = With(Without(live, p), q, size)
                   /\ Stands(heap', live', P!Release(B1, x))
                   /\ Keeps(heap.mem, heap'.mem, P!Held(B) \ {x})
                   /\ Moved(heap'.mem, q, size, heap.mem, p, live[p])
    BY <1>5, ReallocStep
  <2>2. CASE Unserved(heap, B)
    BY <2>1, <2>2, UnservedKeeps DEF Base
  <2>3. ASSUME NEW x \in P!Held(B), NEW C, NEW q, x.lo = p, q \notin DOMAIN live,
               live' = With(Without(live, p), q, size), Stands(heap', live', C),
               Keeps(heap.mem, heap'.mem, P!Held(B) \ {x}),
               Moved(heap'.mem, q, size, heap.mem, p, live[p])
        PROVE  A!Next
    <3>1. p \in A!Pointers /\ q \in A!Pointers /\ A!Realloc(p, q, size)
      BY <2>1, <2>3, MovedKeeps
    <3> QED
      BY <2>1, <3>1 DEF A!Next
  <2> QED
    BY <2>1, <2>2, <2>3
<1>6. ASSUME NEW p \in DOMAIN live, NEW v \in program.words, Write(p, v) PROVE A!Next
  <2>1. PICK B : \E x \in P!Held(B) :
           /\ Stands(heap, live, B) /\ x.lo = p /\ v \in UserWords /\ live' = live
           /\ Filling(heap'.mem, Region(p, live[p]), v)
           /\ Keeps(heap.mem, heap'.mem, P!Held(B) \ {x})
    BY <1>6, WriteStep
  <2>2. p \in A!Pointers /\ A!Write(p, v)
    BY <2>1, WrittenKeeps
  <2> QED
    BY <2>1, <2>2 DEF A!Next
<1>7. CASE Next
  BY <1>2, <1>3, <1>4, <1>5, <1>6, <1>7 DEF Next
<1> QED
  BY <1>1, <1>7

\* No header, footer or copy of the allocator lands in a word the client holds,
\* whatever words the client writes; a region realloc returns starts with the
\* words of the old one (mm_implicit_list.c malloc, free, realloc).
THEOREM HeadersImplementAllocator == Spec => ImplementsAllocator
<1>1. Init => A!Init
  BY DEF Init, A!Init
<1>2. IInv /\ [Next]_vars => [A!Next]_(A!vars)
  BY StepImplementsAllocator
<1> QED
  BY <1>1, <1>2, HeapStands, PTL DEF Spec, ImplementsAllocator, A!Spec
=============================================================================
