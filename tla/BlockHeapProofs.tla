--------------------------- MODULE BlockHeapProofs ---------------------------
(***************************************************************************)
(* Proofs about BlockHeap, for every heap limit, chunk size and set of     *)
(* requests.  The argument: every step of malloc, free and realloc first   *)
(* opens a hole in a sound heap (a region between its blocks that no block *)
(* covers) and then closes it with Coalesce, or takes a free block whole.  *)
(***************************************************************************)
EXTENDS BlockHeap, TLAPS

\* A sound heap whose break is t.
Sound(B, t) ==
  /\ B \subseteq Block
  /\ t \in Nat /\ t >= HEAP_START /\ t % 8 = 0
  /\ Sized(B, t)
  /\ Disjoint(B)
  /\ Tiled(B, t)
  /\ Coalesced(B)

\* A heap that is sound but for the region lo..hi, which no block covers.
Hole(B, lo, hi, t) ==
  /\ B \subseteq Block
  /\ t \in Nat /\ t >= HEAP_START /\ t % 8 = 0
  /\ Sized(B, t)
  /\ Disjoint(B)
  /\ Coalesced(B)
  /\ lo \in Nat /\ hi \in Nat /\ lo % 8 = 0 /\ hi % 8 = 0
  /\ HEAP_START <= lo /\ lo + MINBLOCK <= hi /\ hi <= t
  /\ \A x \in B : x.hi <= lo \/ hi <= x.lo
  /\ \A x \in B : x.hi = t \/ x.hi = lo \/ \E y \in B : y.lo = x.hi
  /\ hi = t \/ \E y \in B : y.lo = hi
  /\ lo = HEAP_START \/ \E y \in B : y.lo = HEAP_START

Held(B) == {x \in B : x.req > 0}

IInv ==
  /\ (blocks = {} /\ top = 0) \/ Sound(blocks, top)
  /\ top \in 0 .. MaxHeap

-----------------------------------------------------------------------------
\* At most one free block ends where the hole begins.
LEMMA LeftOfHole ==
  ASSUME NEW B, NEW lo, NEW hi, NEW t, Hole(B, lo, hi, t), Left(B, lo) # {}
  PROVE  \E z \in B : Left(B, lo) = {z} /\ z.req = 0 /\ z.hi = lo
<1>1. PICK z \in Left(B, lo) : TRUE
  OBVIOUS
<1>2. z \in B /\ z.req = 0 /\ z.hi = lo
  BY <1>1 DEF Left
<1>3. ASSUME NEW x \in Left(B, lo) PROVE x = z
  BY <1>2, <1>3, StartAssumption DEF Left, Hole, Sized, Disjoint, Block, MINBLOCK
<1> QED
  BY <1>1, <1>2, <1>3

\* At most one free block begins where the hole ends.
LEMMA RightOfHole ==
  ASSUME NEW B, NEW lo, NEW hi, NEW t, Hole(B, lo, hi, t), Right(B, hi) # {}
  PROVE  \E z \in B : Right(B, hi) = {z} /\ z.req = 0 /\ z.lo = hi
<1>1. PICK z \in Right(B, hi) : TRUE
  OBVIOUS
<1>2. z \in B /\ z.req = 0 /\ z.lo = hi
  BY <1>1 DEF Right
<1>3. ASSUME NEW x \in Right(B, hi) PROVE x = z
  BY <1>2, <1>3, StartAssumption DEF Right, Hole, Sized, Disjoint, Block, MINBLOCK
<1> QED
  BY <1>1, <1>2, <1>3

\* Coalesce replaces the free neighbours of the hole and the hole itself by
\* one free block; nothing else changes.
LEMMA CoalesceCloses ==
  ASSUME NEW B, NEW lo, NEW hi, NEW t, Hole(B, lo, hi, t)
  PROVE  \E n \in Block :
           /\ Coalesce(B, lo, hi) = (B \ (Left(B, lo) \cup Right(B, hi))) \cup {n}
           /\ n.req = 0
           /\ n.lo <= lo /\ hi <= n.hi
           /\ \/ n.lo = lo /\ Left(B, lo) = {}
              \/ \E z \in B : Left(B, lo) = {z} /\ z.req = 0 /\ z.hi = lo /\ n.lo = z.lo
           /\ \/ n.hi = hi /\ Right(B, hi) = {}
              \/ \E z \in B : Right(B, hi) = {z} /\ z.req = 0 /\ z.lo = hi /\ n.hi = z.hi
<1> DEFINE low  == IF Left(B, lo) = {} THEN lo ELSE (CHOOSE x \in Left(B, lo) : TRUE).lo
<1> DEFINE high == IF Right(B, hi) = {} THEN hi ELSE (CHOOSE x \in Right(B, hi) : TRUE).hi
<1> DEFINE n    == [lo |-> low, hi |-> high, req |-> 0]
<1>1. lo \in Nat /\ hi \in Nat /\ B \subseteq Block
  BY DEF Hole
<1>2. \/ low = lo /\ Left(B, lo) = {}
      \/ \E z \in B : Left(B, lo) = {z} /\ z.req = 0 /\ z.hi = lo /\ low = z.lo
  BY LeftOfHole
<1>3. \/ high = hi /\ Right(B, hi) = {}
      \/ \E z \in B : Right(B, hi) = {z} /\ z.req = 0 /\ z.lo = hi /\ high = z.hi
  BY RightOfHole
<1>4. low \in Nat /\ low <= lo
  BY <1>1, <1>2 DEF Hole, Sized, Block, MINBLOCK
<1>5. high \in Nat /\ hi <= high
  BY <1>1, <1>3 DEF Hole, Sized, Block, MINBLOCK
<1>6. Coalesce(B, lo, hi) = (B \ (Left(B, lo) \cup Right(B, hi))) \cup {n}
  BY DEF Coalesce
<1> HIDE DEF low, high
<1>7. n \in Block /\ n.req = 0 /\ n.lo = low /\ n.hi = high
  BY <1>4, <1>5 DEF Block
<1> QED
  BY <1>2, <1>3, <1>4, <1>5, <1>6, <1>7

\* Closing a hole makes a sound heap, and leaves the client's blocks alone.
LEMMA CoalesceIsSound ==
  ASSUME NEW B, NEW lo, NEW hi, NEW t, Hole(B, lo, hi, t)
  PROVE  Sound(Coalesce(B, lo, hi), t) /\ Held(Coalesce(B, lo, hi)) = Held(B)
<1> DEFINE L == Left(B, lo)
<1> DEFINE R == Right(B, hi)
<1> DEFINE C == Coalesce(B, lo, hi)
<1>1. PICK n \in Block :
        /\ C = (B \ (L \cup R)) \cup {n}
        /\ n.req = 0
        /\ n.lo <= lo /\ hi <= n.hi
        /\ \/ n.lo = lo /\ L = {}
           \/ \E z \in B : L = {z} /\ z.req = 0 /\ z.hi = lo /\ n.lo = z.lo
        /\ \/ n.hi = hi /\ R = {}
           \/ \E z \in B : R = {z} /\ z.req = 0 /\ z.lo = hi /\ n.hi = z.hi
  BY CoalesceCloses
<1>2. /\ B \subseteq Block
      /\ t \in Nat /\ t >= HEAP_START /\ t % 8 = 0
      /\ lo \in Nat /\ hi \in Nat /\ lo % 8 = 0 /\ hi % 8 = 0
      /\ HEAP_START \in Nat /\ HEAP_START <= lo /\ lo + 16 <= hi /\ hi <= t
  BY StartAssumption DEF Hole, MINBLOCK
<1>3. /\ n.lo \in Nat /\ n.hi \in Nat
      /\ \A x \in B : x.lo \in Nat /\ x.hi \in Nat /\ x.req \in Nat /\ x.lo + 16 <= x.hi
  BY <1>1, <1>2 DEF Hole, Sized, Block, MINBLOCK
<1>4. \A x \in L \cup R : x \in B /\ x.req = 0
  BY DEF Left, Right
<1>5. \A x \in B : x.req = 0 /\ x.hi = lo => x \in L
  BY DEF Left
<1>6. \A x \in B : x.req = 0 /\ x.lo = hi => x \in R
  BY DEF Right
<1>7. \A x \in B : x.hi <= lo \/ hi <= x.lo
  BY DEF Hole
<1>8. \A x, y \in B : x = y \/ x.hi <= y.lo \/ y.hi <= x.lo
  BY DEF Hole, Disjoint
<1> HIDE DEF L, R, C
<1>9. Held(C) = Held(B)
  BY <1>1, <1>4 DEF Held
<1>10. Sized(C, t)
  <2>1. /\ HEAP_START <= n.lo /\ n.hi <= t
        /\ n.lo % 8 = 0 /\ n.hi % 8 = 0
    BY <1>1, <1>2 DEF Hole, Sized
  <2>2. n.lo + 16 <= n.hi
    BY <1>1, <1>2, <1>3
  <2>3. Sized(B, t)
    BY DEF Hole
  <2> QED
    BY <1>1, <2>1, <2>2, <2>3 DEF Sized, MINBLOCK
\* A block of B that is still there lies on one side of the new one.
<1>11. \A x \in C \ {n} : x \in B /\ (x.hi <= n.lo \/ n.hi <= x.lo)
  <2> SUFFICES ASSUME NEW x \in C \ {n}
               PROVE  x \in B /\ (x.hi <= n.lo \/ n.hi <= x.lo)
    OBVIOUS
  <2>1. x \in B /\ x \notin L /\ x \notin R
    BY <1>1
  <2>2. CASE x.hi <= lo
    BY <1>1, <1>2, <1>3, <1>8, <2>1, <2>2
  <2>3. CASE hi <= x.lo
    BY <1>1, <1>2, <1>3, <1>8, <2>1, <2>3
  <2> QED
    BY <1>7, <2>1, <2>2, <2>3
<1>12. Disjoint(C)
  BY <1>8, <1>11 DEF Disjoint
<1>13. Coalesced(C)
  <2>1. \A x \in C \ {n} : x.req = 0 => x.hi # n.lo /\ n.hi # x.lo
    <3> SUFFICES ASSUME NEW x \in C \ {n}, x.req = 0
                 PROVE  x.hi # n.lo /\ n.hi # x.lo
      OBVIOUS
    <3>1. x \in B /\ x \notin L /\ x \notin R
      BY <1>1
    <3>2. Coalesced(B)
      BY DEF Hole
    <3>3. x.hi # n.lo
      BY <1>1, <1>5, <3>1, <3>2 DEF Coalesced
    <3>4. n.hi # x.lo
      BY <1>1, <1>6, <3>1, <3>2 DEF Coalesced
    <3> QED
      BY <3>3, <3>4
  <2>2. n.hi # n.lo
    BY <1>1, <1>2, <1>3
  <2>3. \A x, y \in C \ {n} : x.req = 0 /\ y.req = 0 => x.hi # y.lo
    BY <1>11 DEF Hole, Coalesced
  <2> QED
    BY <2>1, <2>2, <2>3 DEF Coalesced
<1>14. Tiled(C, t)
  <2>1. n \in C
    BY <1>1
  \* A block that begins where x of C ends, or n when that one was merged.
  <2>2. \A x \in C \ {n} : x.hi = t \/ \E y \in C : y.lo = x.hi
    <3> SUFFICES ASSUME NEW x \in C \ {n}, x.hi # t
                 PROVE  \E y \in C : y.lo = x.hi
      OBVIOUS
    <3>1. x \in B /\ x \notin L /\ x \notin R
      BY <1>1
    <3>2. CASE x.hi = lo
      BY <1>1, <1>3, <1>8, <2>1, <3>1, <3>2
    <3>3. CASE x.hi # lo
      <4>1. PICK y \in B : y.lo = x.hi
        BY <3>1, <3>3 DEF Hole
      <4>2. y \notin R
        BY <1>1, <1>2, <1>3, <1>7, <3>1, <4>1
      <4>3. y \in L => n.lo = y.lo
        BY <1>1
      <4> QED
        BY <1>1, <2>1, <4>1, <4>2, <4>3
    <3> QED
      BY <3>2, <3>3
  <2>3. n.hi = t \/ \E y \in C : y.lo = n.hi
    <3> SUFFICES ASSUME n.hi # t
                 PROVE  \E y \in C : y.lo = n.hi
      OBVIOUS
    <3>1. \E y \in B : y.lo = n.hi
      <4>1. CASE n.hi = hi
        BY <4>1 DEF Hole
      <4>2. CASE \E z \in B : z.lo = hi /\ n.hi = z.hi
        BY <1>2, <1>3, <4>2 DEF Hole
      <4> QED
        BY <1>1, <4>1, <4>2
    <3>2. PICK y \in B : y.lo = n.hi
      BY <3>1
    <3>3. y \notin L
      BY <1>1, <1>2, <1>3, <3>2
    <3>4. y \notin R
      BY <1>1, <1>2, <1>3, <3>2
    <3> QED
      BY <1>1, <3>2, <3>3, <3>4
  <2>4. \E y \in C : y.lo = HEAP_START
    <3>1. CASE lo = HEAP_START
      BY <1>1, <1>2, <1>3, <2>1, <3>1 DEF Hole, Sized
    <3>2. CASE lo # HEAP_START
      <4>1. PICK y \in B : y.lo = HEAP_START
        BY <3>2 DEF Hole
      <4>2. y \notin R
        BY <1>1, <1>2, <1>3, <4>1
      <4>3. y \in L => n.lo = y.lo
        BY <1>1
      <4> QED
        BY <1>1, <2>1, <4>1, <4>2, <4>3
    <3> QED
      BY <3>1, <3>2
  <2> QED
    BY <1>1, <2>2, <2>3, <2>4 DEF Tiled
<1>15. C \subseteq Block
  BY <1>1, <1>2
<1> QED
  BY <1>2, <1>9, <1>10, <1>12, <1>13, <1>14, <1>15 DEF Sound, C

-----------------------------------------------------------------------------
\* A block taken away leaves a hole.
LEMMA ReleaseOpens ==
  ASSUME NEW B, NEW t, Sound(B, t), NEW x \in B
  PROVE  Hole(B \ {x}, x.lo, x.hi, t)
<1> DEFINE C == B \ {x}
<1>1. /\ \A y \in B : y.lo \in Nat /\ y.hi \in Nat /\ y.lo + 16 <= y.hi /\ y.hi <= t
      /\ t \in Nat /\ HEAP_START \in Nat
  BY StartAssumption DEF Sound, Sized, Block, MINBLOCK
<1>2. C \subseteq Block /\ Sized(C, t) /\ Disjoint(C) /\ Coalesced(C)
  BY DEF Sound, Sized, Disjoint, Coalesced
<1>3. \A y \in C : y.hi <= x.lo \/ x.hi <= y.lo
  BY DEF Sound, Disjoint
<1>4. \A y \in C : y.hi = t \/ y.hi = x.lo \/ \E z \in C : z.lo = y.hi
  BY DEF Sound, Tiled
<1>5. x.hi = t \/ \E z \in C : z.lo = x.hi
  BY <1>1 DEF Sound, Tiled
<1>6. x.lo = HEAP_START \/ \E z \in C : z.lo = HEAP_START
  BY <1>1 DEF Sound, Sized, Tiled
<1> QED
  BY <1>1, <1>2, <1>3, <1>4, <1>5, <1>6 DEF Hole, Sound, Sized

\* free opens a hole where the block was, and closes it.
LEMMA ReleaseIsSound ==
  ASSUME NEW B, NEW t, Sound(B, t), NEW x \in B, x.req > 0
  PROVE  Sound(Release(B, x), t) /\ Held(Release(B, x)) = Held(B) \ {x}
<1>1. Held(B \ {x}) = Held(B) \ {x}
  BY DEF Held
<1> QED
  BY <1>1, ReleaseOpens, CoalesceIsSound DEF Release

\* What a split leaves over is a hole in the heap where the request was placed.
LEMMA SplitOpens ==
  ASSUME NEW B, NEW t, Sound(B, t),
         NEW asize \in Nat, asize >= MINBLOCK, asize % 8 = 0,
         NEW size \in Nat, size > 0, asize >= size + HEADER,
         NEW b \in Fits(B, asize), Length(b) - asize >= MINBLOCK
  PROVE  Hole((B \ {b}) \cup {[lo |-> b.lo, hi |-> b.lo + asize, req |-> size]},
              b.lo + asize, b.hi, t)
<1>1. b \in B /\ b.req = 0 /\ b.hi - b.lo >= asize
  BY DEF Fits, Length
<1>2. /\ \A y \in B : y.lo \in Nat /\ y.hi \in Nat /\ y.lo + 16 <= y.hi /\ y.hi <= t
      /\ t \in Nat /\ HEAP_START \in Nat /\ asize >= 16
      /\ \A y \in B : HEAP_START <= y.lo /\ y.lo % 8 = 0 /\ y.hi % 8 = 0
  BY StartAssumption DEF Sound, Sized, Block, MINBLOCK
<1> DEFINE used == [lo |-> b.lo, hi |-> b.lo + asize, req |-> size]
<1> DEFINE C    == (B \ {b}) \cup {used}
<1>3. used \in Block /\ used.lo = b.lo /\ used.hi = b.lo + asize /\ used.req = size
  BY <1>1, <1>2 DEF Block
<1>4. b.lo + asize + 16 <= b.hi
  BY <1>1, <1>2 DEF Length, MINBLOCK
<1> HIDE DEF used
<1>5. C \subseteq Block
  BY <1>3 DEF Sound
<1>6. Sized(C, t)
  <2>1. /\ HEAP_START <= used.lo /\ used.lo + 16 <= used.hi /\ used.hi <= t
        /\ used.lo % 8 = 0 /\ used.hi % 8 = 0
        /\ used.req + HEADER <= Length(used)
    BY <1>1, <1>2, <1>3, <1>4 DEF Length, HEADER
  <2>2. Sized(B, t)
    BY DEF Sound
  <2> QED
    BY <2>1, <2>2 DEF Sized, MINBLOCK
<1>7. \A y \in B \ {b} : y.hi <= b.lo \/ b.hi <= y.lo
  BY <1>1 DEF Sound, Disjoint
<1>8. Disjoint(C)
  BY <1>1, <1>2, <1>3, <1>4, <1>7 DEF Sound, Disjoint
<1>9. Coalesced(C)
  BY <1>3 DEF Sound, Coalesced
<1>10. \A y \in C : y.hi <= b.lo + asize \/ b.hi <= y.lo
  BY <1>1, <1>2, <1>3, <1>7
<1>11. \A y \in C : y.hi = t \/ y.hi = b.lo + asize \/ \E z \in C : z.lo = y.hi
  BY <1>1, <1>3 DEF Sound, Tiled
<1>12. b.hi = t \/ \E z \in C : z.lo = b.hi
  BY <1>1, <1>2 DEF Sound, Tiled
<1>13. \E z \in C : z.lo = HEAP_START
  BY <1>1, <1>2, <1>3 DEF Sound, Tiled
<1>14. (b.lo + asize) % 8 = 0
  BY <1>1, <1>2
<1>15. Hole(C, b.lo + asize, b.hi, t)
  BY <1>1, <1>2, <1>4, <1>5, <1>6, <1>8, <1>9, <1>10, <1>11, <1>12, <1>13, <1>14
     DEF Hole, Sound, MINBLOCK
<1> QED
  BY <1>15 DEF C, used

\* place: whether the block is split or not, the heap stays sound and the
\* client holds one more block.
LEMMA PlaceIsSound ==
  ASSUME NEW B, NEW t, Sound(B, t),
         NEW asize \in Nat, asize >= MINBLOCK, asize % 8 = 0,
         NEW size \in Nat, size > 0, asize >= size + HEADER,
         NEW b \in Fits(B, asize)
  PROVE  /\ Sound(Place(B, b, asize, size), t)
         /\ Held(B) \subseteq Held(Place(B, b, asize, size))
<1>1. b \in B /\ b.req = 0 /\ b.hi - b.lo >= asize
  BY DEF Fits, Length
<1>2. /\ \A y \in B : y.lo \in Nat /\ y.hi \in Nat /\ y.lo + 16 <= y.hi /\ y.hi <= t
      /\ t \in Nat /\ HEAP_START \in Nat /\ asize >= 16
      /\ \A y \in B : HEAP_START <= y.lo /\ y.lo % 8 = 0 /\ y.hi % 8 = 0
  BY StartAssumption DEF Sound, Sized, Block, MINBLOCK
<1>3. CASE Length(b) - asize >= MINBLOCK
  <2> DEFINE C == (B \ {b}) \cup {[lo |-> b.lo, hi |-> b.lo + asize, req |-> size]}
  <2>1. Place(B, b, asize, size) = Coalesce(C, b.lo + asize, b.hi)
    BY <1>3 DEF Place
  <2>2. Hole(C, b.lo + asize, b.hi, t)
    BY <1>3, SplitOpens
  <2>3. Held(B) \subseteq Held(C)
    BY <1>1 DEF Held
  <2> HIDE DEF C
  <2> QED
    BY <2>1, <2>2, <2>3, CoalesceIsSound
<1>4. CASE ~(Length(b) - asize >= MINBLOCK)
  <2> DEFINE used == [b EXCEPT !.req = size]
  <2> DEFINE C    == (B \ {b}) \cup {used}
  <2>1. Place(B, b, asize, size) = C
    BY <1>4 DEF Place
  <2>2. used \in Block /\ used.lo = b.lo /\ used.hi = b.hi /\ used.req = size
    BY <1>1 DEF Sound, Block
  <2> HIDE DEF used
  <2>3. Sized(C, t)
    <3>1. used.req + HEADER <= Length(used)
      BY <1>1, <1>2, <2>2 DEF Length, HEADER
    <3> QED
      BY <1>1, <2>2, <3>1 DEF Sound, Sized
  <2>4. Disjoint(C)
    BY <1>1, <2>2 DEF Sound, Disjoint
  <2>5. Coalesced(C)
    BY <2>2 DEF Sound, Coalesced
  <2>6. Tiled(C, t)
    <3>1. \A y \in B : \E z \in C : z.lo = y.lo
      BY <2>2
    <3>2. \A y \in C : y.hi = t \/ \E z \in B : z.lo = y.hi
      BY <1>1, <2>2 DEF Sound, Tiled
    <3>3. t > HEAP_START => \E z \in B : z.lo = HEAP_START
      BY DEF Sound, Tiled
    <3> HIDE DEF C
    <3> QED
      BY <3>1, <3>2, <3>3 DEF Tiled
  <2>7. Held(B) \subseteq Held(C)
    BY <1>1 DEF Held
  <2> QED
    BY <2>1, <2>2, <2>3, <2>4, <2>5, <2>6, <2>7 DEF Sound
<1> QED
  BY <1>3, <1>4

\* extend_heap: the new memory is a hole under the new break.
LEMMA GrowthOpens ==
  ASSUME NEW B, NEW t, Sound(B, t), NEW more \in Nat, more >= MINBLOCK, more % 8 = 0
  PROVE  Hole(B, t, t + more, t + more)
<1>1. /\ \A y \in B : y.lo \in Nat /\ y.hi \in Nat /\ y.lo + 16 <= y.hi /\ y.hi <= t
      /\ t \in Nat /\ HEAP_START \in Nat /\ t % 8 = 0 /\ t >= HEAP_START
      /\ more >= 16
  BY StartAssumption DEF Sound, Sized, Block, MINBLOCK
<1>2. Sized(B, t + more)
  BY <1>1 DEF Sound, Sized
<1>3. t = HEAP_START \/ \E y \in B : y.lo = HEAP_START
  BY <1>1 DEF Sound, Tiled
<1>4. (t + more) % 8 = 0
  BY <1>1
<1> QED
  BY <1>1, <1>2, <1>3, <1>4 DEF Sound, Tiled, Hole, MINBLOCK

LEMMA GrownIsSound ==
  ASSUME NEW B, NEW t, Sound(B, t),
         NEW more \in Nat, more = 0 \/ more >= MINBLOCK, more % 8 = 0
  PROVE  Sound(Grown(B, t, more), t + more) /\ Held(Grown(B, t, more)) = Held(B)
<1>1. CASE more = 0
  BY <1>1 DEF Grown, Sound
<1>2. CASE more # 0
  BY <1>2, GrowthOpens, CoalesceIsSound DEF Grown
<1> QED
  BY <1>1, <1>2

\* The part malloc and realloc share: find a free block, or grow the heap,
\* then place the request.
LEMMA AllocateIsSound ==
  ASSUME NEW B, NEW t, Sound(B, t), NEW size \in Sizes,
         NEW b \in Fits(Grown(B, t, Growth(B, Adjusted(size))), Adjusted(size))
  PROVE  LET more == Growth(B, Adjusted(size))
             C    == Place(Grown(B, t, more), b, Adjusted(size), size)
         IN  more \in Nat /\ Sound(C, t + more) /\ Held(B) \subseteq Held(C)
<1> DEFINE asize == Adjusted(size)
<1> DEFINE more  == Growth(B, asize)
<1>1. /\ asize \in Nat /\ asize >= MINBLOCK /\ asize % 8 = 0 /\ asize >= size + HEADER
      /\ size \in Nat /\ size > 0
  BY AdjustedAssumption, SizesAssumption
<1> HIDE DEF asize
<1>2. more \in Nat /\ (more = 0 \/ more >= MINBLOCK) /\ more % 8 = 0
  BY <1>1, ChunkAssumption DEF Growth
<1> HIDE DEF more
<1>3. Sound(Grown(B, t, more), t + more) /\ Held(Grown(B, t, more)) = Held(B)
  BY <1>2, GrownIsSound
<1>4. b \in Fits(Grown(B, t, more), asize)
  BY DEF asize, more
<1>5. /\ Sound(Place(Grown(B, t, more), b, asize, size), t + more)
      /\ Held(Grown(B, t, more)) \subseteq Held(Place(Grown(B, t, more), b, asize, size))
  BY <1>1, <1>3, <1>4, PlaceIsSound
<1> QED
  BY <1>2, <1>3, <1>5 DEF asize, more

\* mm_init leaves a sound heap, with or without its first chunk.
LEMMA FirstHeapsAreSound ==
  ASSUME NEW h \in {EmptyHeap, FirstHeap}
  PROVE  Sound(h.blocks, h.top) /\ h.top \in 0 .. MaxHeap
<1> DEFINE more == CHUNKSIZE
<1>1. more \in Nat /\ more >= MINBLOCK /\ more % 8 = 0
  BY ChunkAssumption
<1>2. HEAP_START + more <= MaxHeap /\ MaxHeap \in Nat
  BY MaxHeapAssumption
<1>3. FirstHeap = [blocks |-> Coalesce({}, HEAP_START, HEAP_START + more),
                   top |-> HEAP_START + more]
  BY DEF FirstHeap
<1> HIDE DEF more
<1>4. Sound({}, HEAP_START)
  BY StartAssumption DEF Sound, Sized, Disjoint, Tiled, Coalesced
<1>5. Sound(Grown({}, HEAP_START, more), HEAP_START + more)
  BY <1>1, <1>4, GrownIsSound
<1>6. Grown({}, HEAP_START, more) = Coalesce({}, HEAP_START, HEAP_START + more)
  BY <1>1 DEF Grown, MINBLOCK
<1>7. CASE h = EmptyHeap
  BY <1>1, <1>2, <1>4, <1>7, StartAssumption DEF EmptyHeap
<1>8. CASE h = FirstHeap
  BY <1>1, <1>2, <1>3, <1>5, <1>6, <1>8, StartAssumption
<1> QED
  BY <1>7, <1>8

-----------------------------------------------------------------------------
LEMMA InitIsInvariant == Init => IInv
BY MaxHeapAssumption DEF Init, IInv

\* Every action preserves the invariant, and the client keeps every block it
\* held but the one it gave to free or realloc.
LEMMA NextIsInvariant ==
  ASSUME IInv, [Next]_vars
  PROVE  /\ IInv'
         /\ \/ NewTrace
            \/ Held(blocks) \subseteq Held(blocks')
            \/ \E x \in blocks : /\ Free(x) \/ \E size \in Sizes : Realloc(x, size)
                                /\ Held(blocks) \ {x} \subseteq Held(blocks')
<1>1. CASE UNCHANGED vars
  BY <1>1 DEF vars, IInv, Sound, Sized, Disjoint, Tiled, Coalesced
<1>2. CASE NewTrace
  <2>1. CASE blocks' = {} /\ top' = 0
    BY <1>2, <2>1, MaxHeapAssumption DEF IInv
  <2>2. CASE \E h \in {EmptyHeap, FirstHeap} : blocks' = h.blocks /\ top' = h.top
    <3>1. PICK h \in {EmptyHeap, FirstHeap} : blocks' = h.blocks /\ top' = h.top
      BY <2>2
    <3>2. Sound(blocks', top') /\ top' \in 0 .. MaxHeap
      BY <3>1, FirstHeapsAreSound
    <3> QED
      BY <1>2, <3>2 DEF IInv, Sound, Sized, Disjoint, Tiled, Coalesced
  <2> QED
    BY <1>2, <2>1, <2>2 DEF NewTrace
<1>3. ASSUME NEW size \in Sizes, Malloc(size)
      PROVE  IInv' /\ Held(blocks) \subseteq Held(blocks')
  <2> DEFINE asize == Adjusted(size)
  <2>1. PICK h \in Started :
          /\ h.top + Growth(h.blocks, asize) <= MaxHeap
          /\ \E b \in Fits(Grown(h.blocks, h.top, Growth(h.blocks, asize)), asize) :
                blocks' = Place(Grown(h.blocks, h.top, Growth(h.blocks, asize)), b, asize, size)
          /\ top' = h.top + Growth(h.blocks, asize)
    BY <1>3 DEF Malloc
  <2>2. Sound(h.blocks, h.top) /\ Held(blocks) \subseteq Held(h.blocks)
    <3>1. CASE top = 0
      <4>1. blocks = {}
        BY <3>1, StartAssumption DEF IInv, Sound
      <4>2. h \in {EmptyHeap, FirstHeap}
        BY <2>1, <3>1 DEF Started
      <4> QED
        BY <4>1, <4>2, FirstHeapsAreSound DEF Held
    <3>2. CASE top # 0
      BY <2>1, <3>2 DEF Started, IInv
    <3> QED
      BY <3>1, <3>2
  <2>3. /\ Growth(h.blocks, asize) \in Nat
        /\ Sound(blocks', top')
        /\ Held(h.blocks) \subseteq Held(blocks')
    BY <2>1, <2>2, AllocateIsSound
  <2>4. top' \in 0 .. MaxHeap
    BY <2>1, <2>2, <2>3, MaxHeapAssumption DEF Sound
  <2> QED
    BY <2>2, <2>3, <2>4 DEF IInv, Sound, Sized, Disjoint, Tiled, Coalesced
<1>4. ASSUME NEW x \in blocks, Free(x)
      PROVE  IInv' /\ Held(blocks) \ {x} \subseteq Held(blocks')
  <2>1. Sound(blocks, top) /\ x.req > 0
    BY <1>4 DEF IInv, Free
  <2>2. Sound(blocks', top') /\ Held(blocks') = Held(blocks) \ {x}
    BY <1>4, <2>1, ReleaseIsSound DEF Free
  <2>3. top' \in 0 .. MaxHeap
    BY <1>4 DEF Free, IInv
  <2> QED
    BY <2>2, <2>3 DEF IInv, Sound, Sized, Disjoint, Tiled, Coalesced
<1>5. ASSUME NEW x \in blocks, NEW size \in Sizes, Realloc(x, size)
      PROVE  IInv' /\ Held(blocks) \ {x} \subseteq Held(blocks')
  <2> DEFINE asize == Adjusted(size)
  <2> DEFINE more  == Growth(blocks, asize)
  <2> DEFINE C(b)  == Place(Grown(blocks, top, more), b, asize, size)
  <2>1. /\ x.req > 0 /\ top + more <= MaxHeap /\ top' = top + more
        /\ \E b \in Fits(Grown(blocks, top, more), asize) : blocks' = Release(C(b), x)
    BY <1>5 DEF Realloc
  <2>2. PICK b \in Fits(Grown(blocks, top, more), asize) : blocks' = Release(C(b), x)
    BY <2>1
  <2>3. Sound(blocks, top)
    BY DEF IInv
  <2>4. more \in Nat /\ Sound(C(b), top + more) /\ Held(blocks) \subseteq Held(C(b))
    BY <2>2, <2>3, AllocateIsSound
  <2>5. x \in C(b)
    BY <2>1, <2>4 DEF Held
  <2> HIDE DEF C, more
  <2>6. Sound(blocks', top') /\ Held(blocks') = Held(C(b)) \ {x}
    BY <2>1, <2>2, <2>4, <2>5, ReleaseIsSound
  <2>7. top' \in 0 .. MaxHeap
    BY <2>1, <2>3, <2>4, MaxHeapAssumption DEF Sound
  <2>8. Held(blocks) \ {x} \subseteq Held(blocks')
    BY <2>4, <2>6
  <2> QED
    BY <2>6, <2>7, <2>8 DEF IInv, Sound, Sized, Disjoint, Tiled, Coalesced
<1> QED
  BY <1>1, <1>2, <1>3, <1>4, <1>5 DEF Next

-----------------------------------------------------------------------------
\* The heap is sound in every reachable state, for any requests and limits.
THEOREM HeapIsSound == Spec => []IInv
<1>1. IInv /\ [Next]_vars => IInv'
  BY NextIsInvariant
<1> QED
  BY InitIsInvariant, <1>1, PTL DEF Spec

\* The break stays under memlib's limit, block pointers are addresses.
THEOREM TypeCorrect == Spec => []TypeOK
<1>1. IInv => TypeOK
  BY DEF IInv, TypeOK, Sound
<1> QED
  BY HeapIsSound, <1>1, PTL

\* Every block is aligned, can hold a free block's four fields, and has room
\* for the payload malloc was asked for (malloc, place, coalesce).
THEOREM BlocksStaySized == Spec => []BlocksAreSized
<1>1. IInv => BlocksAreSized
  BY DEF IInv, BlocksAreSized, Sound, Sized
<1> QED
  BY HeapIsSound, <1>1, PTL

\* malloc and realloc never hand out memory that is in use (place).
THEOREM BlocksStayDisjoint == Spec => []BlocksAreDisjoint
<1>1. IInv => BlocksAreDisjoint
  BY DEF IInv, BlocksAreDisjoint, Sound, Disjoint
<1> QED
  BY HeapIsSound, <1>1, PTL

\* No byte between prologue and epilogue is lost (place, coalesce).
THEOREM HeapStaysTiled == Spec => []HeapIsTiled
<1>1. IInv => HeapIsTiled
  BY StartAssumption DEF IInv, HeapIsTiled, Sound, Tiled
<1> QED
  BY HeapIsSound, <1>1, PTL

\* Immediate coalescing leaves no two free neighbours (coalesce).
THEOREM FreeBlocksStayApart == Spec => []NoFreeNeighbours
<1>1. IInv => NoFreeNeighbours
  BY DEF IInv, NoFreeNeighbours, Sound, Coalesced
<1> QED
  BY HeapIsSound, <1>1, PTL

\* When the client has freed all, the heap is one free block: fragmentation
\* never outlives the blocks that caused it.
THEOREM IdleHeapIsWhole == Spec => []IdleHeapIsOneBlock
<1>1. ASSUME IInv PROVE IdleHeapIsOneBlock
  <2> SUFFICES ASSUME \A x \in blocks : x.req = 0, NEW x \in blocks
               PROVE  x.lo = HEAP_START /\ x.hi = top
    BY DEF IdleHeapIsOneBlock
  <2>1. Sound(blocks, top)
    BY <1>1 DEF IInv
  <2>2. /\ \A y \in blocks : /\ y.lo \in Nat /\ y.hi \in Nat /\ y.lo < y.hi
                             /\ HEAP_START <= y.lo /\ y.hi <= top
        /\ top \in Nat /\ HEAP_START \in Nat
    BY <2>1, StartAssumption DEF Sound, Sized, Block, MINBLOCK
  <2>3. \A y \in blocks : y.hi = top
    BY <2>1 DEF Sound, Tiled, Coalesced
  <2>4. PICK first \in blocks : first.lo = HEAP_START
    BY <2>1, <2>2 DEF Sound, Tiled
  <2>5. first = x
    BY <2>1, <2>2, <2>3 DEF Sound, Disjoint
  <2> QED
    BY <2>3, <2>4, <2>5
<1>2. IInv => IdleHeapIsOneBlock
  BY <1>1
<1> QED
  BY HeapIsSound, <1>2, PTL

\* A call leaves every block the client holds where it is, but the one it is
\* given: coalescing and splitting touch free memory only.
THEOREM HeldBlocksDoStay == Spec => HeldBlocksStay
<1> DEFINE Kept == LET held == {b \in blocks : b.req > 0}
                   IN  \/ NewTrace
                       \/ held \subseteq blocks'
                       \/ \E x \in blocks :
                            /\ Free(x) \/ \E size \in Sizes : Realloc(x, size)
                            /\ held \ {x} \subseteq blocks'
<1>1. IInv /\ [Next]_vars => Kept
  <2>1. Held(blocks) = {b \in blocks : b.req > 0} /\ Held(blocks') \subseteq blocks'
    BY DEF Held
  <2> QED
    BY <2>1, NextIsInvariant
<1> QED
  BY HeapIsSound, <1>1, PTL DEF Spec, HeldBlocksStay
=============================================================================
