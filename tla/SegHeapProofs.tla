----------------------------- MODULE SegHeapProofs -----------------------------
(***************************************************************************)
(* Proofs about mm.c at the level of words, for every heap size, number of *)
(* lists, chunk and client: its size arithmetic, the consistency of        *)
(* headers, footers and lists, calloc's zeros, and the refinement of       *)
(* BlockHeap and of Allocator.                                             *)
(*                                                                         *)
(* The invariant IInv says that memory represents (Rep) a set of blocks    *)
(* that is sound in the sense of BlockHeapProofs: each block has its tags  *)
(* (Stored), and every free block is on the list of its size class, which  *)
(* is doubly linked and has a rank that falls along SUCC (Linked, Lists).  *)
(* Each operator of SegHeap is shown to carry a represented set of blocks  *)
(* to the one BlockHeap names, keeping the payloads of the held blocks.    *)
(***************************************************************************)
EXTENDS SegHeap, MCMMSize, FiniteSetTheorems, WellFoundedInduction, TLAPS

\* What malloc allocates has room for the payload and its header, is no
\* smaller than a free block, keeps the alignment and wastes less than eight
\* bytes on it; no sum overflows.
THEOREM AdjustedSizeFits ==
  ASSUME NEW n \in Nat, n > 0, n + 12 < SIZE_MOD
  PROVE  /\ AdjustedSize(n) \in Nat
         /\ AdjustedSize(n) >= MINBLOCK
         /\ AdjustedSize(n) % 8 = 0
         /\ AdjustedSize(n) >= n + FSIZE
         /\ AdjustedSize(n) = MINBLOCK \/ AdjustedSize(n) - 8 < n + FSIZE
<1>1. n \in Nat /\ n > 0 /\ n + 12 < SIZE_MOD
  OBVIOUS
<1>2. CASE n <= 2 * FSIZE
  BY <1>1, <1>2 DEF AdjustedSize, FSIZE, MINBLOCK
<1>3. CASE n > 2 * FSIZE
  <2> DEFINE fields == (n + 3) \div 4
  <2> DEFINE even   == IF fields % 2 = 1 THEN fields + 1 ELSE fields + 2
  <2>1. Wrap(n + (FSIZE - 1)) = n + 3
    BY <1>1, WidthAssumption DEF Wrap, FSIZE
  <2>2. AdjustedSize(n) = Wrap(4 * even)
    BY <1>1, <1>3, <2>1 DEF AdjustedSize, FSIZE
  <2>3. fields \in Nat /\ 4 * fields >= n /\ 4 * fields <= n + 3
    BY <1>1
  <2> HIDE DEF fields
  <2>4. /\ even \in Nat /\ (4 * even) % 8 = 0
        /\ fields + 1 <= even /\ even <= fields + 2
    BY <2>3
  <2> HIDE DEF even
  <2>5. 4 * even < SIZE_MOD /\ 4 * even >= n + 4 /\ 4 * even - 8 < n + 4
    BY <1>1, <2>3, <2>4, WidthAssumption
  <2>6. AdjustedSize(n) = 4 * even
    BY <2>2, <2>5 DEF Wrap
  <2> QED
    BY <1>1, <1>3, <2>4, <2>5, <2>6 DEF FSIZE, MINBLOCK
<1> QED
  BY <1>1, <1>2, <1>3 DEF FSIZE

\* extend_heap asks for whole pairs of words, the block or the chunk: neither
\* the least of four words nor the rounding to pairs ever adds to them.
THEOREM ExtendSizeFits ==
  ASSUME NEW asize \in Nat, asize % 8 = 0
  PROVE  /\ ExtendSize(asize) \in Nat
         /\ ExtendSize(asize) >= MINBLOCK
         /\ ExtendSize(asize) % 8 = 0
         /\ ExtendSize(asize) = IF asize > CHUNKSIZE THEN asize ELSE CHUNKSIZE
<1> DEFINE want  == IF asize > CHUNKSIZE THEN asize ELSE CHUNKSIZE
<1> DEFINE words == want \div 4
<1>1. want \in Nat /\ want % 8 = 0 /\ want >= 16 /\ want >= asize
  BY ChunkAssumption
<1>2. want = IF asize > CHUNKSIZE THEN asize ELSE CHUNKSIZE
  OBVIOUS
<1> HIDE DEF want
<1>3. words \in Nat /\ words >= 4 /\ words % 2 = 0 /\ 4 * words = want
  BY <1>1
<1> HIDE DEF words
<1>4. ExtendSize(asize) = 4 * words
  <2>1. ExtendSize(asize) =
          LET v == IF want \div 4 < 4 THEN 4 ELSE want \div 4
          IN  4 * (IF v % 2 = 1 THEN v + 1 ELSE v)
    BY DEF ExtendSize, FSIZE, want
  <2> QED
    BY <2>1, <1>3 DEF words
<1>5. ExtendSize(asize) = want
  BY <1>3, <1>4
<1>6. MINBLOCK = 16
  BY DEF MINBLOCK, FSIZE
<1>7. want \in Nat /\ want >= MINBLOCK /\ want % 8 = 0
  BY <1>1, <1>6
<1> QED
  BY <1>2, <1>5, <1>7, Zenon

LEMMA LeastNumber ==
  ASSUME NEW T \in SUBSET Nat, T # {}
  PROVE  Min(T) \in T /\ \A y \in T : Min(T) <= y
<1> DEFINE R == OpToRel(<, Nat)
<1>1. \A x, y \in Nat : y < x => <<y, x>> \in R
  BY DEF OpToRel
<1>2. IsWellFoundedOn(R, Nat)
  BY NatLessThanWellFounded
<1> HIDE DEF R
<1>3. PICK x \in T : \A y \in T : ~ (<<y, x>> \in R)
  BY <1>2, WFMin
<1>4. \A y \in T : ~ (y < x)
  BY <1>1, <1>3
<1>5. \A y \in T : x <= y
  BY <1>4
<1> QED
  BY <1>5 DEF Min

LEMMA Inductive ==
  ASSUME NEW S, 0 \in S, \A n \in Nat : n \in S => n + 1 \in S
  PROVE  Nat \subseteq S
<1> DEFINE T == Nat \ S
<1> SUFFICES ASSUME T # {} PROVE FALSE
  OBVIOUS
<1>1. Min(T) \in T /\ \A n \in T : Min(T) <= n
  BY LeastNumber
<1>2. Min(T) # 0 /\ Min(T) - 1 \in Nat
  BY <1>1
<1>3. Min(T) - 1 \in S
  BY <1>1, <1>2
<1> QED
  BY <1>1, <1>2, <1>3

-----------------------------------------------------------------------------
\* The mask is shifted by one bit a round.
LEMMA BitIs ==
  /\ Bit \in [0 .. N_SEGLIST + 3 -> Nat \ {0}]
  /\ Bit[0] = 1
  /\ \A k \in 1 .. N_SEGLIST + 3 : Bit[k] = 2 * Bit[k - 1]
<1> DEFINE K == N_SEGLIST + 3
           Table(f, n) == /\ f \in [0 .. n -> Nat \ {0}]
                          /\ f[0] = 1
                          /\ \A k \in 1 .. n : f[k] = 2 * f[k - 1]
           S == {n \in Nat : \E f : Table(f, n)}
<1>1. 0 \in S
  <2>1. Table([k \in 0 .. 0 |-> 1], 0)
    OBVIOUS
  <2> QED
    BY <2>1
<1>2. ASSUME NEW n \in Nat, n \in S PROVE n + 1 \in S
  <2>1. PICK f : Table(f, n)
    BY <1>2
  <2> DEFINE g == [k \in 0 .. n + 1 |-> IF k = n + 1 THEN 2 * f[n] ELSE f[k]]
  <2>2. g \in [0 .. n + 1 -> Nat \ {0}] /\ g[0] = 1
    BY <2>1
  <2>3. \A k \in 1 .. n + 1 : g[k] = 2 * g[k - 1]
    BY <2>1
  <2>4. Table(g, n + 1)
    BY <2>2, <2>3
  <2> HIDE DEF Table, g
  <2>5. \E f1 : Table(f1, n + 1)
    BY <2>4
  <2> QED
    BY <2>5
<1>3. K \in S
  <2>1. K \in Nat
    BY SegAssumption
  <2> QED
    BY <1>1, <1>2, <2>1, Inductive
<1>4. PICK f : Table(f, K)
  BY <1>3
<1> DEFINE F(g) == [k \in 0 .. K |-> IF k = 0 THEN 1 ELSE 2 * g[k - 1]]
<1>5. f = F(f)
  <2>1. \A k \in 0 .. K : f[k] = IF k = 0 THEN 1 ELSE 2 * f[k - 1]
    BY <1>4
  <2> QED
    BY <1>4, <2>1
<1>6. Bit = CHOOSE g : g = F(g)
  BY DEF Bit
<1>7. Bit = F(Bit)
  BY <1>5, <1>6
<1>8. \A k \in 0 .. K : Bit[k] = IF k = 0 THEN 1 ELSE 2 * Bit[k - 1]
  BY <1>7
<1>9. K \in Nat /\ K >= 0
  BY SegAssumption
<1> DEFINE G == {n \in Nat : n \in 0 .. K => Bit[n] \in Nat \ {0}}
<1> HIDE DEF K
<1>10. 0 \in G
  BY <1>8, <1>9
<1>11. ASSUME NEW n \in Nat, n \in G PROVE n + 1 \in G
  <2> SUFFICES ASSUME n + 1 \in 0 .. K PROVE Bit[n + 1] \in Nat \ {0}
    OBVIOUS
  <2>1. n \in 0 .. K /\ n + 1 # 0 /\ (n + 1) - 1 = n
    BY <1>9
  <2>2. Bit[n + 1] = 2 * Bit[n]
    BY <1>8, <2>1
  <2>3. Bit[n] \in Nat \ {0}
    BY <1>11, <2>1
  <2> QED
    BY <2>2, <2>3
<1>12. \A n \in 0 .. K : Bit[n] \in Nat \ {0}
  <2>1. Nat \subseteq G
    BY <1>10, <1>11, Inductive
  <2> QED
    BY <2>1, <1>9
<1>13. Bit \in [0 .. K -> Nat \ {0}]
  <2>1. Bit = [k \in 0 .. K |-> Bit[k]]
    BY <1>7
  <2> QED
    BY <1>12, <2>1
<1>14. Bit[0] = 1 /\ \A k \in 1 .. K : Bit[k] = 2 * Bit[k - 1]
  BY <1>8, <1>9
<1> QED
  BY <1>13, <1>14 DEF K

LEMMA BitRises ==
  ASSUME NEW i \in 0 .. N_SEGLIST + 3, NEW j \in 0 .. N_SEGLIST + 3, i < j
  PROVE  2 * Bit[i] <= Bit[j]
<1> DEFINE S == {n \in Nat : i + 1 + n \in 0 .. N_SEGLIST + 3 => 2 * Bit[i] <= Bit[i + 1 + n]}
<1>0. N_SEGLIST \in Nat
  BY SegAssumption
<1>1. 0 \in S
  BY BitIs
<1>2. ASSUME NEW n \in Nat, n \in S PROVE n + 1 \in S
  <2> SUFFICES ASSUME i + 1 + (n + 1) \in 0 .. N_SEGLIST + 3
               PROVE  2 * Bit[i] <= Bit[i + 1 + (n + 1)]
    OBVIOUS
  <2> DEFINE k == i + 1 + n
  <2>1. k \in 0 .. N_SEGLIST + 3 /\ k + 1 \in 1 .. N_SEGLIST + 3 /\ k + 1 - 1 = k
    BY <1>0
  <2>2. 2 * Bit[i] <= Bit[k]
    BY <1>2, <2>1
  <2> HIDE DEF k
  <2>3. Bit[k + 1] = 2 * Bit[k]
    <3>1. Bit[k + 1] = 2 * Bit[k + 1 - 1]
      BY <2>1, BitIs
    <3> QED
      BY <3>1, <2>1
  <2>6. Bit[k] \in Nat /\ Bit[i] \in Nat
    BY <2>1, BitIs
  <2>4. 2 * Bit[i] <= Bit[k + 1]
    BY <2>2, <2>3, <2>6
  <2>5. i + 1 + (n + 1) = k + 1
    BY DEF k
  <2> QED
    BY <2>4, <2>5
<1>3. j - i - 1 \in Nat /\ i + 1 + (j - i - 1) = j
  OBVIOUS
<1>4. j - i - 1 \in S
  BY <1>1, <1>2, <1>3, Inductive
<1> QED
  BY <1>3, <1>4

\* A size has a top bit, unless it has one beyond the table.
LEMMA HasTopBit ==
  ASSUME NEW size \in Nat, size > 0, size < Bit[N_SEGLIST + 3]
  PROVE  \E k \in 1 .. N_SEGLIST + 3 : Bit[k - 1] <= size /\ size < Bit[k]
<1> DEFINE K == N_SEGLIST + 3
           T == {k \in 0 .. K : size < Bit[k]}
<1>1. K \in 0 .. K /\ T \in SUBSET Nat /\ K \in Nat
  BY SegAssumption
<1>2. K \in T
  BY <1>1
<1>3. Min(T) \in T /\ \A n \in T : Min(T) <= n
  BY <1>1, <1>2, LeastNumber
<1>4. Bit[0] = 1
  BY BitIs
<1>5. Min(T) # 0
  BY <1>3, <1>4
<1> DEFINE k == Min(T)
<1>6. k \in 0 .. K /\ size < Bit[k]
  BY <1>3
<1>7. k - 1 \in 0 .. K /\ k - 1 \notin T
  BY <1>3, <1>5, <1>1
<1>8. ~ (size < Bit[k - 1])
  BY <1>7
<1>9. Bit[k - 1] \in Nat
  BY <1>7, BitIs
<1>10. k \in 1 .. K
  BY <1>6, <1>5, <1>1
<1> QED
  BY <1>6, <1>8, <1>9, <1>10

\* TopBit finds it.
LEMMA TopBitIs ==
  ASSUME NEW size \in Nat, NEW k \in 1 .. N_SEGLIST + 3, Bit[k - 1] <= size, size < Bit[k]
  PROVE  TopBit(size, N_SEGLIST + 3) = k
<1> DEFINE K == N_SEGLIST + 3
           T == {j \in 1 .. K : (size \div Bit[j - 1]) % 2 = 1}
<1>0. N_SEGLIST \in Nat
  BY SegAssumption
<1>1. k \in T
  <2>1. k - 1 \in 0 .. K
    BY <1>0
  <2> DEFINE d == Bit[k - 1]
  <2>2. d \in Nat \ {0} /\ Bit[k] = 2 * d
    BY <2>1, BitIs
  <2>3. d <= size /\ size < 2 * d
    BY <2>2
  <2> HIDE DEF d
  <2>4. size \div d = 1
    BY <2>2, <2>3, Z3
  <2> QED
    BY <2>4 DEF d
<1>2. ASSUME NEW j \in T PROVE j <= k
  <2> SUFFICES ASSUME j > k PROVE FALSE
    BY <1>0
  <2>1. j - 1 \in 0 .. K /\ k \in 0 .. K /\ (k < j - 1 \/ k = j - 1)
    BY <1>0
  <2> DEFINE d == Bit[j - 1]
  <2>2. d \in Nat \ {0} /\ Bit[k] \in Nat
    BY <2>1, BitIs
  <2>3. Bit[k] <= d
    BY <2>1, <2>2, BitRises
  <2>4. (size \div d) % 2 = 1
    OBVIOUS
  <2>5. size < d
    BY <2>2, <2>3
  <2> HIDE DEF d
  <2>6. size \div d = 0
    BY <2>2, <2>5, Z3
  <2> QED
    BY <2>4, <2>6
<1>3. TopBit(size, K) = CHOOSE j \in T : \A i \in T : i <= j
  BY <1>1 DEF TopBit
<1> DEFINE c == CHOOSE j \in T : \A i \in T : i <= j
<1>4. c \in T /\ \A i \in T : i <= c
  BY <1>1, <1>2
<1>5. TopBit(size, K) = c
  BY <1>3
<1>6. c \in Int /\ k \in Int /\ c <= k /\ k <= c
  BY <1>0, <1>1, <1>2, <1>4
<1> HIDE DEF c, T
<1> QED
  BY <1>5, <1>6

\* A block of size bytes belongs on one list, and get_root says which.
LEMMA RootIs ==
  ASSUME NEW size \in Nat, size >= 16
  PROVE  \E i \in 0 .. N_SEGLIST - 1 :
           /\ get_root(size) = Root(i) /\ Bit[i + 4] <= size
           /\ i = N_SEGLIST - 1 \/ size < Bit[i + 5]
<1> DEFINE K == N_SEGLIST + 3
           d == Bit[K]
<1>0. N_SEGLIST \in Nat /\ N_SEGLIST >= 1 /\ K \in 0 .. K /\ K >= 4
  BY SegAssumption
<1>1. d \in Nat \ {0}
  BY <1>0, BitIs
<1>2. Bit[4] = 16 /\ Bit[3] = 8
  <2>1. 1 \in 1 .. K /\ 2 \in 1 .. K /\ 3 \in 1 .. K /\ 4 \in 1 .. K
    BY <1>0
  <2>2. /\ Bit[0] = 1 /\ Bit[1] = 2 * Bit[1 - 1] /\ Bit[2] = 2 * Bit[2 - 1]
        /\ Bit[3] = 2 * Bit[3 - 1] /\ Bit[4] = 2 * Bit[4 - 1]
    BY <2>1, BitIs
  <2> QED
    BY <2>2
<1>3. CASE size >= d
  <2>1. size \div d > 0
    <3> HIDE DEF d
    <3> QED
      BY <1>1, <1>3, Z3
  <2>2. get_root(size) = Root(N_SEGLIST - 1)
    BY <2>1 DEF get_root
  <2>3. N_SEGLIST - 1 \in 0 .. N_SEGLIST - 1 /\ (N_SEGLIST - 1) + 4 = K
    BY <1>0
  <2> QED
    BY <1>3, <2>2, <2>3
<1>4. CASE size < d
  <2>1. ~ (size \div d > 0)
    <3> HIDE DEF d
    <3> QED
      BY <1>1, <1>4, Z3
  <2>2. PICK k \in 1 .. K : Bit[k - 1] <= size /\ size < Bit[k]
    BY <1>4, HasTopBit
  <2>3. TopBit(size, K) = k
    BY <2>2, TopBitIs
  <2>4. k >= 5
    <3> SUFFICES ASSUME k <= 4 PROVE FALSE
      BY <1>0
    <3>1. Bit[k] <= Bit[4]
      <4>1. k = 4 \/ k < 4
        BY <1>0
      <4>2. k \in 0 .. K /\ 4 \in 0 .. K
        BY <1>0
      <4>3. k < 4 => 2 * Bit[k] <= Bit[4]
        BY <4>2, BitRises
      <4>4. Bit[k] \in Nat
        BY <4>2, BitIs
      <4> QED
        BY <4>1, <4>3, <4>4, <1>2
    <3>2. Bit[k] \in Nat
      <4>1. k \in 0 .. K
        BY <1>0
      <4> QED
        BY <4>1, BitIs
    <3> QED
      BY <2>2, <3>1, <3>2, <1>2
  <2>5. get_root(size) = (k - 3) * FSIZE
    BY <2>1, <2>3, <2>4 DEF get_root
  <2> DEFINE i == k - 5
  <2>6. i \in 0 .. N_SEGLIST - 1 /\ i + 4 = k - 1 /\ i + 5 = k /\ i + 2 = k - 3
    BY <1>0, <2>4
  <2> HIDE DEF i
  <2>7. get_root(size) = Root(i)
    BY <2>5, <2>6 DEF Root
  <2> QED
    BY <2>2, <2>6, <2>7
<1>5. size \in Int /\ d \in Int
  BY <1>1
<1> QED
  BY <1>3, <1>4, <1>5

\* At every other level the size is out of bounds.
LEMMA LevelIs ==
  ASSUME NEW size \in Nat, size >= 16, NEW i \in 0 .. N_SEGLIST - 1
  PROVE  LevelHolds(i, size) <=> get_root(size) = Root(i)
<1>0. N_SEGLIST \in Nat /\ N_SEGLIST >= 1
  BY SegAssumption
<1>1. PICK j \in 0 .. N_SEGLIST - 1 :
        /\ get_root(size) = Root(j) /\ Bit[j + 4] <= size
        /\ j = N_SEGLIST - 1 \/ size < Bit[j + 5]
  BY RootIs
<1>2. Root(i) = Root(j) <=> i = j
  BY <1>0 DEF Root, FSIZE
<1>3. i = j => LevelHolds(i, size)
  BY <1>0, <1>1 DEF LevelHolds
<1>4. ASSUME i < j PROVE ~ LevelHolds(i, size)
  <2>1. i + 5 \in 0 .. N_SEGLIST + 3 /\ j + 4 \in 0 .. N_SEGLIST + 3 /\ i < N_SEGLIST - 1
    BY <1>0, <1>4
  <2>2. Bit[i + 5] \in Nat /\ Bit[j + 4] \in Nat
    BY <2>1, BitIs
  <2>3. i + 5 = j + 4 \/ i + 5 < j + 4
    BY <1>0, <1>4
  <2>4. Bit[i + 5] <= Bit[j + 4]
    BY <2>1, <2>2, <2>3, BitRises
  <2> QED
    BY <1>1, <2>1, <2>2, <2>4 DEF LevelHolds
<1>5. ASSUME j < i PROVE ~ LevelHolds(i, size)
  <2>1. j + 5 \in 0 .. N_SEGLIST + 3 /\ i + 4 \in 0 .. N_SEGLIST + 3 /\ j # N_SEGLIST - 1
    BY <1>0, <1>5
  <2>2. Bit[j + 5] \in Nat /\ Bit[i + 4] \in Nat
    BY <2>1, BitIs
  <2>3. j + 5 = i + 4 \/ j + 5 < i + 4
    BY <1>0, <1>5
  <2>4. Bit[j + 5] <= Bit[i + 4]
    BY <2>1, <2>2, <2>3, BitRises
  <2> QED
    BY <1>1, <2>1, <2>2, <2>4 DEF LevelHolds
<1>6. i < j \/ i = j \/ j < i
  BY <1>0
<1> QED
  BY <1>1, <1>2, <1>3, <1>4, <1>5, <1>6

\* A larger block is on no lower list.
LEMMA RootRises ==
  ASSUME NEW a \in Nat, NEW b \in Nat, 16 <= a, a <= b
  PROVE  get_root(a) \in Roots /\ get_root(b) \in Roots /\ get_root(a) <= get_root(b)
<1>0. N_SEGLIST \in Nat /\ N_SEGLIST >= 1
  BY SegAssumption
<1>1. PICK i \in 0 .. N_SEGLIST - 1 :
        /\ get_root(a) = Root(i) /\ Bit[i + 4] <= a
        /\ i = N_SEGLIST - 1 \/ a < Bit[i + 5]
  BY RootIs
<1>2. PICK j \in 0 .. N_SEGLIST - 1 :
        /\ get_root(b) = Root(j) /\ Bit[j + 4] <= b
        /\ j = N_SEGLIST - 1 \/ b < Bit[j + 5]
  <2>1. b >= 16
    OBVIOUS
  <2> QED
    BY <2>1, RootIs
<1>3. ASSUME j < i PROVE FALSE
  <2>1. j + 5 \in 0 .. N_SEGLIST + 3 /\ i + 4 \in 0 .. N_SEGLIST + 3 /\ j # N_SEGLIST - 1
    BY <1>0, <1>3
  <2>2. Bit[j + 5] \in Nat /\ Bit[i + 4] \in Nat
    BY <2>1, BitIs
  <2>3. j + 5 = i + 4 \/ j + 5 < i + 4
    BY <1>0, <1>3
  <2>4. Bit[j + 5] <= Bit[i + 4]
    BY <2>1, <2>2, <2>3, BitRises
  <2> QED
    BY <1>1, <1>2, <2>1, <2>2, <2>4
<1>4. i <= j
  BY <1>0, <1>3
<1> QED
  BY <1>0, <1>1, <1>2, <1>4 DEF Root, Roots, FSIZE

-----------------------------------------------------------------------------
\* The requests the sweep of MCMMSize makes.
InRange == request \in Nat /\ request > 0 /\ (request <= Limit \/ request = 1)

LEMMA SweepStays ==
  ASSUME Limit \in Nat, Limit + 12 < SIZE_MOD
  PROVE  /\ First => InRange
         /\ InRange /\ [Rise]_request => InRange'
         /\ InRange => request \in Nat /\ request > 0 /\ request + 12 < SIZE_MOD
BY WidthAssumption DEF First, Rise, InRange

\* malloc's rounding is right for every request of the sweep, however far the
\* sweep goes, as long as the rounding stays below the width of size_t.
THEOREM AdjustedSizeAlwaysRight ==
  ASSUME Limit \in Nat, Limit + 12 < SIZE_MOD
  PROVE  Sweep => []AdjustedSizeIsRight
<1>1. InRange => AdjustedSizeIsRight
  BY SweepStays, AdjustedSizeFits DEF AdjustedSizeIsRight
<1> QED
  BY <1>1, SweepStays, PTL DEF Sweep

\* The list get_root links the block of a request into is the one check_list
\* expects it in, for every request and every number of lists: the bits the
\* one scans and the sizes the other tests agree at every boundary.
THEOREM RootIsAlwaysTheLevel ==
  ASSUME Limit \in Nat, Limit + 12 < SIZE_MOD
  PROVE  Sweep => []RootIsTheLevel
<1>1. ASSUME InRange PROVE RootIsTheLevel
  <2> DEFINE asize == AdjustedSize(request)
  <2>1. request \in Nat /\ request > 0 /\ request + 12 < SIZE_MOD
    BY <1>1, SweepStays
  <2>2. asize \in Nat /\ asize >= 16
    BY <2>1, AdjustedSizeFits DEF MINBLOCK, FSIZE
  <2> HIDE DEF asize
  <2>3. PICK i \in 0 .. N_SEGLIST - 1 : get_root(asize) = Root(i)
    BY <2>2, RootIs
  <2>4. LevelHolds(i, asize)
    BY <2>2, <2>3, LevelIs
  <2> QED
    BY <2>3, <2>4 DEF RootIsTheLevel, asize
<1> QED
  BY <1>1, SweepStays, PTL DEF Sweep

-----------------------------------------------------------------------------
USE DEF FSIZE, WORD, NULL, tail, HDRP, PREDP

LEMMA StartIs ==
  /\ N_SEGLIST \in Nat /\ N_SEGLIST >= 1
  /\ HEAP_START \in Nat /\ HEAP_START % 8 = 0 /\ HEAP_START >= 24
  /\ \A r \in Roots : r \in Nat /\ r % 4 = 0 /\ 8 <= r /\ r <= HEAP_START - 16
  /\ MINBLOCK = 16
<1>1. N_SEGLIST \in Nat /\ N_SEGLIST >= 1 /\ N_SEGLIST % 2 = 1
  BY SegAssumption
<1>2. HEAP_START \in Nat /\ HEAP_START % 8 = 0 /\ HEAP_START >= 24
  BY <1>1 DEF HEAP_START
<1>3. \A r \in Roots : r \in Nat /\ r % 4 = 0 /\ 8 <= r /\ r <= HEAP_START - 16
  BY <1>1 DEF Roots, Root, HEAP_START
<1> QED
  BY <1>1, <1>2, <1>3 DEF MINBLOCK

LEMMA WordsBelowIs ==
  ASSUME NEW t \in Nat, t % 8 = 0
  PROVE  \A a : a \in WordsBelow(t) <=> a \in Nat /\ a % 4 = 0 /\ a < t
<1>1. ASSUME NEW a \in Nat, a % 4 = 0, a < t PROVE a \in WordsBelow(t)
  <2>1. a \div 4 \in 0 .. (t \div 4) - 1 /\ a = 4 * (a \div 4)
    BY <1>1
  <2> QED
    BY <2>1 DEF WordsBelow
<1>2. ASSUME NEW a \in WordsBelow(t) PROVE a \in Nat /\ a % 4 = 0 /\ a < t
  <2>1. PICK i \in 0 .. (t \div 4) - 1 : a = 4 * i
    BY DEF WordsBelow
  <2> QED
    BY <2>1
<1> QED
  BY <1>1, <1>2

\* What is packed is found again.
LEMMA PackIs ==
  ASSUME NEW n \in Nat, n % 8 = 0, NEW a \in {0, 1}, NEW p \in {0, 1}
  PROVE  /\ PACK(n, a, p) \in Nat /\ GET_SIZE(PACK(n, a, p)) = n
         /\ GET_ALLOC(PACK(n, a, p)) = a /\ GET_PREV_ALLOC(PACK(n, a, p)) = p
BY DEF PACK, GET_SIZE, GET_ALLOC, GET_PREV_ALLOC

-----------------------------------------------------------------------------
\* The free lists, by addresses: N holds the free blocks, cls says on which
\* list they are, and rk falls along each list.

\* Where list nodes may be, and the words the lists use.
Nodes(N, t) == N \subseteq Nat /\ \A a \in N : a % 8 = 0 /\ HEAP_START <= a /\ a + 8 <= t
LinkArea(N) == {4} \cup Roots \cup N \cup {a + 4 : a \in N}

\* SUCC of a is tail or a node that has a for its PRED, and PRED of a is a
\* node or root that has a for its SUCC.
SuccIn(m, N, cls, rk, a) ==
  \/ m[a] = 0
  \/ /\ m[a] \in N /\ m[m[a] + 4] = a /\ cls[m[a]] = cls[a]
     /\ a \in Roots \/ rk[m[a]] < rk[a]
PredIn(m, N, cls, a) ==
  m[a + 4] \in N \cup Roots /\ m[m[a + 4]] = a /\ cls[m[a + 4]] = cls[a]

\* m1 is a memory that differs from m in the lists' words only.
Memory(m, t)        == m \in [WordsBelow(t) -> Nat]
Relinks(m, m1, t, N) ==
  Memory(m1, t) /\ \A a \in WordsBelow(t) : a \notin LinkArea(N) => m1[a] = m[a]

Linked(m, N, cls, rk, n) ==
  /\ cls \in [Nat -> Nat] /\ rk \in [Nat -> Nat] /\ n \in Nat
  /\ \A r \in Roots : cls[r] = r
  /\ \A a \in N : rk[a] < n /\ cls[a] \in Roots
  /\ \A a \in N \cup Roots : SuccIn(m, N, cls, rk, a)
  /\ \A a \in N : PredIn(m, N, cls, a)

LEMMA NodeFacts ==
  ASSUME NEW t \in Nat, t % 8 = 0, t >= HEAP_START, NEW N, Nodes(N, t)
  PROVE  /\ \A a \in N : /\ a \in Nat /\ a \in WordsBelow(t) /\ a + 4 \in WordsBelow(t)
                         /\ a \notin Roots /\ a + 4 \notin Roots /\ a # 4 /\ a + 4 # 4
                         /\ a # 0
         /\ \A a, b \in N : a + 4 # b
         /\ \A r \in Roots : r \in WordsBelow(t) /\ r # 4 /\ r # 0 /\ r \in Nat
         /\ 4 \in WordsBelow(t)
<1>1. \A a \in N : a \in Nat /\ a % 8 = 0 /\ HEAP_START <= a /\ a + 8 <= t
  BY DEF Nodes
<1>2. ASSUME NEW a \in N
      PROVE  /\ a \in Nat /\ a \in WordsBelow(t) /\ a + 4 \in WordsBelow(t)
             /\ a \notin Roots /\ a + 4 \notin Roots /\ a # 4 /\ a + 4 # 4 /\ a # 0
  <2>1. a \in Nat /\ a % 8 = 0 /\ HEAP_START <= a /\ a + 8 <= t
    BY <1>1
  <2>2. a % 4 = 0 /\ (a + 4) % 4 = 0 /\ a < t /\ a + 4 < t /\ a + 4 \in Nat
    BY <2>1
  <2>3. a \in WordsBelow(t) /\ a + 4 \in WordsBelow(t)
    BY <2>1, <2>2, WordsBelowIs
  <2> QED
    BY <2>1, <2>3, StartIs
<1>3. \A a, b \in N : a + 4 # b
  BY <1>1
<1>4. ASSUME NEW r \in Roots PROVE r \in WordsBelow(t) /\ r # 4 /\ r # 0 /\ r \in Nat
  <2>1. r \in Nat /\ r % 4 = 0 /\ r < t /\ 8 <= r
    BY StartIs
  <2> QED
    BY <2>1, WordsBelowIs
<1>5. 4 \in WordsBelow(t)
  <2>1. 4 < t
    BY StartIs
  <2> QED
    BY <2>1, WordsBelowIs
<1> QED
  BY <1>2, <1>3, <1>4, <1>5

\* Taking a node out leaves the rest linked, and touches the lists' words only.
LEMMA UnlinkIs ==
  ASSUME NEW t \in Nat, t % 8 = 0, t >= HEAP_START, NEW N, Nodes(N, t),
         NEW m, Memory(m, t), NEW cls, NEW rk, NEW n,
         Linked(m, N, cls, rk, n), NEW b \in N
  PROVE  Relinks(m, Unlink(m, b), t, N) /\ Linked(Unlink(m, b), N \ {b}, cls, rk, n)
<1> DEFINE p  == m[b + 4]
           s  == m[b]
           D  == WordsBelow(t)
           m1 == Unlink(m, b)
<1>0. m \in [D -> Nat]
  BY DEF Memory
<1>1. /\ cls \in [Nat -> Nat] /\ rk \in [Nat -> Nat] /\ n \in Nat
      /\ \A r \in Roots : cls[r] = r
      /\ \A a \in N : rk[a] < n /\ cls[a] \in Roots
      /\ \A a \in N \cup Roots : SuccIn(m, N, cls, rk, a)
      /\ \A a \in N : PredIn(m, N, cls, a)
  BY DEF Linked
<1>2. p \in N \cup Roots /\ m[p] = b /\ cls[p] = cls[b]
  BY <1>1 DEF PredIn
<1>3. b \in Nat /\ b \in D /\ b + 4 \in D /\ b \notin Roots /\ b # 0
  BY NodeFacts
<1>4. s = 0 \/ (s \in N /\ m[s + 4] = b /\ cls[s] = cls[b] /\ rk[s] < rk[b])
  BY <1>1, <1>3 DEF SuccIn
<1>5. p # b /\ s # b
  <2>1. rk[b] \in Nat
    BY <1>1, <1>3
  <2>2. ~ (rk[b] < rk[b])
    BY <2>1
  <2>3. s # b
    BY <1>3, <1>4, <2>2
  <2> QED
    BY <1>2, <2>3
<1>6. p \in Roots \/ (p \in N /\ rk[b] < rk[p])
  <2>1. SuccIn(m, N, cls, rk, p)
    BY <1>1, <1>2
  <2> QED
    BY <1>2, <1>3, <2>1 DEF SuccIn
<1>7. p \in D /\ s + 4 \in D /\ p \in Nat /\ s \in Nat /\ p # s + 4 /\ b + 4 # p
  <2>1. p \in D /\ p \in Nat /\ p # 4
    BY <1>2, NodeFacts
  <2>2. s + 4 \in D /\ s \in Nat
    <3>1. s = 0 => s + 4 = 4 /\ 4 \in D
      BY NodeFacts
    <3>2. s \in N => s + 4 \in D /\ s \in Nat
      BY NodeFacts
    <3> QED
      BY <1>4, <3>1, <3>2
  <2>3. s = 0 => p # s + 4
    BY <2>1
  <2>4. s \in N => p # s + 4
    BY <1>2, NodeFacts
  <2>5. b + 4 # p
    BY <1>2, NodeFacts
  <2> QED
    BY <1>4, <2>1, <2>2, <2>3, <2>4, <2>5
<1>8. /\ m1 \in [D -> Nat]
      /\ \A a \in D : m1[a] = IF a = s + 4 THEN p ELSE IF a = p THEN s ELSE m[a]
  <2> DEFINE m0 == [m EXCEPT ![p] = s]
  <2>1. m0 \in [D -> Nat] /\ \A a \in D : m0[a] = IF a = p THEN s ELSE m[a]
    BY <1>0, <1>4, <1>7
  <2>2. m0[b] = s /\ m0[b + 4] = p
    BY <1>3, <1>5, <1>7, <2>1
  <2>3. m1 = [m0 EXCEPT ![m0[b] + 4] = m0[b + 4]]
    BY DEF Unlink
  <2>4. m1 = [m0 EXCEPT ![s + 4] = p]
    BY <2>2, <2>3
  <2> HIDE DEF m0, m1, s, p, D
  <2> QED
    BY <2>1, <2>4, <1>7
<1>9. ASSUME NEW a \in D, a \notin LinkArea(N) PROVE m1[a] = m[a]
  <2>1. a # p
    BY <1>2, <1>9 DEF LinkArea
  <2>2. a # s + 4
    <3>1. s = 0 => s + 4 \in LinkArea(N)
      BY DEF LinkArea
    <3>2. s \in N => s + 4 \in LinkArea(N)
      BY DEF LinkArea
    <3> QED
      BY <1>4, <1>9, <3>1, <3>2
  <2> QED
    BY <1>8, <2>1, <2>2
<1> HIDE DEF p, s, D, m1
<1> DEFINE M == N \ {b}
<1>10. ASSUME NEW a \in M \cup Roots PROVE SuccIn(m1, M, cls, rk, a)
  <2>1. a \in D /\ a # s + 4 /\ a # b
    <3>1. a \in D /\ a # b /\ a # 4
      BY <1>3, NodeFacts DEF D
    <3>2. s \in N => a # s + 4
      BY NodeFacts
    <3>3. s = 0 => a # s + 4
      BY <3>1
    <3> QED
      BY <1>4, <3>1, <3>2, <3>3
  <2>2. CASE a = p
    <3>1. m1[a] = s
      BY <1>8, <2>1, <2>2
    <3>2. CASE s = 0
      BY <3>1, <3>2 DEF SuccIn
    <3>3. CASE s # 0
      <4>1. s \in M /\ cls[s] = cls[a] /\ m1[s + 4] = a
        BY <1>2, <1>4, <1>5, <1>7, <1>8, <2>2, <3>3
      <4>2. a \in Roots \/ rk[s] < rk[a]
        <5>1. rk[s] \in Nat /\ rk[b] \in Nat /\ rk[p] \in Nat
          BY <1>1, <1>3, <1>7
        <5> QED
          BY <1>4, <1>6, <2>2, <3>3, <5>1
      <4> QED
        BY <3>1, <4>1, <4>2 DEF SuccIn
    <3> QED
      BY <3>2, <3>3
  <2>3. CASE a # p
    <3> DEFINE v == m[a]
    <3>1. m1[a] = v
      BY <1>8, <2>1, <2>3
    <3>2. SuccIn(m, N, cls, rk, a)
      BY <1>1
    <3>3. CASE v = 0
      BY <3>1, <3>3 DEF SuccIn
    <3>4. CASE v # 0
      <4>1. v \in N /\ m[v + 4] = a /\ cls[v] = cls[a] /\ (a \in Roots \/ rk[v] < rk[a])
        BY <3>2, <3>4 DEF SuccIn
      <4> HIDE DEF v
      <4>2. v # b
        BY <2>3, <4>1 DEF p
      <4>3. v + 4 \in D /\ v + 4 # p
        BY <1>2, <4>1, NodeFacts DEF D
      <4>4. v # s
        BY <1>4, <2>1, <3>4, <4>1
      <4>5. v + 4 # s + 4
        <5>1. v \in Nat
          BY <4>1, NodeFacts
        <5> QED
          BY <1>7, <4>4, <5>1
      <4>6. m1[v + 4] = a
        BY <1>8, <4>1, <4>3, <4>5
      <4> QED
        BY <3>1, <4>1, <4>2, <4>6 DEF SuccIn
    <3> QED
      BY <3>3, <3>4
  <2> QED
    BY <2>2, <2>3
<1>11. ASSUME NEW a \in M PROVE PredIn(m1, M, cls, a)
  <2>1. a \in N /\ a # b /\ a + 4 \in D /\ a \in Nat
    BY NodeFacts DEF D
  <2>2. a + 4 # p
    BY <1>2, <2>1, NodeFacts
  <2>3. CASE a = s
    <3>1. m1[a + 4] = p
      BY <1>8, <2>1, <2>3
    <3>2. p \in M \cup Roots
      BY <1>2, <1>5
    <3>3. m1[p] = a
      BY <1>7, <1>8, <2>3
    <3>4. cls[p] = cls[a]
      BY <1>2, <1>4, <2>1, <2>3, NodeFacts
    <3> QED
      BY <3>1, <3>2, <3>3, <3>4 DEF PredIn
  <2>4. CASE a # s
    <3> DEFINE q == m[a + 4]
    <3>1. a + 4 # s + 4
      BY <1>7, <2>1, <2>4
    <3>2. m1[a + 4] = q
      BY <1>8, <2>1, <2>2, <3>1
    <3>3. q \in N \cup Roots /\ m[q] = a /\ cls[q] = cls[a]
      BY <1>1, <2>1 DEF PredIn
    <3> HIDE DEF q
    <3>4. q # b
      BY <2>4, <3>3 DEF s
    <3>5. q # p
      BY <1>2, <2>1, <3>3
    <3>6. q \in D /\ q # s + 4
      <4>1. q \in D /\ q # 4
        BY <3>3, NodeFacts DEF D
      <4>2. s \in N => q # s + 4
        BY <3>3, NodeFacts
      <4>3. s = 0 => q # s + 4
        BY <4>1
      <4> QED
        BY <1>4, <4>1, <4>2, <4>3
    <3>7. m1[q] = a
      BY <1>8, <3>3, <3>5, <3>6
    <3> QED
      BY <3>2, <3>3, <3>4, <3>7 DEF PredIn
  <2> QED
    BY <2>3, <2>4
<1>12. Linked(m1, M, cls, rk, n)
  BY <1>1, <1>10, <1>11 DEF Linked
<1> QED
  BY <1>8, <1>9, <1>12 DEF m1, D, Relinks, Memory

\* A new node at the head of its list has the highest rank.
LEMMA LinkIs ==
  ASSUME NEW t \in Nat, t % 8 = 0, t >= HEAP_START, NEW N, Nodes(N, t),
         NEW m, Memory(m, t), NEW cls, NEW rk, NEW n,
         Linked(m, N, cls, rk, n),
         NEW b, b \notin N, Nodes(N \cup {b}, t), NEW root \in Roots,
         root = get_root(GET_SIZE(m[b - 4]))
  PROVE  /\ Relinks(m, Link(m, b), t, N \cup {b})
         /\ Linked(Link(m, b), N \cup {b},
                   [cls EXCEPT ![b] = root], [rk EXCEPT ![b] = n], n + 1)
<1> DEFINE M  == N \cup {b}
           s  == m[root]
           D  == WordsBelow(t)
           m1 == Link(m, b)
           c1 == [cls EXCEPT ![b] = root]
           r1 == [rk EXCEPT ![b] = n]
<1>0. m \in [D -> Nat]
  BY DEF Memory
<1>1. /\ cls \in [Nat -> Nat] /\ rk \in [Nat -> Nat] /\ n \in Nat
      /\ \A r \in Roots : cls[r] = r
      /\ \A a \in N : rk[a] < n /\ cls[a] \in Roots
      /\ \A a \in N \cup Roots : SuccIn(m, N, cls, rk, a)
      /\ \A a \in N : PredIn(m, N, cls, a)
  BY DEF Linked
<1>2. b \in M /\ b \in Nat /\ b \in D /\ b + 4 \in D /\ b \notin Roots /\ b + 4 \notin Roots /\ b # 4
  BY NodeFacts
<1>3. root \in Nat /\ root \in D /\ root # 4 /\ root # b /\ root # b + 4 /\ b + 4 # b
  BY <1>2, NodeFacts
<1>4. s = 0 \/ (s \in N /\ m[s + 4] = root /\ cls[s] = root)
  BY <1>1 DEF SuccIn
<1>5. s \in Nat /\ s + 4 \in D /\ s + 4 # root /\ s + 4 # b /\ s + 4 # b + 4
  <2>1. s = 0 => s + 4 = 4 /\ 4 \in D /\ 4 # b + 4
    <3>1. 4 \in D /\ b # 0
      BY <1>2, NodeFacts
    <3> QED
      BY <1>2, <3>1
  <2>2. s \in N => s \in M /\ s \in Nat /\ s + 4 \in D /\ s + 4 # root /\ s + 4 # b /\ s # b
    BY <1>2, <1>3, NodeFacts
  <2> QED
    BY <1>2, <1>3, <1>4, <2>1, <2>2
<1>6. /\ m1 \in [D -> Nat]
      /\ \A a \in D : m1[a] = IF a = root \/ a = s + 4 THEN b
                              ELSE IF a = b THEN s ELSE IF a = b + 4 THEN root ELSE m[a]
  <2> DEFINE m2 == [m EXCEPT ![b] = s, ![b + 4] = root]
             m3 == [m2 EXCEPT ![s + 4] = b]
  <2>1. m2 \in [D -> Nat] /\ \A a \in D : m2[a] = IF a = b THEN s ELSE IF a = b + 4 THEN root ELSE m[a]
    BY <1>0, <1>2, <1>3, <1>5
  <2>2. m2[b] = s
    BY <1>2, <2>1
  <2>3. m1 = [m3 EXCEPT ![root] = b]
    <3>1. m1 = [[m2 EXCEPT ![m2[b] + 4] = b] EXCEPT ![root] = b]
      BY DEF Link
    <3> QED
      BY <2>2, <3>1
  <2> HIDE DEF m2
  <2>4. m3 \in [D -> Nat] /\ \A a \in D : m3[a] = IF a = s + 4 THEN b ELSE m2[a]
    BY <1>2, <1>5, <2>1
  <2> HIDE DEF m3, m1, D, s
  <2> QED
    BY <1>2, <1>3, <2>1, <2>3, <2>4
<1>7. ASSUME NEW a \in D, a \notin LinkArea(M) PROVE m1[a] = m[a]
  <2>1. a # root /\ a # b /\ a # b + 4
    BY <1>2, <1>7 DEF LinkArea
  <2>2. a # s + 4
    <3>1. s = 0 => s + 4 \in LinkArea(M)
      BY DEF LinkArea
    <3>2. s \in N => s + 4 \in LinkArea(M)
      BY DEF LinkArea
    <3> QED
      BY <1>4, <1>7, <3>1, <3>2
  <2> QED
    BY <1>6, <2>1, <2>2
<1>8. /\ c1 \in [Nat -> Nat] /\ r1 \in [Nat -> Nat] /\ n + 1 \in Nat
      /\ c1[b] = root /\ r1[b] = n
      /\ \A a \in N \cup Roots : a \in Nat /\ a # b /\ c1[a] = cls[a] /\ r1[a] = rk[a]
  <2>1. \A a \in N \cup Roots : a \in Nat /\ a # b
    BY <1>2, NodeFacts
  <2> QED
    BY <1>1, <1>2, <1>3, <2>1
<1> HIDE DEF s, D, m1, c1, r1
<1>9. ASSUME NEW a \in M \cup Roots PROVE SuccIn(m1, M, c1, r1, a)
  <2>1. a \in D /\ a # s + 4 /\ a # b + 4
    <3>1. a \in D /\ a # 4
      BY NodeFacts DEF D
    <3>2. s \in N => a # s + 4
      BY NodeFacts
    <3>3. s = 0 => a # s + 4
      BY <3>1
    <3> QED
      BY <1>2, <1>4, <3>1, <3>2, <3>3, NodeFacts
  <2>2. CASE a = root
    <3>1. m1[a] = b /\ m1[b + 4] = root
      BY <1>2, <1>3, <1>5, <1>6, <2>1, <2>2
    <3>2. c1[b] = root /\ c1[a] = root
      BY <1>1, <1>8, <2>2
    <3> QED
      BY <2>2, <3>1, <3>2 DEF SuccIn
  <2>3. CASE a = b
    <3>1. m1[a] = s
      BY <1>3, <1>6, <2>1, <2>3
    <3>2. CASE s = 0
      BY <3>1, <3>2 DEF SuccIn
    <3>3. CASE s # 0
      <4>1. s \in N /\ cls[s] = root
        BY <1>4, <3>3
      <4>2. m1[s + 4] = b
        BY <1>5, <1>6
      <4>3. c1[s] = c1[b] /\ r1[s] < r1[b]
        BY <1>1, <1>8, <4>1
      <4> QED
        BY <2>3, <3>1, <4>1, <4>2, <4>3 DEF SuccIn
    <3> QED
      BY <3>2, <3>3
  <2>4. CASE a # root /\ a # b
    <3> DEFINE v == m[a]
    <3>1. m1[a] = v
      BY <1>6, <2>1, <2>4
    <3>2. a \in N \cup Roots /\ SuccIn(m, N, cls, rk, a)
      BY <1>1, <2>4
    <3>3. CASE v = 0
      BY <3>1, <3>3 DEF SuccIn
    <3>4. CASE v # 0
      <4>1. v \in N /\ m[v + 4] = a /\ cls[v] = cls[a] /\ (a \in Roots \/ rk[v] < rk[a])
        BY <3>2, <3>4 DEF SuccIn
      <4> HIDE DEF v
      <4>2. v \in M /\ v \in Nat /\ v + 4 \in D /\ v + 4 # root /\ v + 4 # b
        BY <4>1, NodeFacts DEF D
      <4>3. v # b /\ v + 4 # b + 4
        BY <1>2, <1>8, <4>1, <4>2
      <4>4. v # s /\ v + 4 # s + 4
        <5>1. v # s
          BY <1>4, <2>4, <3>4, <4>1
        <5> QED
          BY <1>5, <4>2, <5>1
      <4>5. m1[v + 4] = a
        BY <1>6, <4>1, <4>2, <4>3, <4>4
      <4>6. c1[v] = c1[a] /\ (a \in Roots \/ r1[v] < r1[a])
        BY <1>8, <3>2, <4>1
      <4> QED
        BY <3>1, <4>2, <4>5, <4>6 DEF SuccIn
    <3> QED
      BY <3>3, <3>4
  <2> QED
    BY <2>2, <2>3, <2>4
<1>10. ASSUME NEW a \in M PROVE PredIn(m1, M, c1, a)
  <2>1. a \in Nat /\ a + 4 \in D /\ a + 4 # root /\ a + 4 # b
    BY <1>2, NodeFacts DEF D
  <2>2. CASE a = b
    <3>1. m1[a + 4] = root
      BY <1>2, <1>5, <1>6, <2>1, <2>2
    <3>2. m1[root] = a
      BY <1>3, <1>6, <2>2
    <3>3. c1[root] = c1[a]
      BY <1>1, <1>8, <2>2
    <3> QED
      BY <3>1, <3>2, <3>3 DEF PredIn
  <2>3. CASE a = s /\ a # b
    <3>1. m1[a + 4] = b
      BY <1>6, <2>1, <2>3
    <3>2. m1[b] = a
      BY <1>2, <1>3, <1>5, <1>6, <2>3
    <3>3. c1[b] = c1[a]
      <4>1. a \in N /\ cls[a] = root
        BY <1>4, <2>3, NodeFacts
      <4> QED
        BY <1>8, <4>1
    <3> QED
      BY <3>1, <3>2, <3>3 DEF PredIn
  <2>4. CASE a # s /\ a # b
    <3> DEFINE q == m[a + 4]
    <3>0. a \in N /\ a + 4 # s + 4 /\ a + 4 # b + 4
      BY <1>2, <1>5, <2>1, <2>4
    <3>1. m1[a + 4] = q
      BY <1>6, <2>1, <3>0
    <3>2. q \in N \cup Roots /\ m[q] = a /\ cls[q] = cls[a]
      BY <1>1, <3>0 DEF PredIn
    <3> HIDE DEF q
    <3>3. q # root
      BY <2>4, <3>2 DEF s
    <3>4. q # b /\ q \in D /\ q # b + 4
      <4>1. q # b /\ q \in D
        BY <1>8, <3>2, NodeFacts DEF D
      <4>2. q \in M => q # b + 4
        BY <1>2, NodeFacts
      <4> QED
        BY <1>2, <3>2, <4>1, <4>2
    <3>5. q # s + 4
      <4>1. q # 4
        BY <3>2, NodeFacts
      <4>2. s \in N => q # s + 4
        BY <3>2, NodeFacts
      <4>3. s = 0 => q # s + 4
        BY <4>1
      <4> QED
        BY <1>4, <4>2, <4>3
    <3>6. m1[q] = a
      BY <1>6, <3>2, <3>3, <3>4, <3>5
    <3>7. c1[q] = c1[a]
      BY <1>8, <3>0, <3>2
    <3> QED
      BY <3>1, <3>2, <3>6, <3>7 DEF PredIn
  <2> QED
    BY <2>2, <2>3, <2>4
<1>11. /\ \A r \in Roots : c1[r] = r
       /\ \A a \in M : r1[a] < n + 1 /\ c1[a] \in Roots
  BY <1>1, <1>8
<1>12. Linked(m1, M, c1, r1, n + 1)
  BY <1>8, <1>9, <1>10, <1>11 DEF Linked
<1> QED
  BY <1>6, <1>7, <1>12 DEF m1, D, c1, r1, Relinks, Memory

\* The lists depend on their own words only.
LEMMA LinksStay ==
  ASSUME NEW t \in Nat, t % 8 = 0, t >= HEAP_START, NEW N, Nodes(N, t),
         NEW m, NEW m1, NEW cls, NEW rk, NEW n, Linked(m, N, cls, rk, n),
         \A a \in LinkArea(N) \ {4} : m1[a] = m[a]
  PROVE  Linked(m1, N, cls, rk, n)
<1>1. \A a \in N \cup Roots : m1[a] = m[a]
  <2>1. \A a \in N \cup Roots : a \in LinkArea(N) \ {4}
    BY NodeFacts DEF LinkArea
  <2> QED
    BY <2>1
<1>2. \A a \in N : m1[a + 4] = m[a + 4]
  <2>1. \A a \in N : a + 4 \in LinkArea(N) \ {4}
    BY NodeFacts DEF LinkArea
  <2> QED
    BY <2>1
<1>3. \A a \in N \cup Roots : SuccIn(m1, N, cls, rk, a)
  BY <1>1, <1>2 DEF Linked, SuccIn
<1>4. \A a \in N : PredIn(m1, N, cls, a)
  BY <1>1, <1>2 DEF Linked, PredIn
<1> QED
  BY <1>3, <1>4 DEF Linked

-----------------------------------------------------------------------------
\* BlockHeap's lemmas, for the blocks of this heap.
P == INSTANCE BlockHeapProofs WITH
       Adjusted <- AdjustedSize, blocks <- AbstractBlocks,
       top <- IF Started THEN heap.brk ELSE 0

\* Blocks that lie apart below the break t.
Apart(B, t) ==
  /\ B \subseteq P!Block
  /\ t \in Nat /\ t >= HEAP_START /\ t % 8 = 0
  /\ \A x \in B : /\ HEAP_START <= x.lo /\ x.lo + 16 <= x.hi /\ x.hi <= t
                  /\ x.lo % 8 = 0 /\ x.hi % 8 = 0
  /\ \A x, y \in B : x = y \/ x.hi <= y.lo \/ y.hi <= x.lo

\* The bit each block keeps of the block before it, and a block's word.
PrevOf(B)   == [a \in Nat |-> IF \E y \in B : y.req = 0 /\ y.hi = a THEN 0 ELSE 1]
Alloc(x)    == IF x.req = 0 THEN 0 ELSE 1
Word(x, pv) == PACK(x.hi - x.lo, Alloc(x), pv[x.lo])

Tagged(m, x, pv) ==
  m[x.lo - 4] = Word(x, pv) /\ (x.req = 0 => m[x.hi - 8] = Word(x, pv))

\* Memory m is the heap of the blocks B up to break t, whose headers have the
\* bits pv of the blocks before them.
Stored(m, t, B, pv) ==
  /\ Memory(m, t) /\ pv \in [Nat -> {0, 1}]
  /\ m[HEAP_START - 12] = 11 /\ m[HEAP_START - 8] = 11 /\ m[t - 4] = PACK(0, 1, pv[t])
  /\ \A x \in B : Tagged(m, x, pv)

\* The words of block x after its header, and that they are the same in m1 as
\* in m for the blocks of S.
Payload(x)      == {a \in Nat : x.lo <= a /\ a <= x.hi - 8 /\ a % 4 = 0}
Keeps(m, m1, S) == \A x \in S : \A a \in Payload(x) : m1[a] = m[a]

\* The free blocks of B by their addresses, and their lists.
Frees(B) == {x.lo : x \in {y \in B : y.req = 0}}
SameLinks(m, m1, t, B) == \A a \in LinkArea(Frees(B)) \cap WordsBelow(t) : m1[a] = m[a]
Lists(m, B) ==
  \E cls, rk, n : /\ Linked(m, Frees(B), cls, rk, n)
                  /\ \A x \in B : x.req = 0 => cls[x.lo] = get_root(x.hi - x.lo)

-----------------------------------------------------------------------------
LEMMA RequestsAre ==
  /\ Sizes \subseteq Nat \ {0} /\ UserWords \subseteq Nat
  /\ \A n \in Sizes : n + 12 < SIZE_MOD
<1>1. \A c \in Clients : \A n \in c.mallocs \cup c.callocs \cup c.reallocs :
        n \in Nat \ {0} /\ n + 12 < SIZE_MOD
  BY ClientsAssumption, WidthAssumption
<1>2. UserWords \subseteq Nat
  BY ClientsAssumption DEF UserWords
<1> QED
  BY <1>1, <1>2 DEF Sizes

LEMMA Assumptions ==
  /\ P!ChunkAssumption /\ P!StartAssumption /\ P!MaxHeapAssumption
  /\ P!SizesAssumption /\ P!AdjustedAssumption
<1>1. P!ChunkAssumption
  BY ChunkAssumption DEF P!ChunkAssumption, P!MINBLOCK
<1>2. P!StartAssumption
  BY StartIs DEF P!StartAssumption
<1>3. P!MaxHeapAssumption
  BY WordsAssumption, RoomAssumption DEF P!MaxHeapAssumption
<1>4. Sizes \subseteq Nat \ {0}
  BY RequestsAre
<1>5. P!SizesAssumption
  BY <1>4 DEF P!SizesAssumption
<1>6. P!AdjustedAssumption
  <2> SUFFICES ASSUME NEW n \in Sizes
               PROVE  /\ AdjustedSize(n) \in Nat /\ AdjustedSize(n) >= 16
                      /\ AdjustedSize(n) % 8 = 0 /\ AdjustedSize(n) >= n + 4
    BY DEF P!AdjustedAssumption, P!MINBLOCK, P!HEADER
  <2>1. n \in Nat /\ n > 0 /\ n + 12 < SIZE_MOD
    BY RequestsAre
  <2> QED
    BY <2>1, AdjustedSizeFits, StartIs
<1> QED
  BY <1>1, <1>2, <1>3, <1>5, <1>6

LEMMA ApartFacts ==
  ASSUME NEW B, NEW t, Apart(B, t)
  PROVE  /\ t \in Nat /\ t >= HEAP_START /\ t % 8 = 0
         /\ \A x \in B : /\ x \in P!Block /\ x.lo \in Nat /\ x.hi \in Nat /\ x.req \in Nat
                         /\ HEAP_START <= x.lo /\ x.lo + 16 <= x.hi /\ x.hi <= t
                         /\ x.lo % 8 = 0 /\ x.hi % 8 = 0
         /\ \A x, y \in B : x = y \/ x.hi <= y.lo \/ y.hi <= x.lo
BY DEF Apart, P!Block

LEMMA SoundFacts ==
  ASSUME NEW B, NEW t, P!Sound(B, t)
  PROVE  /\ Apart(B, t)
         /\ \A x \in B : x.req > 0 => x.req + 4 <= x.hi - x.lo
         /\ \A x \in B : x.hi = t \/ \E y \in B : y.lo = x.hi
         /\ t > HEAP_START => \E x \in B : x.lo = HEAP_START
         /\ \A x, y \in B : x.req = 0 /\ y.req = 0 => x.hi # y.lo
BY DEF P!Sound, P!Sized, P!Disjoint, P!Tiled, P!Coalesced, P!Block, P!MINBLOCK, P!HEADER, P!Length,
       Apart

LEMMA HoleFacts ==
  ASSUME NEW B, NEW lo, NEW hi, NEW t, P!Hole(B, lo, hi, t)
  PROVE  /\ Apart(B, t)
         /\ lo \in Nat /\ hi \in Nat /\ lo % 8 = 0 /\ hi % 8 = 0
         /\ HEAP_START <= lo /\ lo + 16 <= hi /\ hi <= t
         /\ \A x \in B : x.hi <= lo \/ hi <= x.lo
         /\ \A x \in B : x.hi = t \/ x.hi = lo \/ \E y \in B : y.lo = x.hi
         /\ hi = t \/ \E y \in B : y.lo = hi
         /\ lo = HEAP_START \/ \E y \in B : y.lo = HEAP_START
         /\ \A x, y \in B : x.req = 0 /\ y.req = 0 => x.hi # y.lo
BY DEF P!Hole, P!Sized, P!Disjoint, P!Coalesced, P!Block, P!MINBLOCK, Apart

LEMMA ApartSub ==
  ASSUME NEW B, NEW t, Apart(B, t), NEW S \in SUBSET B
  PROVE  Apart(S, t)
BY DEF Apart

\* The free blocks are nodes.
LEMMA FreesAre ==
  ASSUME NEW B, NEW t, Apart(B, t)
  PROVE  /\ Nodes(Frees(B), t)
         /\ \A x \in B : x.req = 0 => x.lo \in Frees(B)
         /\ \A x \in B : x.req # 0 => x.lo \notin Frees(B)
<1>1. \A a \in Frees(B) : \E x \in B : x.req = 0 /\ a = x.lo
  BY DEF Frees
<1>2. ASSUME NEW a \in Frees(B) PROVE a \in Nat /\ a % 8 = 0 /\ HEAP_START <= a /\ a + 8 <= t
  BY <1>1, ApartFacts
<1>3. Nodes(Frees(B), t)
  BY <1>2 DEF Nodes
<1>4. ASSUME NEW x \in B, x.req # 0, x.lo \in Frees(B) PROVE FALSE
  <2>1. PICK y \in B : y.req = 0 /\ x.lo = y.lo
    BY <1>1, <1>4
  <2>2. x # y
    BY <1>4, <2>1
  <2> QED
    BY <2>1, <2>2, ApartFacts
<1> QED
  BY <1>3, <1>4 DEF Frees

LEMMA WordIs ==
  ASSUME NEW x, x.lo \in Nat, x.hi \in Nat, x.lo + 16 <= x.hi, x.lo % 8 = 0, x.hi % 8 = 0,
         NEW pv \in [Nat -> {0, 1}]
  PROVE  /\ Word(x, pv) \in Nat
         /\ GET_SIZE(Word(x, pv)) = x.hi - x.lo
         /\ GET_ALLOC(Word(x, pv)) = Alloc(x)
         /\ GET_PREV_ALLOC(Word(x, pv)) = pv[x.lo]
<1>1. x.hi - x.lo \in Nat /\ (x.hi - x.lo) % 8 = 0
  OBVIOUS
<1>2. Alloc(x) \in {0, 1} /\ pv[x.lo] \in {0, 1}
  BY DEF Alloc
<1> QED
  BY <1>1, <1>2, PackIs DEF Word

LEMMA PrevIs ==
  ASSUME NEW B
  PROVE  PrevOf(B) \in [Nat -> {0, 1}]
BY DEF PrevOf

\* Header and footer of a block, and where they are not.
LEMMA Spots ==
  ASSUME NEW C, NEW t, Apart(C, t), NEW n \in C
  PROVE  /\ \A x \in C \ {n} : /\ x.lo - 4 \notin {n.lo - 4, n.hi - 8}
                               /\ x.hi - 8 \notin {n.lo - 4, n.hi - 8}
         /\ \A a \in {HEAP_START - 12, HEAP_START - 8, t - 4} : a \notin {n.lo - 4, n.hi - 8}
         /\ n.lo - 4 \in WordsBelow(t) /\ n.hi - 8 \in WordsBelow(t)
         /\ n.lo - 4 # n.hi - 8
<1>1. /\ t \in Nat /\ t % 8 = 0 /\ n.lo \in Nat /\ n.hi \in Nat /\ HEAP_START <= n.lo
      /\ n.lo + 16 <= n.hi /\ n.hi <= t /\ n.lo % 8 = 0 /\ n.hi % 8 = 0
  BY ApartFacts
<1>0. HEAP_START \in Nat /\ HEAP_START >= 24 /\ HEAP_START % 8 = 0
  BY StartIs
<1>2. ASSUME NEW x \in C \ {n}
      PROVE  x.lo - 4 \notin {n.lo - 4, n.hi - 8} /\ x.hi - 8 \notin {n.lo - 4, n.hi - 8}
  <2>1. /\ x.lo \in Nat /\ x.hi \in Nat /\ x.lo % 8 = 0 /\ x.hi % 8 = 0
        /\ x.lo + 16 <= x.hi /\ (x.hi <= n.lo \/ n.hi <= x.lo)
    BY ApartFacts
  <2> QED
    BY <1>1, <2>1
<1>3. \A a \in {HEAP_START - 12, HEAP_START - 8, t - 4} : a \notin {n.lo - 4, n.hi - 8}
  BY <1>0, <1>1
<1>4. n.lo - 4 \in WordsBelow(t) /\ n.hi - 8 \in WordsBelow(t)
  <2>1. /\ n.lo - 4 \in Nat /\ (n.lo - 4) % 4 = 0 /\ n.lo - 4 < t
        /\ n.hi - 8 \in Nat /\ (n.hi - 8) % 4 = 0 /\ n.hi - 8 < t
    BY <1>0, <1>1
  <2> QED
    BY <1>1, <2>1, WordsBelowIs
<1> QED
  BY <1>1, <1>2, <1>3, <1>4

\* The lists' words are nobody's tags, and not in the payload of a held block.
LEMMA LinksApart ==
  ASSUME NEW C, NEW t, Apart(C, t), NEW a \in LinkArea(Frees(C))
  PROVE  /\ \A x \in C : a # x.lo - 4 /\ a # x.hi - 8
         /\ a # HEAP_START - 12 /\ a # HEAP_START - 8 /\ a # t - 4
         /\ \A x \in P!Held(C) : a \notin Payload(x)
<1>0. HEAP_START \in Nat /\ HEAP_START >= 24 /\ t \in Nat /\ t >= HEAP_START /\ t % 8 = 0
  BY StartIs, ApartFacts
<1>1. \/ a \in Nat /\ a <= HEAP_START - 16
      \/ \E y \in C : y.req = 0 /\ (a = y.lo \/ a = y.lo + 4)
  <2>1. a = 4 \/ a \in Roots => a \in Nat /\ a <= HEAP_START - 16
    BY StartIs
  <2> QED
    BY <2>1 DEF LinkArea, Frees
<1>2. CASE a \in Nat /\ a <= HEAP_START - 16
  <2>1. \A x \in C : x.lo \in Nat /\ x.hi \in Nat /\ HEAP_START <= x.lo /\ x.lo + 16 <= x.hi
    BY ApartFacts
  <2>2. \A x \in P!Held(C) : x \in C
    BY DEF P!Held
  <2> QED
    BY <1>0, <1>2, <2>1, <2>2 DEF Payload
<1>3. CASE \E y \in C : y.req = 0 /\ (a = y.lo \/ a = y.lo + 4)
  <2>1. PICK y \in C : y.req = 0 /\ (a = y.lo \/ a = y.lo + 4)
    BY <1>3
  <2>2. /\ y.lo \in Nat /\ y.hi \in Nat /\ HEAP_START <= y.lo /\ y.lo + 16 <= y.hi /\ y.hi <= t
        /\ y.lo % 8 = 0 /\ y.hi % 8 = 0
    BY ApartFacts
  <2>3. ASSUME NEW x \in C PROVE a # x.lo - 4 /\ a # x.hi - 8
    <3>1. /\ x.lo \in Nat /\ x.hi \in Nat /\ x.lo + 16 <= x.hi
          /\ x.lo % 8 = 0 /\ x.hi % 8 = 0 /\ (x = y \/ x.hi <= y.lo \/ y.hi <= x.lo)
      BY ApartFacts
    <3> QED
      BY <2>1, <2>2, <3>1
  <2>4. ASSUME NEW x \in P!Held(C) PROVE a \notin Payload(x)
    <3>1. x \in C /\ x # y
      BY <2>1 DEF P!Held
    <3>2. x.lo \in Nat /\ x.hi \in Nat /\ x.lo + 16 <= x.hi /\ (x.hi <= y.lo \/ y.hi <= x.lo)
      BY <3>1, ApartFacts
    <3> QED
      BY <2>1, <2>2, <3>2 DEF Payload
  <2> QED
    BY <1>0, <2>1, <2>2, <2>3, <2>4
<1> QED
  BY <1>1, <1>2, <1>3

\* A change to the lists' words changes no tag and no payload.
LEMMA LinksAside ==
  ASSUME NEW C, NEW t, Apart(C, t), NEW S \in SUBSET C, NEW pv, NEW m, Stored(m, t, S, pv),
         NEW m1, Relinks(m, m1, t, Frees(C))
  PROVE  Stored(m1, t, S, pv) /\ Keeps(m, m1, P!Held(C))
<1>0. HEAP_START \in Nat /\ HEAP_START >= 24 /\ HEAP_START % 8 = 0
      /\ t \in Nat /\ t >= HEAP_START /\ t % 8 = 0
  BY StartIs, ApartFacts
<1>9. Memory(m1, t) /\ \A a \in WordsBelow(t) : a \notin LinkArea(Frees(C)) => m1[a] = m[a]
  BY DEF Relinks
<1>1. /\ m1[HEAP_START - 12] = m[HEAP_START - 12] /\ m1[HEAP_START - 8] = m[HEAP_START - 8]
      /\ m1[t - 4] = m[t - 4]
  <2>1. /\ HEAP_START - 12 \in WordsBelow(t) /\ HEAP_START - 8 \in WordsBelow(t)
        /\ t - 4 \in WordsBelow(t)
    BY <1>0, WordsBelowIs
  <2>2. /\ HEAP_START - 12 \notin LinkArea(Frees(C)) /\ HEAP_START - 8 \notin LinkArea(Frees(C))
        /\ t - 4 \notin LinkArea(Frees(C))
    BY LinksApart
  <2> QED
    BY <1>9, <2>1, <2>2
<1>2. ASSUME NEW x \in S PROVE m1[x.lo - 4] = m[x.lo - 4] /\ m1[x.hi - 8] = m[x.hi - 8]
  <2>1. x \in C
    OBVIOUS
  <2>2. x.lo - 4 \in WordsBelow(t) /\ x.hi - 8 \in WordsBelow(t)
    BY <2>1, Spots
  <2>3. x.lo - 4 \notin LinkArea(Frees(C)) /\ x.hi - 8 \notin LinkArea(Frees(C))
    BY <2>1, LinksApart
  <2> QED
    BY <1>9, <2>2, <2>3
<1>3. Stored(m1, t, S, pv)
  <2>1. \A x \in S : Tagged(m1, x, pv)
    BY <1>2 DEF Stored, Tagged
  <2> QED
    BY <1>1, <1>9, <2>1 DEF Stored
<1>4. Keeps(m, m1, P!Held(C))
  <2> SUFFICES ASSUME NEW x \in P!Held(C), NEW a \in Payload(x) PROVE m1[a] = m[a]
    BY DEF Keeps
  <2>1. a \notin LinkArea(Frees(C))
    BY LinksApart
  <2>2. x \in C
    BY DEF P!Held
  <2>3. x.lo \in Nat /\ x.hi \in Nat /\ x.hi <= t
    BY <2>2, ApartFacts
  <2>4. a \in WordsBelow(t)
    <3>1. a \in Nat /\ a % 4 = 0 /\ a < t
      BY <1>0, <2>3 DEF Payload
    <3> QED
      BY <1>0, <3>1, WordsBelowIs
  <2> QED
    BY <1>9, <2>1, <2>4
<1> QED
  BY <1>3, <1>4

-----------------------------------------------------------------------------
\* Tag writes the two words of a block.
LEMMA TagIs ==
  ASSUME NEW D, NEW m \in [D -> Nat], NEW lo, lo - 4 \in D, NEW word \in Nat
  PROVE  /\ Tag(m, lo, word) \in [D -> Nat]
         /\ \A a \in D : Tag(m, lo, word)[a] =
              IF a = lo - 4 \/ a = lo + GET_SIZE(word) - 8 THEN word ELSE m[a]
<1> DEFINE m1 == [m EXCEPT ![lo - 4] = word]
<1>1. m1[lo - 4] = word
  OBVIOUS
<1>2. FTRP(m1, lo) = lo + GET_SIZE(word) - 8
  BY <1>1 DEF FTRP
<1>3. Tag(m, lo, word) = [m1 EXCEPT ![lo + GET_SIZE(word) - 8] = word]
  BY <1>2 DEF Tag
<1> QED
  BY <1>3

\* m1 is m but for tags of the block n.
Retags(m, m1, t, n) ==
  /\ m1 \in [WordsBelow(t) -> Nat]
  /\ \A a \in WordsBelow(t) : a # n.lo - 4 /\ a # n.hi - 8 => m1[a] = m[a]

LEMMA RetagStays ==
  ASSUME NEW C, NEW t, Apart(C, t), NEW n \in C, NEW S \in SUBSET C, n \notin S,
         NEW m, NEW m1, NEW pv, Stored(m, t, S, pv), Retags(m, m1, t, n)
  PROVE  /\ Stored(m1, t, S, pv)
         /\ Keeps(m, m1, P!Held(C) \ {n})
         /\ SameLinks(m, m1, t, C)
<1>0. HEAP_START \in Nat /\ HEAP_START >= 24 /\ HEAP_START % 8 = 0
      /\ t \in Nat /\ t >= HEAP_START /\ t % 8 = 0
  BY StartIs, ApartFacts
<1>1. /\ m1[HEAP_START - 12] = m[HEAP_START - 12] /\ m1[HEAP_START - 8] = m[HEAP_START - 8]
      /\ m1[t - 4] = m[t - 4]
  <2>1. /\ HEAP_START - 12 \in WordsBelow(t) /\ HEAP_START - 8 \in WordsBelow(t)
        /\ t - 4 \in WordsBelow(t)
    BY <1>0, WordsBelowIs
  <2>2. \A a \in {HEAP_START - 12, HEAP_START - 8, t - 4} : a \notin {n.lo - 4, n.hi - 8}
    BY Spots
  <2> QED
    BY <2>1, <2>2 DEF Retags
<1>2. ASSUME NEW x \in S PROVE m1[x.lo - 4] = m[x.lo - 4] /\ m1[x.hi - 8] = m[x.hi - 8]
  <2>1. x \in C \ {n}
    OBVIOUS
  <2>2. x.lo - 4 \in WordsBelow(t) /\ x.hi - 8 \in WordsBelow(t)
    BY <2>1, Spots
  <2>3. x.lo - 4 \notin {n.lo - 4, n.hi - 8} /\ x.hi - 8 \notin {n.lo - 4, n.hi - 8}
    BY <2>1, Spots
  <2> QED
    BY <2>2, <2>3 DEF Retags
<1>3. Stored(m1, t, S, pv)
  <2>1. \A x \in S : Tagged(m1, x, pv)
    BY <1>2 DEF Stored, Tagged
  <2> QED
    BY <1>1, <2>1 DEF Stored, Retags, Memory
<1>4. Keeps(m, m1, P!Held(C) \ {n})
  <2> SUFFICES ASSUME NEW x \in P!Held(C) \ {n}, NEW a \in Payload(x) PROVE m1[a] = m[a]
    BY DEF Keeps
  <2>1. x \in C
    BY DEF P!Held
  <2>2. /\ x.lo \in Nat /\ x.hi \in Nat /\ x.hi <= t /\ x.lo + 16 <= x.hi
        /\ x.hi <= n.lo \/ n.hi <= x.lo
        /\ n.lo \in Nat /\ n.hi \in Nat /\ n.lo + 16 <= n.hi
    BY <2>1, ApartFacts
  <2>3. a \in Nat /\ x.lo <= a /\ a <= x.hi - 8 /\ a % 4 = 0
    BY DEF Payload
  <2>4. a \in WordsBelow(t)
    BY <1>0, <2>2, <2>3, WordsBelowIs
  <2>5. a # n.lo - 4 /\ a # n.hi - 8
    BY <2>2, <2>3
  <2> QED
    BY <2>4, <2>5 DEF Retags
<1>5. \A a \in LinkArea(Frees(C)) \cap WordsBelow(t) : m1[a] = m[a]
  BY LinksApart DEF Retags, SameLinks
<1> QED
  BY <1>3, <1>4, <1>5 DEF SameLinks

\* With its own word a free block joins those the memory stores.
LEMMA TagStores ==
  ASSUME NEW C, NEW t, Apart(C, t), NEW n \in C, n.req = 0, NEW S \in SUBSET C, n \notin S,
         NEW m, NEW pv, Stored(m, t, S, pv), NEW word, word = Word(n, pv)
  PROVE  /\ Stored(Tag(m, n.lo, word), t, S \cup {n}, pv)
         /\ Keeps(m, Tag(m, n.lo, word), P!Held(C))
         /\ SameLinks(m, Tag(m, n.lo, word), t, C)
<1> DEFINE m1 == Tag(m, n.lo, word)
<1>1. m \in [WordsBelow(t) -> Nat] /\ pv \in [Nat -> {0, 1}]
  BY DEF Stored, Memory
<1>2. n.lo \in Nat /\ n.hi \in Nat /\ n.lo + 16 <= n.hi /\ n.lo % 8 = 0 /\ n.hi % 8 = 0
  BY ApartFacts
<1>3. word \in Nat /\ GET_SIZE(word) = n.hi - n.lo
  BY <1>1, <1>2, WordIs
<1>4. n.lo - 4 \in WordsBelow(t) /\ n.hi - 8 \in WordsBelow(t)
  BY Spots
<1>5. n.lo + GET_SIZE(word) - 8 = n.hi - 8
  BY <1>2, <1>3
<1>6. /\ m1 \in [WordsBelow(t) -> Nat]
      /\ \A a \in WordsBelow(t) : m1[a] = IF a = n.lo - 4 \/ a = n.hi - 8 THEN word ELSE m[a]
  <2>1. /\ m1 \in [WordsBelow(t) -> Nat]
        /\ \A a \in WordsBelow(t) :
             m1[a] = IF a = n.lo - 4 \/ a = n.lo + GET_SIZE(word) - 8 THEN word ELSE m[a]
    BY <1>1, <1>3, <1>4, TagIs
  <2> QED
    BY <2>1, <1>5
<1> HIDE DEF m1
<1>7. Retags(m, m1, t, n)
  BY <1>6 DEF Retags
<1>8. Tagged(m1, n, pv)
  BY <1>4, <1>6 DEF Tagged
<1>9. n \notin P!Held(C)
  BY DEF P!Held
<1>10. /\ Stored(m1, t, S, pv) /\ Keeps(m, m1, P!Held(C) \ {n})
       /\ SameLinks(m, m1, t, C)
  BY <1>7, RetagStays
<1>11. P!Held(C) \ {n} = P!Held(C)
  BY <1>9
<1>12. Stored(m1, t, S \cup {n}, pv)
  BY <1>8, <1>10 DEF Stored
<1> QED
  BY <1>10, <1>11, <1>12 DEF m1

\* An allocated block has a header only.
LEMMA HeaderStores ==
  ASSUME NEW C, NEW t, Apart(C, t), NEW n \in C, n.req # 0, NEW S \in SUBSET C, n \notin S,
         NEW m, NEW pv, Stored(m, t, S, pv), NEW word, word = Word(n, pv)
  PROVE  /\ Stored([m EXCEPT ![n.lo - 4] = word], t, S \cup {n}, pv)
         /\ Keeps(m, [m EXCEPT ![n.lo - 4] = word], P!Held(C))
         /\ SameLinks(m, [m EXCEPT ![n.lo - 4] = word], t, C)
<1> DEFINE m1 == [m EXCEPT ![n.lo - 4] = word]
<1>1. m \in [WordsBelow(t) -> Nat] /\ pv \in [Nat -> {0, 1}]
  BY DEF Stored, Memory
<1>2. n.lo \in Nat /\ n.hi \in Nat /\ n.lo + 16 <= n.hi /\ n.lo % 8 = 0 /\ n.hi % 8 = 0
  BY ApartFacts
<1>3. word \in Nat
  BY <1>1, <1>2, WordIs
<1>4. n.lo - 4 \in WordsBelow(t)
  BY Spots
<1>6. /\ m1 \in [WordsBelow(t) -> Nat]
      /\ \A a \in WordsBelow(t) : m1[a] = IF a = n.lo - 4 THEN word ELSE m[a]
  BY <1>1, <1>3, <1>4
<1> HIDE DEF m1
<1>7. Retags(m, m1, t, n)
  BY <1>6 DEF Retags
<1>8. Tagged(m1, n, pv)
  BY <1>4, <1>6 DEF Tagged
<1>10. /\ Stored(m1, t, S, pv) /\ Keeps(m, m1, P!Held(C) \ {n})
       /\ SameLinks(m, m1, t, C)
  <2> HIDE DEF Retags, Stored, Keeps, LinkArea
  <2> QED
    BY <1>7, RetagStays, SMTT(30)
<1>11. Stored(m1, t, S \cup {n}, pv)
  BY <1>8, <1>10 DEF Stored
<1>12. Keeps(m, m1, P!Held(C))
  <2> SUFFICES ASSUME NEW x \in P!Held(C), NEW a \in Payload(x) PROVE m1[a] = m[a]
    BY DEF Keeps
  <2>1. CASE x # n
    BY <1>10, <2>1 DEF Keeps
  <2>2. CASE x = n
    <3>1. a \in Nat /\ n.lo <= a /\ a <= n.hi - 8 /\ a % 4 = 0 /\ n.hi <= t /\ t \in Nat /\ t % 8 = 0
      BY <2>2, ApartFacts DEF Payload
    <3>2. a \in WordsBelow(t) /\ a # n.lo - 4
      BY <1>2, <3>1, WordsBelowIs
    <3> QED
      BY <1>6, <3>2
  <2> QED
    BY <2>1, <2>2
<1> QED
  BY <1>10, <1>11, <1>12 DEF m1

-----------------------------------------------------------------------------
LEMMA LinkWordsSub ==
  ASSUME NEW C, NEW X \in SUBSET C
  PROVE  Frees(X) \subseteq Frees(C) /\ LinkArea(Frees(X)) \subseteq LinkArea(Frees(C))
BY DEF Frees, LinkArea

LEMMA FreesWithout ==
  ASSUME NEW X, NEW t, Apart(X, t), NEW b \in X
  PROVE  Frees(X \ {b}) = Frees(X) \ {b.lo}
<1>1. \A x \in X : x.lo = b.lo => x = b
  BY ApartFacts
<1> QED
  BY <1>1 DEF Frees

LEMMA FreesWith ==
  ASSUME NEW X, NEW b, b.req = 0
  PROVE  Frees(X \cup {b}) = Frees(X) \cup {b.lo}
BY DEF Frees

\* Every free block is on some list.
LEMMA RootOf ==
  ASSUME NEW C, NEW t, Apart(C, t), NEW b \in C
  PROVE  get_root(b.hi - b.lo) \in Roots /\ b.hi - b.lo \in Nat /\ b.hi - b.lo >= 16
<1>1. b.hi - b.lo \in Nat /\ b.hi - b.lo >= 16
  BY ApartFacts
<1> QED
  BY <1>1, RootRises

\* The lists are of the free blocks, and are what their words say.
LEMMA ListsSame ==
  ASSUME NEW m, NEW X, NEW Y, Lists(m, X), \A y : y.req = 0 => (y \in X <=> y \in Y)
  PROVE  Lists(m, Y)
<1>1. Frees(X) = Frees(Y)
  BY DEF Frees
<1> QED
  BY <1>1 DEF Lists

LEMMA ListsStay ==
  ASSUME NEW X, NEW t, Apart(X, t), NEW m, NEW m1, Lists(m, X), SameLinks(m, m1, t, X)
  PROVE  Lists(m1, X)
<1>1. Nodes(Frees(X), t) /\ t \in Nat /\ t % 8 = 0 /\ t >= HEAP_START
  BY FreesAre, ApartFacts
<1>2. LinkArea(Frees(X)) \subseteq WordsBelow(t)
  BY <1>1, NodeFacts DEF LinkArea
<1>3. PICK cls, rk, n : /\ Linked(m, Frees(X), cls, rk, n)
                        /\ \A x \in X : x.req = 0 => cls[x.lo] = get_root(x.hi - x.lo)
  BY DEF Lists
<1>4. \A a \in LinkArea(Frees(X)) \ {4} : m1[a] = m[a]
  BY <1>2 DEF SameLinks
<1>5. Linked(m1, Frees(X), cls, rk, n)
  BY <1>1, <1>3, <1>4, LinksStay
<1> QED
  BY <1>3, <1>5 DEF Lists

LEMMA UnlinkStores ==
  ASSUME NEW C, NEW t, Apart(C, t), NEW S \in SUBSET C, NEW m, NEW pv, Stored(m, t, S, pv),
         NEW X \in SUBSET C, Lists(m, X), NEW b \in X, b.req = 0
  PROVE  /\ Stored(Unlink(m, b.lo), t, S, pv)
         /\ Lists(Unlink(m, b.lo), X \ {b})
         /\ Keeps(m, Unlink(m, b.lo), P!Held(C))
         /\ Relinks(m, Unlink(m, b.lo), t, Frees(X))
<1> DEFINE m1 == Unlink(m, b.lo)
<1>1. Apart(X, t) /\ t \in Nat /\ t % 8 = 0 /\ t >= HEAP_START
  BY ApartSub, ApartFacts
<1>2. Nodes(Frees(X), t) /\ b.lo \in Frees(X)
  BY <1>1, FreesAre
<1>3. Memory(m, t)
  BY DEF Stored
<1>4. PICK cls, rk, n : /\ Linked(m, Frees(X), cls, rk, n)
                        /\ \A x \in X : x.req = 0 => cls[x.lo] = get_root(x.hi - x.lo)
  BY DEF Lists
<1>5. Relinks(m, m1, t, Frees(X)) /\ Linked(m1, Frees(X) \ {b.lo}, cls, rk, n)
  <2> DEFINE a == b.lo
             N == Frees(X)
  <2>1. Nodes(N, t) /\ a \in N /\ Linked(m, N, cls, rk, n)
    BY <1>2, <1>4
  <2> HIDE DEF a, N
  <2>2. Relinks(m, Unlink(m, a), t, N) /\ Linked(Unlink(m, a), N \ {a}, cls, rk, n)
    BY <1>1, <1>3, <2>1, UnlinkIs
  <2> QED
    BY <2>2 DEF a, N
<1> HIDE DEF m1
<1>6. Frees(X \ {b}) = Frees(X) \ {b.lo}
  BY <1>1, FreesWithout
<1>7. Linked(m1, Frees(X \ {b}), cls, rk, n)
  BY <1>5, <1>6
<1>8. Lists(m1, X \ {b})
  BY <1>4, <1>7 DEF Lists
<1>9. Relinks(m, m1, t, Frees(C))
  BY <1>5, LinkWordsSub DEF Relinks
<1>10. Stored(m1, t, S, pv) /\ Keeps(m, m1, P!Held(C))
  BY <1>5, <1>9, LinksAside
<1> QED
  BY <1>5, <1>8, <1>10 DEF m1

LEMMA LinkStores ==
  ASSUME NEW C, NEW t, Apart(C, t), NEW S \in SUBSET C, NEW m, NEW pv, Stored(m, t, S, pv),
         NEW X \in SUBSET C, Lists(m, X), NEW b \in S, b.req = 0, b \notin X
  PROVE  /\ Stored(Link(m, b.lo), t, S, pv)
         /\ Lists(Link(m, b.lo), X \cup {b})
         /\ Keeps(m, Link(m, b.lo), P!Held(C))
<1> DEFINE m1   == Link(m, b.lo)
           root == get_root(b.hi - b.lo)
<1>1. Apart(X, t) /\ Apart(X \cup {b}, t) /\ t \in Nat /\ t % 8 = 0 /\ t >= HEAP_START
  BY ApartSub, ApartFacts
<1>2. Nodes(Frees(X), t) /\ Nodes(Frees(X) \cup {b.lo}, t) /\ b.lo \notin Frees(X)
  <2>1. \A x \in X : x.lo # b.lo
    BY ApartFacts
  <2>2. b.lo \notin Frees(X)
    BY <2>1 DEF Frees
  <2>3. Nodes(Frees(X), t) /\ Nodes(Frees(X \cup {b}), t)
    BY <1>1, FreesAre
  <2>4. Frees(X \cup {b}) = Frees(X) \cup {b.lo}
    BY FreesWith
  <2> QED
    BY <2>2, <2>3, <2>4
<1>3. Memory(m, t) /\ pv \in [Nat -> {0, 1}]
  BY DEF Stored
<1>4. PICK cls, rk, n : /\ Linked(m, Frees(X), cls, rk, n)
                        /\ \A x \in X : x.req = 0 => cls[x.lo] = get_root(x.hi - x.lo)
  BY DEF Lists
<1>5. root \in Roots /\ root = get_root(GET_SIZE(m[b.lo - 4]))
  <2>1. b.lo \in Nat /\ b.hi \in Nat /\ b.lo + 16 <= b.hi /\ b.lo % 8 = 0 /\ b.hi % 8 = 0
    BY ApartFacts
  <2>2. m[b.lo - 4] = Word(b, pv)
    BY DEF Stored, Tagged
  <2>3. GET_SIZE(Word(b, pv)) = b.hi - b.lo
    BY <1>3, <2>1, WordIs
  <2> QED
    BY <2>2, <2>3, RootOf
<1> HIDE DEF root
<1> DEFINE c1 == [cls EXCEPT ![b.lo] = root]
           r1 == [rk EXCEPT ![b.lo] = n]
<1>6. /\ Relinks(m, m1, t, Frees(X) \cup {b.lo})
      /\ Linked(m1, Frees(X) \cup {b.lo}, c1, r1, n + 1)
  <2> DEFINE a == b.lo
             N == Frees(X)
  <2>1. /\ Nodes(N, t) /\ Nodes(N \cup {a}, t) /\ a \notin N /\ Linked(m, N, cls, rk, n)
        /\ root = get_root(GET_SIZE(m[a - 4]))
    BY <1>2, <1>4, <1>5
  <2> HIDE DEF a, N
  <2>2. /\ Relinks(m, Link(m, a), t, N \cup {a})
        /\ Linked(Link(m, a), N \cup {a},
                  [cls EXCEPT ![a] = root], [rk EXCEPT ![a] = n], n + 1)
    BY <1>1, <1>3, <1>5, <2>1, LinkIs
  <2> QED
    BY <2>2 DEF a, N
<1>7. \A x \in X \cup {b} : x.req = 0 => c1[x.lo] = get_root(x.hi - x.lo)
  <2>1. cls \in [Nat -> Nat]
    BY <1>4 DEF Linked
  <2>2. \A x \in X : x.lo # b.lo /\ x.lo \in Nat /\ b.lo \in Nat
    BY ApartFacts
  <2>3. b.lo \in Nat
    BY ApartFacts
  <2>4. c1[b.lo] = root
    BY <2>1, <2>3
  <2>5. \A x \in X : c1[x.lo] = cls[x.lo]
    BY <2>1, <2>2
  <2> HIDE DEF c1
  <2> QED
    BY <1>4, <2>4, <2>5 DEF root
<1> HIDE DEF m1, c1, r1
<1>8. Frees(X \cup {b}) = Frees(X) \cup {b.lo}
  BY FreesWith
<1>9. Lists(m1, X \cup {b})
  BY <1>6, <1>7, <1>8 DEF Lists
<1>10. Relinks(m, m1, t, Frees(C))
  <2>1. X \cup {b} \in SUBSET C
    OBVIOUS
  <2>2. LinkArea(Frees(X) \cup {b.lo}) \subseteq LinkArea(Frees(C))
    BY <1>8, <2>1, LinkWordsSub
  <2> QED
    BY <1>6, <2>2 DEF Relinks
<1>11. Stored(m1, t, S, pv) /\ Keeps(m, m1, P!Held(C))
  BY <1>6, <1>10, LinksAside
<1> QED
  BY <1>9, <1>11 DEF m1

\* The bits matter where a block or the epilogue begins.
LEMMA BitsAgree ==
  ASSUME NEW m, NEW t, NEW B, NEW pv, Stored(m, t, B, pv),
         NEW pw \in [Nat -> {0, 1}], pw[t] = pv[t], \A x \in B : pw[x.lo] = pv[x.lo]
  PROVE  Stored(m, t, B, pw)
BY DEF Stored, Tagged, Word

\* The block, or the epilogue, that begins at a.
LEMMA SetPrevAllocStores ==
  ASSUME NEW B, NEW t, Apart(B, t), NEW m, NEW pv, Stored(m, t, B, pv),
         NEW a \in Nat, a = t \/ (\E x \in B : x.lo = a), NEW bit \in {0, 1}
  PROVE  /\ Stored(SetPrevAlloc(m, a, bit), t, B, [pv EXCEPT ![a] = bit])
         /\ Keeps(m, SetPrevAlloc(m, a, bit), P!Held(B))
         /\ SameLinks(m, SetPrevAlloc(m, a, bit), t, B)
<1> DEFINE m1 == SetPrevAlloc(m, a, bit)
           pw == [pv EXCEPT ![a] = bit]
<1>0. /\ t \in Nat /\ t >= HEAP_START /\ t % 8 = 0
      /\ HEAP_START \in Nat /\ HEAP_START >= 24 /\ HEAP_START % 8 = 0
  BY ApartFacts, StartIs
<1>1. pv \in [Nat -> {0, 1}] /\ m \in [WordsBelow(t) -> Nat]
  BY DEF Stored, Memory
<1>2. /\ pw \in [Nat -> {0, 1}] /\ pw[a] = bit
      /\ \A b \in Nat : b # a => pw[b] = pv[b]
  BY <1>1
<1> HIDE DEF pw
<1>3. CASE a = t
  <2>1. m[a - 4] = PACK(0, 1, pv[t])
    BY <1>3 DEF Stored
  <2>2. pv[t] \in {0, 1}
    BY <1>0, <1>1
  <2>3. GET_SIZE(PACK(0, 1, pv[t])) = 0 /\ GET_ALLOC(PACK(0, 1, pv[t])) = 1
    BY <2>2, PackIs
  <2>4. PACK(0, 1, bit) \in Nat /\ GET_ALLOC(PACK(0, 1, bit)) = 1
    BY PackIs
  <2>5. m1 = [m EXCEPT ![t - 4] = PACK(0, 1, bit)]
    BY <1>3, <2>1, <2>3, <2>4 DEF SetPrevAlloc
  <2>6. t - 4 \in WordsBelow(t)
    BY <1>0, WordsBelowIs
  <2>7. /\ m1 \in [WordsBelow(t) -> Nat] /\ m1[t - 4] = PACK(0, 1, bit)
        /\ \A b \in WordsBelow(t) : b # t - 4 => m1[b] = m[b]
    BY <1>1, <2>4, <2>5, <2>6
  <2> HIDE DEF m1
  <2>8. m1[HEAP_START - 12] = 11 /\ m1[HEAP_START - 8] = 11
    <3>1. /\ HEAP_START - 12 \in WordsBelow(t) /\ HEAP_START - 8 \in WordsBelow(t)
          /\ HEAP_START - 12 # t - 4 /\ HEAP_START - 8 # t - 4
      BY <1>0, WordsBelowIs
    <3> QED
      BY <2>7, <3>1 DEF Stored
  <2>9. ASSUME NEW x \in B PROVE Tagged(m1, x, pw)
    <3>1. /\ x.lo - 4 \in WordsBelow(t) /\ x.hi - 8 \in WordsBelow(t)
          /\ t - 4 # x.lo - 4 /\ t - 4 # x.hi - 8
      BY Spots
    <3>2. m1[x.lo - 4] = m[x.lo - 4] /\ m1[x.hi - 8] = m[x.hi - 8]
      BY <2>7, <3>1
    <3>3. x.lo \in Nat /\ x.lo # a
      BY <1>3, ApartFacts
    <3>4. pw[x.lo] = pv[x.lo]
      BY <1>2, <3>3
    <3>5. Tagged(m, x, pv)
      BY DEF Stored
    <3> QED
      BY <3>2, <3>4, <3>5 DEF Tagged, Word
  <2>10. Stored(m1, t, B, pw)
    BY <1>2, <1>3, <2>7, <2>8, <2>9 DEF Stored, Memory
  <2>11. Keeps(m, m1, P!Held(B))
    <3> SUFFICES ASSUME NEW x \in P!Held(B), NEW b \in Payload(x) PROVE m1[b] = m[b]
      BY DEF Keeps
    <3>1. x.lo \in Nat /\ x.hi \in Nat /\ x.hi <= t
      BY ApartFacts DEF P!Held
    <3>2. b \in Nat /\ b <= x.hi - 8 /\ b % 4 = 0
      BY DEF Payload
    <3>3. b \in WordsBelow(t) /\ b # t - 4
      BY <1>0, <3>1, <3>2, WordsBelowIs
    <3> QED
      BY <2>7, <3>3
  <2>12. SameLinks(m, m1, t, B)
    BY <2>7, LinksApart DEF SameLinks
  <2> QED
    BY <2>10, <2>11, <2>12 DEF m1, pw
<1>4. ASSUME NEW x \in B, x.lo = a
      PROVE  /\ Stored(m1, t, B, pw) /\ Keeps(m, m1, P!Held(B))
             /\ SameLinks(m, m1, t, B)
  <2>1. /\ x.lo \in Nat /\ x.hi \in Nat /\ x.lo + 16 <= x.hi /\ x.hi <= t
        /\ x.lo % 8 = 0 /\ x.hi % 8 = 0
    BY ApartFacts
  <2>2. m[a - 4] = Word(x, pv)
    BY <1>4 DEF Stored, Tagged
  <2>3. GET_SIZE(Word(x, pv)) = x.hi - x.lo /\ GET_ALLOC(Word(x, pv)) = Alloc(x)
    BY <1>1, <2>1, WordIs
  <2> DEFINE word == PACK(GET_SIZE(m[a - 4]), GET_ALLOC(m[a - 4]), bit)
  <2>4. word = Word(x, pw)
    BY <1>2, <1>4, <2>2, <2>3 DEF Word
  <2>5. GET_ALLOC(word) = Alloc(x)
    BY <1>2, <2>1, <2>4, WordIs
  <2>6. m1 = IF GET_ALLOC(word) = 1 THEN [m EXCEPT ![a - 4] = word] ELSE Tag(m, a, word)
    BY DEF SetPrevAlloc
  <2> HIDE DEF word, m1
  <2> DEFINE S == B \ {x}
  <2>7. Stored(m, t, S, pw)
    <3>1. Stored(m, t, S, pv)
      BY DEF Stored
    <3>2. \A y \in S : pw[y.lo] = pv[y.lo]
      <4>1. \A y \in S : y.lo \in Nat /\ y.lo # a
        BY <1>4, ApartFacts
      <4> QED
        BY <1>2, <4>1
    <3>3. pw[t] = pv[t]
      <4>1. t # a
        BY <1>0, <1>4, <2>1
      <4> QED
        BY <1>0, <1>2, <4>1
    <3> QED
      BY <1>2, <3>1, <3>2, <3>3, BitsAgree
  <2>8. S \in SUBSET B /\ x \notin S /\ S \cup {x} = B
    OBVIOUS
  <2> HIDE DEF S
  <2>9. CASE x.req = 0
    <3>1. m1 = Tag(m, x.lo, word)
      BY <1>4, <2>5, <2>6, <2>9 DEF Alloc
    <3>2. /\ Stored(Tag(m, x.lo, word), t, S \cup {x}, pw)
          /\ Keeps(m, Tag(m, x.lo, word), P!Held(B))
          /\ SameLinks(m, Tag(m, x.lo, word), t, B)
      BY <2>4, <2>7, <2>8, <2>9, TagStores
    <3> QED
      BY <2>8, <3>1, <3>2
  <2>10. CASE x.req # 0
    <3>1. m1 = [m EXCEPT ![x.lo - 4] = word]
      BY <1>4, <2>5, <2>6, <2>10 DEF Alloc
    <3>2. /\ Stored([m EXCEPT ![x.lo - 4] = word], t, S \cup {x}, pw)
          /\ Keeps(m, [m EXCEPT ![x.lo - 4] = word], P!Held(B))
          /\ SameLinks(m, [m EXCEPT ![x.lo - 4] = word], t, B)
      BY <2>4, <2>7, <2>8, <2>10, HeaderStores
    <3> QED
      BY <2>8, <3>1, <3>2
  <2> QED
    BY <2>9, <2>10
<1> QED
  BY <1>3, <1>4 DEF m1, pw

-----------------------------------------------------------------------------
LEMMA KeepsTwice ==
  ASSUME NEW m, NEW m1, NEW m2, NEW S, Keeps(m, m1, S), Keeps(m1, m2, S)
  PROVE  Keeps(m, m2, S)
BY DEF Keeps

LEMMA KeepsSub ==
  ASSUME NEW m, NEW m1, NEW S, NEW T \in SUBSET S, Keeps(m, m1, S)
  PROVE  Keeps(m, m1, T)
BY DEF Keeps

LEMMA KeepsSelf ==
  ASSUME NEW m, NEW S
  PROVE  Keeps(m, m, S)
BY DEF Keeps

LEMMA SubsetStored ==
  ASSUME NEW m, NEW t, NEW B, NEW pv, Stored(m, t, B, pv), NEW S \in SUBSET B
  PROVE  Stored(m, t, S, pv)
BY DEF Stored

LEMMA SameLinksSub ==
  ASSUME NEW m, NEW m1, NEW t, NEW C, NEW X \in SUBSET C, SameLinks(m, m1, t, C)
  PROVE  SameLinks(m, m1, t, X)
BY LinkWordsSub DEF SameLinks

Free1(lo, hi) == [lo |-> lo, hi |-> hi, req |-> 0]

\* A hole filled with a free block.
LEMMA HoleFilled ==
  ASSUME NEW B, NEW lo, NEW hi, NEW t, P!Hole(B, lo, hi, t)
  PROVE  /\ Apart(B \cup {Free1(lo, hi)}, t) /\ Free1(lo, hi) \notin B
         /\ P!Held(B \cup {Free1(lo, hi)}) = P!Held(B)
<1> DEFINE h == Free1(lo, hi)
<1>1. h.lo = lo /\ h.hi = hi /\ h.req = 0
  BY DEF Free1
<1>2. h \in P!Block
  BY HoleFacts DEF P!Block, Free1
<1> HIDE DEF h
<1>3. h \notin B
  <2> SUFFICES ASSUME h \in B PROVE FALSE
    OBVIOUS
  <2>1. h.hi <= lo \/ hi <= h.lo
    BY HoleFacts
  <2> QED
    BY <1>1, <2>1, HoleFacts
<1>4. Apart(B \cup {h}, t)
  BY <1>1, <1>2, HoleFacts DEF Apart
<1>5. P!Held(B \cup {h}) = P!Held(B)
  BY <1>1 DEF P!Held
<1> QED
  BY <1>3, <1>4, <1>5 DEF h

\* The bit in the header at lo says whether a free block ends there, and the
\* footer before it where it begins.
LEMMA LooksBack ==
  ASSUME NEW B, NEW t, Apart(B, t), NEW n \in B, NEW m, Stored(m, t, B, PrevOf(B))
  PROVE  /\ GET_PREV_ALLOC(m[n.lo - 4]) = 0 <=> \E z \in B : z.req = 0 /\ z.hi = n.lo
         /\ \A z \in B : z.req = 0 /\ z.hi = n.lo => PREV_BLKP(m, n.lo) = z.lo
         /\ NEXT_BLKP(m, n.lo) = n.hi
<1> DEFINE pv == PrevOf(B)
<1>1. /\ n.lo \in Nat /\ n.hi \in Nat /\ n.lo + 16 <= n.hi /\ n.lo % 8 = 0 /\ n.hi % 8 = 0
      /\ pv \in [Nat -> {0, 1}]
  BY ApartFacts, PrevIs
<1>2. m[n.lo - 4] = Word(n, pv)
  BY DEF Stored, Tagged
<1>3. GET_PREV_ALLOC(m[n.lo - 4]) = pv[n.lo] /\ GET_SIZE(m[n.lo - 4]) = n.hi - n.lo
  BY <1>1, <1>2, WordIs
<1>4. pv[n.lo] = 0 <=> \E z \in B : z.req = 0 /\ z.hi = n.lo
  BY <1>1 DEF PrevOf
<1>5. NEXT_BLKP(m, n.lo) = n.hi
  BY <1>1, <1>3 DEF NEXT_BLKP
<1>6. ASSUME NEW z \in B, z.req = 0, z.hi = n.lo PROVE PREV_BLKP(m, n.lo) = z.lo
  <2>1. z.lo \in Nat /\ z.hi \in Nat /\ z.lo + 16 <= z.hi /\ z.lo % 8 = 0 /\ z.hi % 8 = 0
    BY ApartFacts
  <2>2. m[z.hi - 8] = Word(z, pv)
    BY <1>6 DEF Stored, Tagged
  <2>3. GET_SIZE(m[z.hi - 8]) = z.hi - z.lo
    BY <1>1, <2>1, <2>2, WordIs
  <2> HIDE DEF pv
  <2> QED
    BY <1>6, <2>1, <2>3 DEF PREV_BLKP
<1> QED
  BY <1>3, <1>4, <1>5, <1>6

\* The header at a says whether a free block begins there.
LEMMA LooksAhead ==
  ASSUME NEW B, NEW t, Apart(B, t), NEW a \in Nat, a = t \/ (\E x \in B : x.lo = a),
         NEW m, NEW pv, Stored(m, t, B, pv)
  PROVE  /\ GET_ALLOC(m[a - 4]) = 0 <=> \E z \in B : z.req = 0 /\ z.lo = a
         /\ \A z \in B : z.lo = a => NEXT_BLKP(m, a) = z.hi
<1>0. pv \in [Nat -> {0, 1}]
  BY DEF Stored
<1>1. CASE a = t
  <2>1. m[a - 4] = PACK(0, 1, pv[t]) /\ pv[t] \in {0, 1}
    BY <1>0, <1>1, ApartFacts DEF Stored
  <2>2. GET_ALLOC(m[a - 4]) = 1
    BY <2>1, PackIs
  <2>3. \A z \in B : z.lo # a
    BY <1>1, ApartFacts
  <2> QED
    BY <2>2, <2>3
<1>2. ASSUME NEW x \in B, x.lo = a
      PROVE  /\ GET_ALLOC(m[a - 4]) = 0 <=> \E z \in B : z.req = 0 /\ z.lo = a
             /\ \A z \in B : z.lo = a => NEXT_BLKP(m, a) = z.hi
  <2>1. x.lo \in Nat /\ x.hi \in Nat /\ x.lo + 16 <= x.hi /\ x.lo % 8 = 0 /\ x.hi % 8 = 0
    BY ApartFacts
  <2>2. m[a - 4] = Word(x, pv)
    BY <1>2 DEF Stored, Tagged
  <2>3. GET_SIZE(m[a - 4]) = x.hi - x.lo /\ GET_ALLOC(m[a - 4]) = Alloc(x)
    BY <1>0, <2>1, <2>2, WordIs
  <2>4. \A z \in B : z.lo = a => z = x
    BY <1>2, <2>1, ApartFacts
  <2>5. NEXT_BLKP(m, a) = x.hi
    BY <1>2, <2>1, <2>3 DEF NEXT_BLKP
  <2> QED
    BY <1>2, <2>3, <2>4, <2>5 DEF Alloc
<1> QED
  BY <1>1, <1>2

\* What coalesce leaves at bp, in memory m1, when it is called for the hole.
Coalesces(m, B, lo, hi, t, m1, n) ==
  /\ coalesce(m, lo) = [mem |-> m1, bp |-> n.lo]
  /\ n \in P!Coalesce(B, lo, hi) /\ n.req = 0 /\ n.lo <= lo /\ hi <= n.hi
  /\ Stored(m1, t, P!Coalesce(B, lo, hi), PrevOf(P!Coalesce(B, lo, hi)))
  /\ Lists(m1, P!Coalesce(B, lo, hi))
  /\ Keeps(m, m1, P!Held(B))

\* The bits of the blocks that stay are those of the heap with the hole filled.
LEMMA CoalesceBits ==
  ASSUME NEW B, NEW lo, NEW hi, NEW t, P!Hole(B, lo, hi, t), NEW C, P!Sound(C, t),
         NEW L, L = P!Left(B, lo), NEW R, R = P!Right(B, hi),
         NEW n, n \notin B, C = (B \ (L \cup R)) \cup {n}, n.req = 0, n.lo <= lo, hi <= n.hi,
         \/ n.lo = lo /\ L = {}
         \/ \E z \in B : L = {z} /\ z.req = 0 /\ z.hi = lo /\ n.lo = z.lo,
         \/ n.hi = hi /\ R = {}
         \/ \E z \in B : R = {z} /\ z.req = 0 /\ z.lo = hi /\ n.hi = z.hi,
         NEW a \in Nat, a = t \/ \E x \in C \ {n} : a = x.lo
  PROVE  PrevOf(C)[a] = PrevOf(B \cup {Free1(lo, hi)})[a]
<1> DEFINE h == Free1(lo, hi)
<1>1. h.lo = lo /\ h.hi = hi /\ h.req = 0
  BY DEF Free1
<1> HIDE DEF h
<1>2. n \in C /\ Apart(C, t) /\ n.lo \in Nat /\ n.hi \in Nat /\ n.hi <= t /\ t \in Nat
  BY SoundFacts, ApartFacts
<1>3. lo \in Nat /\ hi \in Nat /\ lo + 16 <= hi
  BY HoleFacts
<1>4. a <= n.lo \/ n.hi <= a
  <2>1. ASSUME NEW x \in C, x # n, a = x.lo PROVE a <= n.lo \/ n.hi <= a
    <3>1. (x.hi <= n.lo \/ n.hi <= x.lo) /\ x.lo \in Nat /\ x.hi \in Nat /\ x.lo + 16 <= x.hi
      BY <1>2, <2>1, ApartFacts
    <3> QED
      BY <1>2, <2>1, <3>1
  <2> QED
    BY <1>2, <2>1
<1>5. a # n.lo
  <2>1. ASSUME NEW x \in C, x # n, a = x.lo PROVE a # n.lo
    <3>1. /\ x.hi <= n.lo \/ n.hi <= x.lo
          /\ x.lo \in Nat /\ x.hi \in Nat /\ x.lo + 16 <= x.hi /\ n.lo + 16 <= n.hi
      BY <1>2, <2>1, ApartFacts
    <3> QED
      BY <1>2, <2>1, <3>1
  <2>2. t # n.lo
    BY <1>2, <1>3
  <2> QED
    BY <2>1, <2>2
<1>6. ASSUME NEW y \in C, y.req = 0, y.hi = a
      PROVE  \E z \in B \cup {h} : z.req = 0 /\ z.hi = a
  BY <1>1, <1>6
<1>7. ASSUME NEW y \in B \cup {h}, y.req = 0, y.hi = a
      PROVE  \E z \in C : z.req = 0 /\ z.hi = a
  <2>1. CASE y \in L
    <3>1. y.hi = lo
      BY <2>1 DEF P!Left
    <3>2. n.lo < lo
      <4>1. PICK z \in B : L = {z} /\ z.req = 0 /\ z.hi = lo /\ n.lo = z.lo
        BY <2>1
      <4>2. z.lo \in Nat /\ z.lo + 16 <= z.hi
        BY HoleFacts, ApartFacts
      <4> QED
        BY <1>3, <4>1, <4>2
    <3> QED
      BY <1>2, <1>3, <1>4, <1>7, <3>1, <3>2
  <2>2. CASE y \in R
    <3>1. y.hi = n.hi
      BY <2>2
    <3> QED
      BY <1>2, <1>7, <3>1
  <2>3. CASE y \in B /\ y \notin L /\ y \notin R
    BY <1>7, <2>3
  <2>4. CASE y = h
    <3>1. CASE R = {}
      BY <1>1, <1>2, <1>7, <2>4, <3>1
    <3>2. CASE R # {}
      <4>1. PICK z \in B : R = {z} /\ z.req = 0 /\ z.lo = hi /\ n.hi = z.hi
        BY <3>2
      <4>2. z.lo \in Nat /\ z.hi \in Nat /\ z.lo + 16 <= z.hi
        BY HoleFacts, ApartFacts
      <4> QED
        BY <1>1, <1>2, <1>3, <1>4, <1>7, <2>4, <4>1, <4>2
    <3> QED
      BY <3>1, <3>2
  <2> QED
    BY <2>1, <2>2, <2>3, <2>4
<1> QED
  BY <1>6, <1>7 DEF PrevOf, h

\* coalesce closes a hole the way BlockHeap does.
LEMMA CoalesceStores ==
  ASSUME NEW B, NEW lo, NEW hi, NEW t, P!Hole(B, lo, hi, t), NEW m,
         Stored(m, t, B \cup {Free1(lo, hi)}, PrevOf(B \cup {Free1(lo, hi)})), Lists(m, B)
  PROVE  \E m1, n : Coalesces(m, B, lo, hi, t, m1, n)
<1> DEFINE C  == P!Coalesce(B, lo, hi)
           L  == P!Left(B, lo)
           R  == P!Right(B, hi)
           h  == Free1(lo, hi)
           C0 == B \cup {h}
           pv == PrevOf(C0)
<1>1. PICK n \in P!Block :
        /\ C = (B \ (L \cup R)) \cup {n}
        /\ n.req = 0
        /\ n.lo <= lo /\ hi <= n.hi
        /\ \/ n.lo = lo /\ L = {}
           \/ \E z \in B : L = {z} /\ z.req = 0 /\ z.hi = lo /\ n.lo = z.lo
        /\ \/ n.hi = hi /\ R = {}
           \/ \E z \in B : R = {z} /\ z.req = 0 /\ z.lo = hi /\ n.hi = z.hi
  BY P!CoalesceCloses, Assumptions
<1>2. P!Sound(C, t) /\ P!Held(C) = P!Held(B)
  BY P!CoalesceIsSound, Assumptions
<1>3. h.lo = lo /\ h.hi = hi /\ h.req = 0 /\ h \in C0
  BY DEF Free1
<1>4. Apart(C0, t) /\ Apart(B, t) /\ Apart(C, t) /\ h \notin B /\ P!Held(C0) = P!Held(B)
  BY <1>2, HoleFilled, HoleFacts, SoundFacts
<1>5. Stored(m, t, C0, pv) /\ B \in SUBSET C0
  OBVIOUS
<1>6. L = {x \in B : x.req = 0 /\ x.hi = lo} /\ R = {x \in B : x.req = 0 /\ x.lo = hi}
  BY DEF P!Left, P!Right
<1>7. lo \in Nat /\ hi \in Nat /\ lo + 16 <= hi /\ (hi = t \/ \E x \in C0 : x.lo = hi)
  BY HoleFacts
<1>8. n \notin B /\ n \in C /\ C \ {n} = B \ (L \cup R)
  <2>1. n.lo \in Nat /\ n.hi \in Nat
    BY DEF P!Block
  <2>2. n \notin B
    <3> SUFFICES ASSUME n \in B PROVE FALSE
      OBVIOUS
    <3>1. n.hi <= lo \/ hi <= n.lo
      BY HoleFacts
    <3> QED
      BY <1>1, <1>7, <2>1, <3>1
  <2> QED
    BY <1>1, <2>2
<1> DEFINE prev_free == GET_PREV_ALLOC(m[lo - 4]) = 0
           next_free == GET_ALLOC(m[hi - 4]) = 0
<1> HIDE DEF L, R, h
<1>9. (prev_free <=> L # {}) /\ NEXT_BLKP(m, lo) = hi
      /\ \A z \in L : PREV_BLKP(m, lo) = z.lo
  <2>1. /\ GET_PREV_ALLOC(m[h.lo - 4]) = 0 <=> \E z \in C0 : z.req = 0 /\ z.hi = h.lo
        /\ \A z \in C0 : z.req = 0 /\ z.hi = h.lo => PREV_BLKP(m, h.lo) = z.lo
        /\ NEXT_BLKP(m, h.lo) = h.hi
    BY <1>3, <1>4, <1>5, LooksBack
  <2>2. \A z \in C0 : z.req = 0 /\ z.hi = lo => z \in L
    BY <1>3, <1>6, <1>7
  <2> QED
    BY <1>3, <1>6, <2>1, <2>2
<1>10. (next_free <=> R # {}) /\ \A z \in R : NEXT_BLKP(m, hi) = z.hi
  <2>1. /\ GET_ALLOC(m[hi - 4]) = 0 <=> \E z \in C0 : z.req = 0 /\ z.lo = hi
        /\ \A z \in C0 : z.lo = hi => NEXT_BLKP(m, hi) = z.hi
    BY <1>4, <1>5, <1>7, LooksAhead
  <2>2. \A z \in C0 : z.req = 0 /\ z.lo = hi => z \in R
    BY <1>3, <1>6, <1>7
  <2> QED
    BY <1>6, <2>1, <2>2
<1> DEFINE first == IF prev_free THEN PREV_BLKP(m, lo) ELSE lo
           past  == IF next_free THEN NEXT_BLKP(m, hi) ELSE hi
           m1    == IF prev_free THEN Unlink(m, first) ELSE m
           m2    == IF next_free THEN Unlink(m1, hi) ELSE m1
           m3    == Tag(m2, first, PACK(past - first, 0, 1))
           m4    == Link(m3, first)
<1>11. coalesce(m, lo) = [mem |-> m4, bp |-> first]
  BY <1>9 DEF coalesce
<1>12. first = n.lo /\ past = n.hi
  BY <1>1, <1>9, <1>10
<1>13. Stored(m1, t, C0, pv) /\ Lists(m1, B \ L) /\ Keeps(m, m1, P!Held(C0))
  <2>1. CASE L = {}
    <3>1. m1 = m /\ B \ L = B
      BY <1>9, <2>1
    <3> QED
      BY <1>5, <3>1, KeepsSelf
  <2>2. CASE L # {}
    <3>1. PICK z \in B : L = {z} /\ z.req = 0 /\ z.hi = lo /\ n.lo = z.lo
      BY <1>1, <2>2
    <3>2. m1 = Unlink(m, z.lo)
      BY <1>9, <1>12, <2>2, <3>1
    <3>3. /\ Stored(Unlink(m, z.lo), t, C0, pv) /\ Lists(Unlink(m, z.lo), B \ {z})
          /\ Keeps(m, Unlink(m, z.lo), P!Held(C0))
      <4> HIDE DEF C0, pv
      <4> QED
        BY <1>4, <1>5, <3>1, UnlinkStores
    <3> QED
      BY <3>1, <3>2, <3>3
  <2> QED
    BY <2>1, <2>2
<1> HIDE DEF m1
<1>14. Stored(m2, t, C0, pv) /\ Lists(m2, (B \ L) \ R) /\ Keeps(m1, m2, P!Held(C0))
  <2>1. CASE R = {}
    <3>1. m2 = m1 /\ (B \ L) \ R = B \ L
      BY <1>10, <2>1
    <3> QED
      BY <1>13, <3>1, KeepsSelf
  <2>2. CASE R # {}
    <3>1. PICK z \in B : R = {z} /\ z.req = 0 /\ z.lo = hi /\ n.hi = z.hi
      BY <1>1, <2>2
    <3>2. m2 = Unlink(m1, z.lo)
      BY <1>10, <2>2, <3>1
    <3>3. z \in B \ L /\ B \ L \in SUBSET C0
      <4>1. z.lo \in Nat /\ z.hi \in Nat /\ z.lo + 16 <= z.hi
        BY <1>4, ApartFacts
      <4> QED
        BY <1>6, <1>7, <3>1, <4>1
    <3>4. /\ Stored(Unlink(m1, z.lo), t, C0, pv) /\ Lists(Unlink(m1, z.lo), (B \ L) \ {z})
          /\ Keeps(m1, Unlink(m1, z.lo), P!Held(C0))
      <4> HIDE DEF C0, pv
      <4> QED
        BY <1>4, <1>13, <3>1, <3>3, UnlinkStores
    <3> QED
      BY <3>1, <3>2, <3>4
  <2> QED
    BY <2>1, <2>2
<1> HIDE DEF m2
<1> DEFINE S  == C \ {n}
           pw == PrevOf(C)
<1>15. S \in SUBSET C /\ n \notin S /\ S \cup {n} = C /\ (B \ L) \ R = S /\ S \in SUBSET C0
  BY <1>8
<1>16. Stored(m2, t, S, pw)
  <2>1. Stored(m2, t, S, pv)
    <3> HIDE DEF S, C0, pv
    <3> QED
      BY <1>14, <1>15, SubsetStored
  <2>2. pw \in [Nat -> {0, 1}]
    BY PrevIs
  <2>3. ASSUME NEW a \in Nat, a = t \/ \E x \in C \ {n} : a = x.lo PROVE pw[a] = pv[a]
    <3> HIDE DEF C
    <3> QED
      BY <1>1, <1>2, <1>8, <2>3, CoalesceBits DEF L, R, h
  <2>4. t \in Nat /\ \A x \in S : x.lo \in Nat
    BY <1>4, ApartFacts
  <2>5. pw[t] = pv[t] /\ \A x \in S : pw[x.lo] = pv[x.lo]
    BY <2>3, <2>4
  <2> HIDE DEF S, pw, pv
  <2> QED
    BY <2>1, <2>2, <2>5, BitsAgree
<1> DEFINE word == PACK(past - first, 0, 1)
<1>17. word = Word(n, pw)
  <2>1. n.lo \in Nat /\ \A z \in C : ~ (z.req = 0 /\ z.hi = n.lo)
    BY <1>1, <1>2, <1>8, SoundFacts, ApartFacts
  <2>2. pw[n.lo] = 1
    <3> HIDE DEF C
    <3> QED
      BY <2>1 DEF PrevOf
  <2> HIDE DEF pw, past, first
  <2> QED
    BY <1>1, <1>12, <2>2 DEF Word, Alloc
<1>18. m3 = Tag(m2, n.lo, word)
  BY <1>12
<1> HIDE DEF m3, word, pw, S, C, first, past, prev_free, next_free
<1>19. Stored(m3, t, S \cup {n}, pw) /\ Keeps(m2, m3, P!Held(C)) /\ SameLinks(m2, m3, t, C)
  BY <1>1, <1>4, <1>8, <1>15, <1>16, <1>17, <1>18, TagStores
<1>20. Lists(m3, S)
  <2>1. Lists(m2, S) /\ Apart(S, t) /\ SameLinks(m2, m3, t, S)
    BY <1>4, <1>14, <1>15, <1>19, ApartSub, SameLinksSub
  <2> QED
    BY <2>1, ListsStay
<1>21. Stored(m4, t, C, pw) /\ Lists(m4, S \cup {n}) /\ Keeps(m3, m4, P!Held(C))
  <2>1. m4 = Link(m3, n.lo)
    BY <1>12
  <2>2. C \in SUBSET C /\ Stored(m3, t, C, pw)
    BY <1>15, <1>19
  <2> HIDE DEF m4
  <2> QED
    BY <1>1, <1>4, <1>8, <1>15, <1>20, <2>1, <2>2, LinkStores
<1> HIDE DEF m4
<1>22. Keeps(m, m4, P!Held(B))
  <2>1. Keeps(m, m1, P!Held(B)) /\ Keeps(m1, m2, P!Held(B))
        /\ Keeps(m2, m3, P!Held(B)) /\ Keeps(m3, m4, P!Held(B))
    BY <1>2, <1>4, <1>13, <1>14, <1>19, <1>21
  <2>2. Keeps(m, m2, P!Held(B))
    BY <2>1, KeepsTwice
  <2>3. Keeps(m, m3, P!Held(B))
    BY <2>1, <2>2, KeepsTwice
  <2> QED
    BY <2>1, <2>3, KeepsTwice
<1>23. Coalesces(m, B, lo, hi, t, m4, n)
  BY <1>1, <1>8, <1>11, <1>12, <1>15, <1>21, <1>22 DEF Coalesces, C, pw
<1> QED
  BY <1>23

-----------------------------------------------------------------------------
\* An initialised heap.
Yes == TRUE
Heap(m, t) == [mem |-> m, brk |-> t, startp |-> "heap", listp |-> Yes]

\* The heap of memory m and break t is that of the blocks B.
Rep(m, t, B) ==
  P!Sound(B, t) /\ t <= MaxHeap /\ Stored(m, t, B, PrevOf(B)) /\ Lists(m, B)

LEMMA HeapMem ==
  ASSUME NEW m, NEW m1, NEW t
  PROVE  [Heap(m, t) EXCEPT !.mem = m1] = Heap(m1, t)
BY DEF Heap

LEMMA HeapBrk ==
  ASSUME NEW m, NEW t, NEW u
  PROVE  [Heap(m, t) EXCEPT !.brk = u] = Heap(m, u)
BY DEF Heap

LEMMA HeapFields ==
  ASSUME NEW m, NEW t
  PROVE  /\ Heap(m, t).mem = m /\ Heap(m, t).brk = t
BY DEF Heap

\* The bits when block x has become free.
LEMMA FreedBits ==
  ASSUME NEW B, NEW x \in B, x.req # 0, x.hi \in Nat
  PROVE  PrevOf((B \ {x}) \cup {Free1(x.lo, x.hi)}) = [PrevOf(B) EXCEPT ![x.hi] = 0]
<1> DEFINE f  == Free1(x.lo, x.hi)
           C  == (B \ {x}) \cup {f}
           pw == [PrevOf(B) EXCEPT ![x.hi] = 0]
<1>1. f.hi = x.hi /\ f.req = 0
  BY DEF Free1
<1> HIDE DEF f
<1>2. PrevOf(B) \in [Nat -> {0, 1}] /\ PrevOf(C) \in [Nat -> {0, 1}]
  BY PrevIs
<1>3. ASSUME NEW a \in Nat PROVE PrevOf(C)[a] = pw[a]
  <2>1. CASE a = x.hi
    <3>1. f \in C
      OBVIOUS
    <3>2. \E y \in C : y.req = 0 /\ y.hi = a
      BY <1>1, <2>1, <3>1
    <3>3. PrevOf(C)[a] = 0
      BY <3>2 DEF PrevOf
    <3>4. pw[a] = 0
      BY <1>2, <2>1
    <3> QED
      BY <3>3, <3>4
  <2>2. CASE a # x.hi
    <3>1. (\E y \in C : y.req = 0 /\ y.hi = a) <=> (\E y \in B : y.req = 0 /\ y.hi = a)
      BY <1>1, <2>2
    <3>2. PrevOf(C)[a] = PrevOf(B)[a]
      BY <3>1 DEF PrevOf
    <3>3. pw[a] = PrevOf(B)[a]
      BY <1>2, <2>2
    <3> QED
      BY <3>2, <3>3
  <2> QED
    BY <2>1, <2>2
<1>4. pw \in [Nat -> {0, 1}]
  BY <1>2
<1> HIDE DEF C, pw
<1>5. PrevOf(C) = pw
  BY <1>2, <1>3, <1>4
<1> QED
  BY <1>5 DEF C, pw, f

\* free gives the block back the way BlockHeap does.
LEMMA FreeStores ==
  ASSUME NEW B, NEW t, NEW m, Rep(m, t, B), NEW x \in B, x.req > 0
  PROVE  \E m1 : /\ free(Heap(m, t), x.lo) = Heap(m1, t)
                 /\ Rep(m1, t, P!Release(B, x))
                 /\ Keeps(m, m1, P!Held(B) \ {x})
                 /\ P!Held(P!Release(B, x)) = P!Held(B) \ {x}
<1> DEFINE S  == B \ {x}
           lo == x.lo
           hi == x.hi
           f  == Free1(lo, hi)
           Cs == S \cup {f}
           pv == PrevOf(B)
           pw == PrevOf(Cs)
           word == PACK(GET_SIZE(m[lo - 4]), 0, GET_PREV_ALLOC(m[lo - 4]))
           m1 == Tag(m, lo, word)
           m2 == SetPrevAlloc(m1, NEXT_BLKP(m1, lo), 0)
           C  == P!Coalesce(S, lo, hi)
<1>1. P!Sound(B, t) /\ t <= MaxHeap /\ Stored(m, t, B, pv) /\ Lists(m, B)
  BY DEF Rep
<1>2. P!Hole(S, lo, hi, t)
  BY <1>1, Assumptions, P!ReleaseOpens
<1>3. Apart(Cs, t) /\ f \notin S /\ P!Held(Cs) = P!Held(S)
  BY <1>2, HoleFilled
<1>4. f.lo = lo /\ f.hi = hi /\ f.req = 0 /\ f \in Cs
  BY DEF Free1
<1>5. Apart(B, t) /\ lo \in Nat /\ hi \in Nat /\ lo + 16 <= hi /\ lo % 8 = 0 /\ hi % 8 = 0
      /\ hi <= t /\ t \in Nat
  BY <1>1, SoundFacts, ApartFacts
<1>6. x.req # 0
  OBVIOUS
<1>7. pv \in [Nat -> {0, 1}]
  BY PrevIs
<1>8. pw = [pv EXCEPT ![hi] = 0]
  BY <1>5, <1>6, FreedBits
<1>9. P!Release(B, x) = C
  BY DEF P!Release
<1>10. P!Held(S) = P!Held(B) \ {x}
  BY DEF P!Held
<1>11. word = Word(f, pv)
  <2>1. m[lo - 4] = Word(x, pv)
    BY <1>1 DEF Stored, Tagged
  <2>2. GET_SIZE(Word(x, pv)) = hi - lo /\ GET_PREV_ALLOC(Word(x, pv)) = pv[lo]
    BY <1>5, <1>7, WordIs
  <2> HIDE DEF f
  <2> QED
    BY <1>4, <2>1, <2>2 DEF Word, Alloc
<1>12. Lists(m, S)
  <2>1. \A y : y.req = 0 => (y \in B <=> y \in S)
    BY <1>6
  <2> HIDE DEF S
  <2> QED
    BY <1>1, <2>1, ListsSame
<1>13. Stored(m, t, S, pv) /\ S \in SUBSET Cs
  BY <1>1, SubsetStored
<1> HIDE DEF word, f, S, pv, pw
<1>14. Stored(m1, t, Cs, pv) /\ Keeps(m, m1, P!Held(Cs)) /\ SameLinks(m, m1, t, Cs)
  <2>1. /\ Stored(Tag(m, f.lo, word), t, S \cup {f}, pv)
        /\ Keeps(m, Tag(m, f.lo, word), P!Held(Cs))
        /\ SameLinks(m, Tag(m, f.lo, word), t, Cs)
    BY <1>3, <1>4, <1>11, <1>13, TagStores
  <2> QED
    BY <1>4, <2>1
<1>15. NEXT_BLKP(m1, lo) = hi
  <2>1. m1[lo - 4] = Word(f, pv)
    BY <1>4, <1>14 DEF Stored, Tagged
  <2>2. GET_SIZE(Word(f, pv)) = hi - lo
    BY <1>4, <1>5, <1>7, WordIs
  <2> HIDE DEF m1, lo, hi
  <2> QED
    BY <1>5, <2>1, <2>2 DEF NEXT_BLKP
<1>16. hi = t \/ \E y \in Cs : y.lo = hi
  BY <1>2, HoleFacts
<1>17. m2 = SetPrevAlloc(m1, hi, 0)
  BY <1>15
<1> HIDE DEF m1, m2, Cs
<1>18. Stored(m2, t, Cs, pw) /\ Keeps(m1, m2, P!Held(Cs)) /\ SameLinks(m1, m2, t, Cs)
  <2>1. /\ Stored(SetPrevAlloc(m1, hi, 0), t, Cs, [pv EXCEPT ![hi] = 0])
        /\ Keeps(m1, SetPrevAlloc(m1, hi, 0), P!Held(Cs))
        /\ SameLinks(m1, SetPrevAlloc(m1, hi, 0), t, Cs)
    <3> HIDE DEF hi
    <3> QED
      BY <1>3, <1>5, <1>14, <1>16, SetPrevAllocStores
  <2> QED
    BY <1>8, <1>17, <2>1
<1>19. Lists(m2, S)
  <2>1. SameLinks(m, m1, t, S) /\ SameLinks(m1, m2, t, S)
    BY <1>13, <1>14, <1>18, SameLinksSub
  <2>2. Apart(S, t)
    BY <1>3, <1>13, ApartSub
  <2>3. Lists(m1, S)
    BY <1>12, <2>1, <2>2, ListsStay
  <2> QED
    BY <2>1, <2>2, <2>3, ListsStay
<1>20. PICK m3, n : Coalesces(m2, S, lo, hi, t, m3, n)
  <2>1. Stored(m2, t, S \cup {Free1(lo, hi)}, PrevOf(S \cup {Free1(lo, hi)}))
    BY <1>18 DEF Cs, f, pw
  <2> HIDE DEF lo, hi
  <2> QED
    BY <1>2, <1>19, <2>1, CoalesceStores
<1>21. /\ coalesce(m2, lo).mem = m3
       /\ Stored(m3, t, C, PrevOf(C)) /\ Lists(m3, C) /\ Keeps(m2, m3, P!Held(S))
  BY <1>20 DEF Coalesces
<1>22. P!Sound(C, t) /\ P!Held(C) = P!Held(S)
  BY <1>2, Assumptions, P!CoalesceIsSound
<1>23. free(Heap(m, t), lo) = Heap(m3, t)
  <2>1. free(Heap(m, t), lo) = [Heap(m, t) EXCEPT !.mem = coalesce(m2, lo).mem]
    BY HeapFields DEF free, m2, m1, word
  <2> QED
    BY <1>21, <2>1, HeapMem
<1>24. Keeps(m, m3, P!Held(S))
  <2>1. Keeps(m, m1, P!Held(S)) /\ Keeps(m1, m2, P!Held(S))
    BY <1>3, <1>14, <1>18
  <2>2. Keeps(m, m2, P!Held(S))
    BY <2>1, KeepsTwice
  <2> QED
    BY <1>21, <2>2, KeepsTwice
<1>25. Rep(m3, t, C)
  BY <1>1, <1>21, <1>22 DEF Rep
<1> QED
  BY <1>9, <1>10, <1>22, <1>23, <1>24, <1>25

-----------------------------------------------------------------------------
\* The memory extend_heap prepares: word in the tags of a new block of more
\* bytes, and the new epilogue after it.
MoreWords(m, t, more) == [a \in WordsBelow(t + more) |-> IF a < t THEN m[a] ELSE Junk]
MoreMemory(m, t, more, word) ==
  [Tag(MoreWords(m, t, more), t, word) EXCEPT ![t + more - 4] = PACK(0, 1, 0)]

\* m1 is m with word at two addresses.
Wrote(m, m1, D, a, b, word) ==
  m1 \in [D -> Nat] /\ \A c \in D : m1[c] = IF c = a \/ c = b THEN word ELSE m[c]

LEMMA TagWrites ==
  ASSUME NEW D, NEW m, m \in [D -> Nat], NEW lo, lo - 4 \in D, NEW word \in Nat,
         NEW b, b = lo + GET_SIZE(word) - 8
  PROVE  Wrote(m, Tag(m, lo, word), D, lo - 4, b, word)
BY TagIs DEF Wrote

LEMMA MoreMemoryIs ==
  ASSUME NEW t \in Nat, t >= HEAP_START, t % 8 = 0, NEW m, Memory(m, t),
         NEW more \in Nat, more >= 16, more % 8 = 0, NEW word \in Nat, GET_SIZE(word) = more
  PROVE  /\ Memory(MoreMemory(m, t, more, word), t + more)
         /\ NEXT_BLKP(Tag(MoreWords(m, t, more), t, word), t) = t + more
         /\ MoreWords(m, t, more)[t - 4] = m[t - 4]
         /\ \A a \in WordsBelow(t + more) :
              MoreMemory(m, t, more, word)[a] =
                IF a = t + more - 4 THEN 1
                ELSE IF a = t - 4 \/ a = t + more - 8 THEN word
                ELSE IF a < t THEN m[a] ELSE Junk
         /\ \A a \in WordsBelow(t) : a \in WordsBelow(t + more) /\ a < t /\ a # t + more - 4
                                     /\ a # t + more - 8
         /\ t - 4 \in WordsBelow(t) /\ t + more - 8 \in WordsBelow(t + more)
         /\ t + more - 4 \in WordsBelow(t + more)
<1> DEFINE u  == t + more
           D  == WordsBelow(u)
           m0 == MoreWords(m, t, more)
           m1 == Tag(m0, t, word)
           m2 == MoreMemory(m, t, more, word)
<1>0. HEAP_START \in Nat /\ HEAP_START >= 24
  BY StartIs
<1>1. u \in Nat /\ u % 8 = 0 /\ u >= t + 16
  OBVIOUS
<1>2. \A a : a \in D <=> a \in Nat /\ a % 4 = 0 /\ a < u
  BY <1>1, WordsBelowIs
<1>3. \A a : a \in WordsBelow(t) <=> a \in Nat /\ a % 4 = 0 /\ a < t
  BY WordsBelowIs
<1>4. t - 4 \in WordsBelow(t) /\ t - 4 \in D /\ u - 8 \in D /\ u - 4 \in D
  <2> HIDE DEF D
  <2>1. t - 4 \in Nat /\ (t - 4) % 4 = 0 /\ t - 4 < t /\ t - 4 < u
    BY <1>0
  <2>2. u - 8 \in Nat /\ (u - 8) % 4 = 0 /\ u - 8 < u /\ u - 4 \in Nat /\ (u - 4) % 4 = 0 /\ u - 4 < u
    BY <1>0
  <2> QED
    BY <1>2, <1>3, <2>1, <2>2
<1>5. \A a \in WordsBelow(t) : a \in D /\ a < t /\ a # u - 4 /\ a # u - 8 /\ a \in Nat
  <2> HIDE DEF D
  <2> QED
    BY <1>1, <1>2, <1>3
<1>6. m \in [WordsBelow(t) -> Nat] /\ Junk \in Nat
  BY WordsAssumption DEF Memory
<1>7. m0 \in [D -> Nat] /\ \A a \in D : m0[a] = IF a < t THEN m[a] ELSE Junk
  <2>1. \A a \in D : a < t => a \in WordsBelow(t)
    <3> HIDE DEF D
    <3> QED
      BY <1>2, <1>3
  <2>2. m0 = [a \in D |-> IF a < t THEN m[a] ELSE Junk]
    BY DEF MoreWords
  <2> HIDE DEF m0, D
  <2> QED
    BY <1>6, <2>1, <2>2
<1>8. m0[t - 4] = m[t - 4]
  BY <1>4, <1>5, <1>7
<1>9. m2 = [m1 EXCEPT ![u - 4] = PACK(0, 1, 0)]
  BY DEF MoreMemory
<1>10. PACK(0, 1, 0) = 1
  BY DEF PACK
<1>11. t + GET_SIZE(word) - 8 = u - 8
  OBVIOUS
<1> HIDE DEF m0, D, m2, u
<1>12. m1 \in [D -> Nat] /\ \A a \in D : m1[a] = IF a = t - 4 \/ a = u - 8 THEN word ELSE m0[a]
  <2>1. Wrote(m0, m1, D, t - 4, u - 8, word)
    BY <1>4, <1>7, <1>11, TagWrites
  <2> QED
    BY <2>1 DEF Wrote
<1>13. NEXT_BLKP(m1, t) = u
  <2>1. m1[t - 4] = word
    BY <1>4, <1>12
  <2> HIDE DEF m1
  <2> QED
    BY <2>1 DEF NEXT_BLKP, u
<1> HIDE DEF m1
<1>14. m2 \in [D -> Nat] /\ \A a \in D : m2[a] = IF a = u - 4 THEN 1 ELSE m1[a]
  BY <1>4, <1>9, <1>10, <1>12
<1>15. \A a \in D : m2[a] = IF a = u - 4 THEN 1 ELSE IF a = t - 4 \/ a = u - 8 THEN word
                            ELSE IF a < t THEN m[a] ELSE Junk
  BY <1>7, <1>12, <1>14
<1> QED
  BY <1>4, <1>5, <1>8, <1>13, <1>14, <1>15 DEF m0, m1, m2, D, u, Memory

LEMMA ExtendSizeIs ==
  ASSUME NEW asize \in Nat, asize % 8 = 0
  PROVE  /\ ExtendSize(asize) \in Nat /\ ExtendSize(asize) >= 16 /\ ExtendSize(asize) % 8 = 0
         /\ ExtendSize(asize) = IF asize > CHUNKSIZE THEN asize ELSE CHUNKSIZE
         /\ ExtendSize(asize) >= asize
<1>1. /\ ExtendSize(asize) \in Nat /\ ExtendSize(asize) >= MINBLOCK /\ ExtendSize(asize) % 8 = 0
      /\ ExtendSize(asize) = IF asize > CHUNKSIZE THEN asize ELSE CHUNKSIZE
  BY ExtendSizeFits
<1>2. ExtendSize(asize) >= asize
  BY <1>1, ChunkAssumption
<1> QED
  BY <1>1, <1>2, StartIs

LEMMA ExtendIs ==
  ASSUME NEW t \in Nat, t >= HEAP_START, t % 8 = 0, NEW m, Memory(m, t),
         NEW asize \in Nat, asize % 8 = 0, NEW p \in {0, 1}, GET_PREV_ALLOC(m[t - 4]) = p
  PROVE  LET more == ExtendSize(asize)
             done == coalesce(MoreMemory(m, t, more, PACK(more, 0, p)), t)
         IN  extend_heap(Heap(m, t), asize) = [heap |-> Heap(done.mem, t + more), bp |-> done.bp]
<1> DEFINE h     == Heap(m, t)
           more  == ExtendSize(asize)
           word  == PACK(more, 0, p)
           m0    == MoreWords(m, t, more)
           m2    == MoreMemory(m, t, more, word)
           grown == mem_sbrk(h, more)
           m1    == Tag(grown.mem, t, PACK(more, 0, GET_PREV_ALLOC(grown.mem[t - 4])))
           m3    == [m1 EXCEPT ![HDRP(NEXT_BLKP(m1, t))] = PACK(0, 1, 0)]
           done  == coalesce(m3, t)
<1>1. more \in Nat /\ more >= 16 /\ more % 8 = 0
  BY ExtendSizeIs
<1>2. h.mem = m /\ h.brk = t
  BY DEF Heap
<1>3. extend_heap(h, asize) = [heap |-> [grown EXCEPT !.mem = done.mem], bp |-> done.bp]
  BY <1>2 DEF extend_heap
<1>4. grown = [h EXCEPT !.mem = m0, !.brk = t + more]
  BY <1>2 DEF mem_sbrk, MoreWords
<1>5. word \in Nat /\ GET_SIZE(word) = more
  BY <1>1, PackIs
<1> HIDE DEF more
<1>6. m0[t - 4] = m[t - 4] /\ NEXT_BLKP(Tag(m0, t, word), t) = t + more
  <2> HIDE DEF word
  <2> QED
    BY <1>1, <1>5, MoreMemoryIs
<1>7. grown = Heap(m0, t + more)
  <2> HIDE DEF m0, grown
  <2> DEFINE u == t + more
  <2>1. grown = [[h EXCEPT !.mem = m0] EXCEPT !.brk = u]
    BY <1>4
  <2>2. [h EXCEPT !.mem = m0] = Heap(m0, t)
    BY HeapMem
  <2> HIDE DEF u, h
  <2>3. [Heap(m0, t) EXCEPT !.brk = u] = Heap(m0, u)
    BY HeapBrk
  <2> QED
    BY <2>1, <2>2, <2>3 DEF u
<1> HIDE DEF m0, grown
<1>8. grown.mem = m0
  BY <1>7, HeapFields
<1>9. m1 = Tag(m0, t, word)
  BY <1>6, <1>8
<1> HIDE DEF m1, word
<1>10. m3 = m2
  <2>0. NEXT_BLKP(m1, t) = t + more
    BY <1>6, <1>9
  <2>1. HDRP(NEXT_BLKP(m1, t)) = t + more - 4
    BY <1>1, <2>0
  <2>2. m3 = [m1 EXCEPT ![t + more - 4] = PACK(0, 1, 0)]
    BY <2>1
  <2> QED
    BY <1>9, <2>2 DEF MoreMemory, m0
<1> HIDE DEF m2, m3
<1>11. [grown EXCEPT !.mem = done.mem] = Heap(done.mem, t + more)
  BY <1>7, HeapMem
<1>12. extend_heap(h, asize) = [heap |-> Heap(done.mem, t + more), bp |-> done.bp]
  BY <1>3, <1>11
<1> QED
  BY <1>10, <1>12 DEF h, more, m2, word

-----------------------------------------------------------------------------
LEMMA RepFacts ==
  ASSUME NEW m, NEW t, NEW B, Rep(m, t, B)
  PROVE  /\ P!Sound(B, t) /\ t <= MaxHeap /\ Stored(m, t, B, PrevOf(B)) /\ Lists(m, B)
         /\ Apart(B, t) /\ t \in Nat /\ t >= HEAP_START /\ t % 8 = 0
BY SoundFacts, ApartFacts DEF Rep

\* The grown memory stores the new block and keeps the lists.
LEMMA GrownStores ==
  ASSUME NEW B, NEW t, NEW m, Rep(m, t, B), NEW more \in Nat, more >= 16, more % 8 = 0,
         NEW f, f = Free1(t, t + more), NEW p, p = PrevOf(B)[t],
         NEW m2, m2 = MoreMemory(m, t, more, PACK(more, 0, p))
  PROVE  /\ Stored(m2, t + more, B \cup {f}, PrevOf(B \cup {f}))
         /\ Lists(m2, B) /\ Keeps(m, m2, P!Held(B))
<1> DEFINE u    == t + more
           C    == B \cup {f}
           pv   == PrevOf(B)
           pw   == PrevOf(C)
           word == PACK(more, 0, p)
<1>1. /\ Stored(m, t, B, pv) /\ Lists(m, B) /\ Apart(B, t)
      /\ t \in Nat /\ t >= HEAP_START /\ t % 8 = 0
  BY RepFacts
<1>2. f.lo = t /\ f.hi = u /\ f.req = 0
  BY DEF Free1
<1>3. pv \in [Nat -> {0, 1}] /\ pw \in [Nat -> {0, 1}]
  BY PrevIs
<1>4. p \in {0, 1} /\ p = pv[t]
  BY <1>1, <1>3
<1>5. word \in Nat /\ GET_SIZE(word) = more
  BY <1>4, PackIs
<1>6. HEAP_START \in Nat /\ HEAP_START >= 24 /\ HEAP_START % 8 = 0
  BY StartIs
<1>7. Memory(m, t)
  BY <1>1 DEF Stored
<1>8. u \in Nat /\ u >= t + 16
  BY <1>1
<1>9. /\ Memory(m2, u)
      /\ \A a \in WordsBelow(u) :
           m2[a] = IF a = u - 4 THEN 1
                   ELSE IF a = t - 4 \/ a = u - 8 THEN word
                   ELSE IF a < t THEN m[a] ELSE Junk
      /\ \A a \in WordsBelow(t) : a \in WordsBelow(u) /\ a < t /\ a # u - 4 /\ a # u - 8
      /\ t - 4 \in WordsBelow(t) /\ u - 8 \in WordsBelow(u) /\ u - 4 \in WordsBelow(u)
  <2> HIDE DEF word
  <2>1. m2 = MoreMemory(m, t, more, word)
    BY DEF word
  <2> QED
    BY <1>1, <1>5, <1>7, <2>1, MoreMemoryIs
<1>10. \A a \in WordsBelow(t) : a # t - 4 => m2[a] = m[a]
  BY <1>9
<1>11. m2[u - 4] = 1 /\ m2[t - 4] = word /\ m2[u - 8] = word
  <2>1. u - 8 # u - 4 /\ t - 4 # u - 4
    BY <1>1, <1>8
  <2>2. u - 8 # u - 4 /\ t - 4 # u - 4 /\ u - 4 \in WordsBelow(u) /\ t - 4 \in WordsBelow(u) /\ u - 8 \in WordsBelow(u)
    BY <1>9, <2>1
  <2> HIDE DEF u, word
  <2> QED
    BY <1>9, <2>2
<1>12. ASSUME NEW a \in Nat, a # u PROVE pw[a] = pv[a]
  <2>1. (\E y \in C : y.req = 0 /\ y.hi = a) <=> (\E y \in B : y.req = 0 /\ y.hi = a)
    BY <1>2, <1>12
  <2> HIDE DEF C
  <2> QED
    BY <2>1 DEF PrevOf
<1>13. pw[u] = 0
  <2>1. \E y \in C : y.req = 0 /\ y.hi = u
    BY <1>2
  <2> HIDE DEF C, u
  <2> QED
    BY <1>8, <2>1 DEF PrevOf
<1>14. \A x \in B : /\ x.lo \in Nat /\ x.hi \in Nat /\ HEAP_START <= x.lo /\ x.lo + 16 <= x.hi
                    /\ x.hi <= t /\ x.lo % 8 = 0 /\ x.hi % 8 = 0
                    /\ x.lo - 4 \in WordsBelow(t) /\ x.hi - 8 \in WordsBelow(t)
  <2>1. \A x \in B : /\ x.lo \in Nat /\ x.hi \in Nat /\ HEAP_START <= x.lo /\ x.lo + 16 <= x.hi
                     /\ x.hi <= t /\ x.lo % 8 = 0 /\ x.hi % 8 = 0
    BY <1>1, ApartFacts
  <2>2. \A x \in B : x.lo - 4 \in WordsBelow(t) /\ x.hi - 8 \in WordsBelow(t)
    BY <1>1, Spots
  <2> QED
    BY <2>1, <2>2
<1> HIDE DEF u, C, pv, pw, word
<1>15. ASSUME NEW x \in B PROVE Tagged(m2, x, pw)
  <2>1. x.lo - 4 # t - 4 /\ x.hi - 8 # t - 4 /\ x.lo # u
    BY <1>1, <1>8, <1>14
  <2>2. m2[x.lo - 4] = m[x.lo - 4] /\ m2[x.hi - 8] = m[x.hi - 8]
    BY <1>10, <1>14, <2>1
  <2>3. pw[x.lo] = pv[x.lo]
    BY <1>12, <1>14, <2>1
  <2>4. Tagged(m, x, pv)
    BY <1>1 DEF Stored
  <2> QED
    BY <2>2, <2>3, <2>4 DEF Tagged, Word
<1>16. Tagged(m2, f, pw)
  <2>1. pw[t] = p
    BY <1>1, <1>4, <1>8, <1>12
  <2>2. u - t = more
    BY <1>1 DEF u
  <2>3. Word(f, pw) = word
    BY <1>2, <2>1, <2>2 DEF Word, Alloc, word
  <2> QED
    BY <1>2, <1>11, <2>3 DEF Tagged
<1>17. m2[HEAP_START - 12] = 11 /\ m2[HEAP_START - 8] = 11
  <2>1. /\ HEAP_START - 12 \in WordsBelow(t) /\ HEAP_START - 8 \in WordsBelow(t)
        /\ HEAP_START - 12 # t - 4 /\ HEAP_START - 8 # t - 4
    BY <1>1, <1>6, WordsBelowIs
  <2> QED
    BY <1>1, <1>10, <2>1 DEF Stored
<1>18. PACK(0, 1, pw[u]) = 1
  BY <1>13 DEF PACK
<1>19. Stored(m2, u, C, pw)
  <2>1. \A x \in C : Tagged(m2, x, pw)
    BY <1>15, <1>16 DEF C
  <2> QED
    BY <1>3, <1>9, <1>11, <1>17, <1>18, <2>1 DEF Stored
<1>20. Lists(m2, B)
  <2>1. \A a \in LinkArea(Frees(B)) \cap WordsBelow(t) : m2[a] = m[a]
    BY <1>1, <1>10, LinksApart
  <2>2. SameLinks(m, m2, t, B)
    BY <2>1 DEF SameLinks
  <2> QED
    BY <1>1, <2>2, ListsStay
<1>21. Keeps(m, m2, P!Held(B))
  <2> SUFFICES ASSUME NEW x \in P!Held(B), NEW a \in Payload(x) PROVE m2[a] = m[a]
    BY DEF Keeps
  <2>1. x \in B
    BY DEF P!Held
  <2>2. a \in Nat /\ a % 4 = 0 /\ a <= x.hi - 8
    BY DEF Payload
  <2>3. a \in WordsBelow(t) /\ a # t - 4
    BY <1>1, <1>14, <2>1, <2>2, WordsBelowIs
  <2> QED
    BY <1>10, <2>3
<1> QED
  BY <1>19, <1>20, <1>21 DEF u, C, pw

\* What extend_heap makes of the heap of the blocks B: memory m1, and the free
\* block n.
Extended(m, t, B, asize, m1, n) ==
  LET more == ExtendSize(asize)
      C    == P!Grown(B, t, more)
  IN  /\ extend_heap(Heap(m, t), asize) = [heap |-> Heap(m1, t + more), bp |-> n.lo]
      /\ n \in P!Fits(C, asize)
      /\ Rep(m1, t + more, C) /\ Keeps(m, m1, P!Held(B)) /\ P!Held(C) = P!Held(B)

LEMMA ExtendStores ==
  ASSUME NEW B, NEW t, NEW m, Rep(m, t, B),
         NEW asize \in Nat, asize % 8 = 0, t + ExtendSize(asize) <= MaxHeap
  PROVE  \E m1, n : Extended(m, t, B, asize, m1, n)
<1> DEFINE more == ExtendSize(asize)
           u    == t + more
           C    == P!Grown(B, t, more)
           f    == Free1(t, u)
           p    == PrevOf(B)[t]
           m2   == MoreMemory(m, t, more, PACK(more, 0, p))
           done == coalesce(m2, t)
<1>1. more \in Nat /\ more >= 16 /\ more % 8 = 0 /\ more >= asize
  BY ExtendSizeIs
<1>2. /\ P!Sound(B, t) /\ Stored(m, t, B, PrevOf(B)) /\ Lists(m, B)
      /\ t \in Nat /\ t >= HEAP_START /\ t % 8 = 0
  BY RepFacts
<1>3. p \in {0, 1} /\ GET_PREV_ALLOC(m[t - 4]) = p
  <2>1. p \in {0, 1}
    BY <1>2, PrevIs
  <2>2. m[t - 4] = PACK(0, 1, p)
    BY <1>2 DEF Stored
  <2> HIDE DEF p
  <2> QED
    BY <2>1, <2>2, PackIs
<1>4. Memory(m, t)
  BY <1>2 DEF Stored
<1>5. extend_heap(Heap(m, t), asize) = [heap |-> Heap(done.mem, u), bp |-> done.bp]
  <2> HIDE DEF p
  <2> QED
    BY <1>2, <1>3, <1>4, ExtendIs
<1> HIDE DEF more
<1>6. Stored(m2, u, B \cup {f}, PrevOf(B \cup {f})) /\ Lists(m2, B) /\ Keeps(m, m2, P!Held(B))
  <2> HIDE DEF f, p, m2
  <2>1. f = Free1(t, t + more) /\ p = PrevOf(B)[t] /\ m2 = MoreMemory(m, t, more, PACK(more, 0, p))
    BY DEF f, p, m2
  <2> QED
    BY <1>1, <2>1, GrownStores
<1>7. P!Hole(B, t, u, u)
  BY <1>1, <1>2, P!GrowthOpens, Assumptions DEF P!MINBLOCK
<1>8. C = P!Coalesce(B, t, u)
  BY <1>1 DEF P!Grown
<1> HIDE DEF m2, C, done
<1>9. PICK m1, n : Coalesces(m2, B, t, u, u, m1, n)
  <2> HIDE DEF u, f
  <2>1. Stored(m2, u, B \cup {Free1(t, u)}, PrevOf(B \cup {Free1(t, u)}))
    BY <1>6 DEF f
  <2> QED
    BY <1>6, <1>7, <2>1, CoalesceStores
<1>10. /\ done = [mem |-> m1, bp |-> n.lo]
       /\ n \in C /\ n.req = 0 /\ n.lo <= t /\ u <= n.hi
       /\ Stored(m1, u, C, PrevOf(C)) /\ Lists(m1, C) /\ Keeps(m2, m1, P!Held(B))
  BY <1>8, <1>9 DEF Coalesces, done
<1>11. P!Sound(C, u) /\ P!Held(C) = P!Held(B)
  BY <1>7, <1>8, P!CoalesceIsSound, Assumptions
<1>12. Rep(m1, u, C)
  BY <1>10, <1>11 DEF Rep, more
<1>13. n \in P!Fits(C, asize)
  <2>1. n.hi \in Nat /\ n.lo \in Nat
    BY <1>10, <1>11, SoundFacts, ApartFacts
  <2>2. n.hi - n.lo >= asize
    BY <1>1, <1>2, <1>10, <2>1
  <2> QED
    BY <1>10, <2>2 DEF P!Fits, P!Length
<1>14. Keeps(m, m1, P!Held(B))
  BY <1>6, <1>10, KeepsTwice
<1>15. extend_heap(Heap(m, t), asize) = [heap |-> Heap(m1, u), bp |-> n.lo]
  BY <1>5, <1>10
<1>16. Extended(m, t, B, asize, m1, n)
  BY <1>11, <1>12, <1>13, <1>14, <1>15 DEF Extended, more, u, C
<1> QED
  BY <1>16

-----------------------------------------------------------------------------
\* The free block b is taken for the block u: a header, and b leaves its list.
LEMMA TakenStores ==
  ASSUME NEW B, NEW t, NEW m, Rep(m, t, B), NEW b \in B, b.req = 0,
         NEW u, u.lo = b.lo, u.req # 0, u.hi \in Nat, b.lo + 16 <= u.hi, u.hi % 8 = 0,
         NEW m1, m1 = [m EXCEPT ![b.lo - 4] = Word(u, PrevOf(B))]
  PROVE  /\ Stored(Unlink(m1, b.lo), t, (B \ {b}) \cup {u}, PrevOf(B))
         /\ Lists(Unlink(m1, b.lo), (B \ {b}) \cup {u})
         /\ Keeps(m, Unlink(m1, b.lo), P!Held(B))
<1> DEFINE S    == B \ {b}
           C    == S \cup {u}
           pv   == PrevOf(B)
           word == Word(u, pv)
           at   == b.lo - 4
           m2   == Unlink(m1, b.lo)
<1>1. Stored(m, t, B, pv) /\ Lists(m, B) /\ Apart(B, t) /\ t \in Nat /\ t % 8 = 0
  BY RepFacts
<1>2. pv \in [Nat -> {0, 1}]
  BY PrevIs
<1>3. b.lo \in Nat /\ b.hi \in Nat /\ b.lo % 8 = 0 /\ b.hi % 8 = 0
  BY <1>1, ApartFacts
<1>4. word \in Nat
  BY <1>2, <1>3, WordIs
<1>5. at \in WordsBelow(t)
  BY <1>1, Spots
<1>6. m \in [WordsBelow(t) -> Nat]
  BY <1>1 DEF Stored, Memory
<1> HIDE DEF word
<1>7. /\ m1 \in [WordsBelow(t) -> Nat] /\ m1[at] = word
      /\ \A a \in WordsBelow(t) : a # at => m1[a] = m[a]
  <2>1. m1 = [m EXCEPT ![at] = word]
    BY DEF word
  <2> HIDE DEF at
  <2> QED
    BY <1>4, <1>5, <1>6, <2>1
<1>8. Retags(m, m1, t, b)
  BY <1>7 DEF Retags
<1>9. S \in SUBSET B /\ b \notin S /\ Stored(m, t, S, pv) /\ P!Held(B) \ {b} = P!Held(B)
  BY <1>1, SubsetStored DEF P!Held
<1> HIDE DEF S, pv
<1>10. Stored(m1, t, S, pv) /\ Keeps(m, m1, P!Held(B)) /\ SameLinks(m, m1, t, B)
  <2>1. Stored(m1, t, S, pv) /\ Keeps(m, m1, P!Held(B) \ {b}) /\ SameLinks(m, m1, t, B)
    <3> HIDE DEF at
    <3> QED
      BY <1>1, <1>8, <1>9, RetagStays
  <2> QED
    BY <1>9, <2>1
<1>11. Lists(m1, B)
  BY <1>1, <1>10, ListsStay
<1>12. /\ Stored(m2, t, S, pv) /\ Lists(m2, B \ {b}) /\ Keeps(m1, m2, P!Held(B))
       /\ Relinks(m1, m2, t, Frees(B))
  <2>1. B \in SUBSET B
    OBVIOUS
  <2> QED
    BY <1>1, <1>9, <1>10, <1>11, <2>1, UnlinkStores
<1>13. m2[at] = word
  <2>1. at \notin LinkArea(Frees(B))
    BY <1>1, LinksApart
  <2> HIDE DEF m2, at
  <2> QED
    BY <1>5, <1>7, <1>12, <2>1 DEF Relinks
<1> HIDE DEF m2
<1>14. Tagged(m2, u, pv)
  BY <1>13 DEF Tagged, word
<1>15. Stored(m2, t, C, pv)
  BY <1>12, <1>14 DEF Stored
<1>16. Lists(m2, C)
  <2>1. \A y : y.req = 0 => (y \in B \ {b} <=> y \in C)
    BY DEF S
  <2> HIDE DEF C
  <2> QED
    BY <1>12, <2>1, ListsSame
<1>17. Keeps(m, m2, P!Held(B))
  BY <1>10, <1>12, KeepsTwice
<1> QED
  BY <1>15, <1>16, <1>17 DEF m2, S, pv

\* The client holds what it held and a block for its request at ptr.
Hands(B, C, size, ptr) ==
  \E u \in C : /\ u.lo = ptr /\ u.req = size /\ u \notin B /\ size + 4 <= u.hi - u.lo
              /\ P!Held(C) = P!Held(B) \cup {u}

\* The words place reads in the header of a free block.
LEMMA HeaderIs ==
  ASSUME NEW B, NEW t, NEW m, Rep(m, t, B), NEW b \in B
  PROVE  /\ GET_SIZE(m[b.lo - 4]) = b.hi - b.lo
         /\ GET_ALLOC(m[b.lo - 4]) = Alloc(b)
         /\ GET_PREV_ALLOC(m[b.lo - 4]) = PrevOf(B)[b.lo]
<1>1. /\ b.lo \in Nat /\ b.hi \in Nat /\ b.lo + 16 <= b.hi /\ b.lo % 8 = 0 /\ b.hi % 8 = 0
  BY RepFacts, ApartFacts
<1>2. m[b.lo - 4] = Word(b, PrevOf(B))
  BY RepFacts DEF Stored, Tagged
<1> QED
  BY <1>1, <1>2, PrevIs, WordIs

\* The remainder of a split ends where the block did.
LEMMA SplitBits ==
  ASSUME NEW B, NEW b \in B, b.req = 0, NEW u, u.req # 0, NEW r, r.req = 0, r.hi = b.hi
  PROVE  PrevOf(((B \ {b}) \cup {u}) \cup {r}) = PrevOf(B)
<1> DEFINE C == ((B \ {b}) \cup {u}) \cup {r}
<1>1. ASSUME NEW a \in Nat
      PROVE  (\E y \in C : y.req = 0 /\ y.hi = a) <=> (\E y \in B : y.req = 0 /\ y.hi = a)
  <2>1. ASSUME NEW y \in C, y.req = 0, y.hi = a PROVE \E z \in B : z.req = 0 /\ z.hi = a
    BY <2>1
  <2>2. ASSUME NEW y \in B, y.req = 0, y.hi = a PROVE \E z \in C : z.req = 0 /\ z.hi = a
    BY <2>2
  <2> QED
    BY <2>1, <2>2
<1> HIDE DEF C
<1>2. PrevOf(C) = PrevOf(B)
  BY <1>1 DEF PrevOf
<1> QED
  BY <1>2 DEF C

\* place, when what it leaves over is a block.
LEMMA SplitStores ==
  ASSUME NEW B, NEW t, NEW m, Rep(m, t, B), NEW asize \in Nat, asize >= 16, asize % 8 = 0,
         NEW size \in Nat, size > 0, asize >= size + 4,
         NEW b \in P!Fits(B, asize), (b.hi - b.lo) - asize >= 16
  PROVE  /\ Rep(place(m, b.lo, asize), t, P!Place(B, b, asize, size))
         /\ Keeps(m, place(m, b.lo, asize), P!Held(B))
         /\ Hands(B, P!Place(B, b, asize, size), size, b.lo)
<1> DEFINE u    == [lo |-> b.lo, hi |-> b.lo + asize, req |-> size]
           lo   == b.lo + asize
           hi   == b.hi
           C1   == (B \ {b}) \cup {u}
           r    == Free1(lo, hi)
           Cs   == C1 \cup {r}
           C    == P!Coalesce(C1, lo, hi)
           pv   == PrevOf(B)
           m1   == [m EXCEPT ![b.lo - 4] = Word(u, pv)]
           m2   == Unlink(m1, b.lo)
           word == PACK((b.hi - b.lo) - asize, 0, 1)
           m3   == Tag(m2, lo, word)
<1>1. /\ P!Sound(B, t) /\ t <= MaxHeap /\ Stored(m, t, B, pv) /\ Lists(m, B) /\ Apart(B, t)
      /\ t \in Nat
  BY RepFacts
<1>2. b \in B /\ b.req = 0
  BY DEF P!Fits
<1>3. /\ b.lo \in Nat /\ b.hi \in Nat /\ b.lo + 16 <= b.hi /\ b.lo % 8 = 0 /\ b.hi % 8 = 0
      /\ lo \in Nat /\ lo + 16 <= hi /\ lo % 8 = 0 /\ hi \in Nat
  BY <1>1, <1>2, ApartFacts
<1>4. P!Place(B, b, asize, size) = C
  BY DEF P!Place, P!Length, P!MINBLOCK
<1>5. P!Hole(C1, lo, hi, t)
  BY <1>1, Assumptions, P!SplitOpens DEF P!Length, P!MINBLOCK, P!HEADER
<1>6. place(m, b.lo, asize) = coalesce(m3, lo).mem
  <2>1. GET_SIZE(m[b.lo - 4]) = b.hi - b.lo /\ GET_PREV_ALLOC(m[b.lo - 4]) = pv[b.lo]
    BY <1>2, HeaderIs
  <2>2. (b.lo + asize) - b.lo = asize
    BY <1>3
  <2>3. PACK(asize, 1, pv[b.lo]) = Word(u, pv)
    BY <2>2 DEF Word, Alloc
  <2> HIDE DEF u, pv
  <2> QED
    BY <2>1, <2>3, StartIs DEF place
<1>7. u.lo = b.lo /\ u.hi = lo /\ u.req = size
  OBVIOUS
<1>8. r.lo = lo /\ r.hi = hi /\ r.req = 0
  BY DEF Free1
<1> HIDE DEF u, r
<1>9. Stored(m2, t, C1, pv) /\ Lists(m2, C1) /\ Keeps(m, m2, P!Held(B))
  <2> HIDE DEF C1, m1, m2, pv
  <2>1. u.hi \in Nat /\ b.lo + 16 <= u.hi /\ u.hi % 8 = 0 /\ u.req # 0
    BY <1>3, <1>7
  <2>2. /\ Stored(Unlink(m1, b.lo), t, (B \ {b}) \cup {u}, PrevOf(B))
        /\ Lists(Unlink(m1, b.lo), (B \ {b}) \cup {u})
        /\ Keeps(m, Unlink(m1, b.lo), P!Held(B))
    <3>1. m1 = [m EXCEPT ![b.lo - 4] = Word(u, PrevOf(B))]
      BY DEF m1, pv
    <3> QED
      BY <1>2, <1>7, <2>1, <3>1, TakenStores
  <2> QED
    BY <2>2 DEF C1, m2, pv
<1>10. Apart(Cs, t) /\ r \notin C1 /\ P!Held(Cs) = P!Held(C1)
  BY <1>5, HoleFilled DEF r
<1>11. PrevOf(Cs) = pv
  <2>1. u.req # 0
    BY <1>7
  <2> QED
    BY <1>2, <1>8, <2>1, SplitBits
<1>12. word = Word(r, pv)
  <2>1. ~ \E y \in B : y.hi = lo
    <3> SUFFICES ASSUME NEW y \in B, y.hi = lo PROVE FALSE
      OBVIOUS
    <3>1. /\ y.lo \in Nat /\ y.hi \in Nat /\ y.lo + 16 <= y.hi
          /\ y = b \/ y.hi <= b.lo \/ b.hi <= y.lo
      BY <1>1, <1>2, ApartFacts
    <3> QED
      BY <1>3, <3>1
  <2>2. pv[lo] = 1
    BY <1>3, <2>1 DEF PrevOf
  <2>3. (b.hi - b.lo) - asize = hi - lo
    BY <1>3
  <2> HIDE DEF pv
  <2> QED
    BY <1>8, <2>2, <2>3 DEF Word, Alloc
<1>13. C1 \in SUBSET Cs /\ r \in Cs
  OBVIOUS
<1> HIDE DEF word, m2, C1, pv
<1>14. Stored(m3, t, Cs, pv) /\ Keeps(m2, m3, P!Held(Cs)) /\ SameLinks(m2, m3, t, Cs)
  <2>1. m3 = Tag(m2, r.lo, word)
    BY <1>8
  <2> HIDE DEF m3
  <2>2. /\ Stored(Tag(m2, r.lo, word), t, C1 \cup {r}, pv)
        /\ Keeps(m2, Tag(m2, r.lo, word), P!Held(Cs))
        /\ SameLinks(m2, Tag(m2, r.lo, word), t, Cs)
    BY <1>8, <1>9, <1>10, <1>12, <1>13, TagStores
  <2> QED
    BY <2>1, <2>2
<1> HIDE DEF m3
<1>15. Lists(m3, C1)
  <2>1. Apart(C1, t) /\ SameLinks(m2, m3, t, C1)
    BY <1>10, <1>13, <1>14, ApartSub, SameLinksSub
  <2> QED
    BY <1>9, <2>1, ListsStay
<1>16. PICK m4, n : Coalesces(m3, C1, lo, hi, t, m4, n)
  <2>1. Stored(m3, t, C1 \cup {Free1(lo, hi)}, PrevOf(C1 \cup {Free1(lo, hi)}))
    BY <1>11, <1>14 DEF r
  <2> HIDE DEF lo, hi
  <2> QED
    BY <1>5, <1>15, <2>1, CoalesceStores
<1>17. /\ coalesce(m3, lo).mem = m4
       /\ Stored(m4, t, C, PrevOf(C)) /\ Lists(m4, C) /\ Keeps(m3, m4, P!Held(C1))
  BY <1>16 DEF Coalesces
<1>18. P!Sound(C, t) /\ P!Held(C) = P!Held(C1)
  BY <1>5, Assumptions, P!CoalesceIsSound
<1>19. P!Held(C1) = P!Held(B) \cup {u}
  BY <1>2, <1>7 DEF P!Held, C1
<1>20. Keeps(m, m4, P!Held(B))
  <2>1. Keeps(m2, m3, P!Held(B)) /\ Keeps(m3, m4, P!Held(B))
    BY <1>10, <1>14, <1>17, <1>19, KeepsSub
  <2>2. Keeps(m, m3, P!Held(B))
    BY <1>9, <2>1, KeepsTwice
  <2> QED
    BY <2>1, <2>2, KeepsTwice
<1>21. Hands(B, C, size, b.lo)
  <2>1. u \in C
    BY <1>18, <1>19 DEF P!Held
  <2>2. u \notin B
    <3> SUFFICES ASSUME u \in B PROVE FALSE
      OBVIOUS
    <3>1. u # b
      BY <1>2, <1>7
    <3>2. u.hi <= b.lo \/ b.hi <= u.lo
      BY <1>1, <1>2, <3>1, ApartFacts
    <3> QED
      BY <1>3, <1>7, <3>2
  <2>3. size + 4 <= u.hi - u.lo
    BY <1>3, <1>7
  <2> HIDE DEF C
  <2> QED
    BY <1>7, <1>18, <1>19, <2>1, <2>2, <2>3 DEF Hands
<1>22. Rep(m4, t, C)
  BY <1>1, <1>17, <1>18 DEF Rep
<1> QED
  BY <1>4, <1>6, <1>17, <1>20, <1>21, <1>22

-----------------------------------------------------------------------------
\* The bits when the free block b has become the block u.
LEMMA TakenBits ==
  ASSUME NEW B, NEW t, Apart(B, t), NEW b \in B, b.req = 0, NEW u, u.req # 0
  PROVE  PrevOf((B \ {b}) \cup {u}) = [PrevOf(B) EXCEPT ![b.hi] = 1]
<1> DEFINE C  == (B \ {b}) \cup {u}
           pw == [PrevOf(B) EXCEPT ![b.hi] = 1]
<1>1. PrevOf(B) \in [Nat -> {0, 1}] /\ PrevOf(C) \in [Nat -> {0, 1}] /\ b.hi \in Nat
  BY PrevIs, ApartFacts
<1>2. ASSUME NEW a \in Nat PROVE PrevOf(C)[a] = pw[a]
  <2>1. CASE a = b.hi
    <3>1. ~ \E y \in C : y.req = 0 /\ y.hi = a
      <4> SUFFICES ASSUME NEW y \in C, y.req = 0, y.hi = a PROVE FALSE
        OBVIOUS
      <4>1. y \in B /\ y # b
        OBVIOUS
      <4>2. /\ y.lo \in Nat /\ y.hi \in Nat /\ y.lo + 16 <= y.hi
            /\ b.lo \in Nat /\ b.hi \in Nat /\ b.lo + 16 <= b.hi
            /\ y.hi <= b.lo \/ b.hi <= y.lo
        BY <4>1, ApartFacts
      <4> QED
        BY <2>1, <4>2
    <3>2. PrevOf(C)[a] = 1
      <4> HIDE DEF C
      <4> QED
        BY <3>1 DEF PrevOf
    <3>3. pw[a] = 1
      BY <1>1, <2>1
    <3> QED
      BY <3>2, <3>3
  <2>2. CASE a # b.hi
    <3>1. (\E y \in C : y.req = 0 /\ y.hi = a) <=> (\E y \in B : y.req = 0 /\ y.hi = a)
      BY <2>2
    <3>2. PrevOf(C)[a] = PrevOf(B)[a]
      <4> HIDE DEF C
      <4> QED
        BY <3>1 DEF PrevOf
    <3>3. pw[a] = PrevOf(B)[a]
      BY <1>1, <2>2
    <3> QED
      BY <3>2, <3>3
  <2> QED
    BY <2>1, <2>2
<1>3. pw \in [Nat -> {0, 1}]
  BY <1>1
<1> HIDE DEF C, pw
<1>4. PrevOf(C) = pw
  BY <1>1, <1>2, <1>3
<1> QED
  BY <1>4 DEF C, pw

\* place, when the block is used whole.
LEMMA WholeStores ==
  ASSUME NEW B, NEW t, NEW m, Rep(m, t, B), NEW asize \in Nat, asize >= 16, asize % 8 = 0,
         NEW size \in Nat, size > 0, asize >= size + 4,
         NEW b \in P!Fits(B, asize), ~ ((b.hi - b.lo) - asize >= 16)
  PROVE  /\ Rep(place(m, b.lo, asize), t, P!Place(B, b, asize, size))
         /\ Keeps(m, place(m, b.lo, asize), P!Held(B))
         /\ Hands(B, P!Place(B, b, asize, size), size, b.lo)
<1> DEFINE u    == [b EXCEPT !.req = size]
           hi   == b.hi
           C    == (B \ {b}) \cup {u}
           pv   == PrevOf(B)
           m1   == [m EXCEPT ![b.lo - 4] = Word(u, pv)]
           m2   == Unlink(m1, b.lo)
           m3   == SetPrevAlloc(m2, hi, 1)
<1>1. /\ P!Sound(B, t) /\ t <= MaxHeap /\ Stored(m, t, B, pv) /\ Lists(m, B) /\ Apart(B, t)
      /\ t \in Nat
  BY RepFacts
<1>2. b \in B /\ b.req = 0 /\ b.hi - b.lo >= asize
  BY DEF P!Fits, P!Length
<1>3. /\ b.lo \in Nat /\ b.hi \in Nat /\ b.lo + 16 <= b.hi /\ b.lo % 8 = 0 /\ b.hi % 8 = 0
      /\ hi \in Nat /\ b \in P!Block
  BY <1>1, <1>2, ApartFacts
<1>4. P!Place(B, b, asize, size) = C
  BY DEF P!Place, P!Length, P!MINBLOCK
<1>5. u.lo = b.lo /\ u.hi = b.hi /\ u.req = size
  BY <1>3 DEF P!Block
<1> HIDE DEF u
<1>6. place(m, b.lo, asize) = m3
  <2>1. GET_SIZE(m[b.lo - 4]) = b.hi - b.lo /\ GET_PREV_ALLOC(m[b.lo - 4]) = pv[b.lo]
    BY <1>2, HeaderIs
  <2>2. PACK(b.hi - b.lo, 1, pv[b.lo]) = Word(u, pv)
    BY <1>5 DEF Word, Alloc
  <2>3. b.lo + (b.hi - b.lo) = hi
    BY <1>3
  <2> HIDE DEF pv
  <2> QED
    BY <2>1, <2>2, <2>3, StartIs DEF place
<1>7. Stored(m2, t, C, pv) /\ Lists(m2, C) /\ Keeps(m, m2, P!Held(B))
  <2> HIDE DEF C, m1, m2, pv
  <2>1. u.hi \in Nat /\ b.lo + 16 <= u.hi /\ u.hi % 8 = 0 /\ u.req # 0
    BY <1>3, <1>5
  <2>2. /\ Stored(Unlink(m1, b.lo), t, (B \ {b}) \cup {u}, PrevOf(B))
        /\ Lists(Unlink(m1, b.lo), (B \ {b}) \cup {u})
        /\ Keeps(m, Unlink(m1, b.lo), P!Held(B))
    <3>1. m1 = [m EXCEPT ![b.lo - 4] = Word(u, PrevOf(B))]
      BY DEF m1, pv
    <3> QED
      BY <1>2, <1>5, <2>1, <3>1, TakenStores
  <2> QED
    BY <2>2 DEF C, m2, pv
<1> DEFINE pw == PrevOf(C)
<1>8. pw = [pv EXCEPT ![hi] = 1]
  <2>1. u.req # 0
    BY <1>5
  <2> QED
    BY <1>1, <1>2, <2>1, TakenBits
<1>9. P!Sound(C, t)
  <2>1. P!Sound(P!Place(B, b, asize, size), t)
    BY <1>1, Assumptions, P!PlaceIsSound DEF P!MINBLOCK, P!HEADER
  <2> QED
    BY <1>4, <2>1
<1>10. Apart(C, t) /\ (hi = t \/ \E y \in C : y.lo = hi)
  <2>1. b.hi = t \/ \E y \in B : y.lo = b.hi
    BY <1>1, <1>2, SoundFacts
  <2>2. \A y \in B : y.lo = b.hi => y \in C
    BY <1>3
  <2> QED
    BY <1>9, <2>1, <2>2, SoundFacts
<1>13. P!Held(C) = P!Held(B) \cup {u}
  BY <1>2, <1>5 DEF P!Held
<1>14. u \in C /\ u \notin B
  <2>1. u \notin B
    <3> SUFFICES ASSUME u \in B PROVE FALSE
      OBVIOUS
    <3>1. u # b
      BY <1>2, <1>5
    <3>2. u.hi <= b.lo \/ b.hi <= u.lo
      BY <1>1, <1>2, <3>1, ApartFacts
    <3> QED
      BY <1>3, <1>5, <3>2
  <2> QED
    BY <2>1
<1> HIDE DEF C, pw, pv, m2, m3
<1>11. Stored(m3, t, C, pw) /\ Keeps(m2, m3, P!Held(C)) /\ SameLinks(m2, m3, t, C)
  <2>1. /\ Stored(SetPrevAlloc(m2, hi, 1), t, C, [pv EXCEPT ![hi] = 1])
        /\ Keeps(m2, SetPrevAlloc(m2, hi, 1), P!Held(C))
        /\ SameLinks(m2, SetPrevAlloc(m2, hi, 1), t, C)
    <3> HIDE DEF hi
    <3> QED
      BY <1>3, <1>7, <1>10, SetPrevAllocStores
  <2> QED
    BY <1>8, <2>1 DEF m3
<1>12. Lists(m3, C)
  BY <1>7, <1>10, <1>11, ListsStay
<1>15. Keeps(m, m3, P!Held(B))
  <2>1. Keeps(m2, m3, P!Held(B))
    BY <1>11, <1>13, KeepsSub
  <2> QED
    BY <1>7, <2>1, KeepsTwice
<1>16. Hands(B, C, size, b.lo)
  <2>1. size + 4 <= u.hi - u.lo
    BY <1>2, <1>3, <1>5
  <2> QED
    BY <1>5, <1>13, <1>14, <2>1 DEF Hands
<1>17. Rep(m3, t, C)
  BY <1>1, <1>9, <1>11, <1>12 DEF Rep, pw
<1> QED
  BY <1>4, <1>6, <1>15, <1>16, <1>17

\* A free block that fits, placed.
LEMMA PlaceStores ==
  ASSUME NEW B, NEW t, NEW m, Rep(m, t, B), NEW size \in Nat, size > 0, size + 12 < SIZE_MOD,
         NEW b \in P!Fits(B, AdjustedSize(size))
  PROVE  /\ Rep(place(m, b.lo, AdjustedSize(size)), t, P!Place(B, b, AdjustedSize(size), size))
         /\ Keeps(m, place(m, b.lo, AdjustedSize(size)), P!Held(B))
         /\ Hands(B, P!Place(B, b, AdjustedSize(size), size), size, b.lo)
<1> DEFINE asize == AdjustedSize(size)
<1>1. asize \in Nat /\ asize >= 16 /\ asize % 8 = 0 /\ asize >= size + 4
  BY AdjustedSizeFits, StartIs
<1>2. b \in P!Fits(B, asize)
  OBVIOUS
<1> HIDE DEF asize
<1>3. /\ Rep(place(m, b.lo, asize), t, P!Place(B, b, asize, size))
      /\ Keeps(m, place(m, b.lo, asize), P!Held(B))
      /\ Hands(B, P!Place(B, b, asize, size), size, b.lo)
  <2>1. CASE (b.hi - b.lo) - asize >= 16
    BY <1>1, <1>2, <2>1, SplitStores
  <2>2. CASE ~ ((b.hi - b.lo) - asize >= 16)
    BY <1>1, <1>2, <2>2, WholeStores
  <2> QED
    BY <2>1, <2>2
<1> QED
  BY <1>3 DEF asize

-----------------------------------------------------------------------------
\* One round of a loop over a list.
Onwards(m, asize, bp) == IF bp = 0 \/ GET_SIZE(m[bp - 4]) >= asize THEN bp ELSE m[bp]

\* The loop, round by round.
LEMMA SearchIs ==
  ASSUME NEW m, NEW root, NEW asize
  PROVE  /\ DOMAIN Search(m, root, asize) = 0 .. MaxHeap \div 16
         /\ Search(m, root, asize)[0] = m[root]
         /\ \A n \in 1 .. MaxHeap \div 16 :
              Search(m, root, asize)[n] = Onwards(m, asize, Search(m, root, asize)[n - 1])
<1> DEFINE K == MaxHeap \div 16
           Recurs(g, k) ==
             g = [n \in 0 .. k |-> IF n = 0 THEN m[root] ELSE Onwards(m, asize, g[n - 1])]
           f == CHOOSE g : Recurs(g, K)
           S == {k \in Nat : \E g : Recurs(g, k)}
<1>0. K \in Nat
  BY WordsAssumption
<1>1. Search(m, root, asize) = f
  BY StartIs DEF Search, Onwards
<1> HIDE DEF K, f, Recurs
<1>2. 0 \in S
  <2> DEFINE g == [n \in 0 .. 0 |-> m[root]]
  <2>1. g = [n \in 0 .. 0 |-> IF n = 0 THEN m[root] ELSE Onwards(m, asize, g[n - 1])]
    OBVIOUS
  <2> HIDE DEF g
  <2>2. Recurs(g, 0)
    BY <2>1 DEF Recurs
  <2> QED
    BY <2>2
<1>3. \A k \in Nat : k \in S => k + 1 \in S
  <2> SUFFICES ASSUME NEW k \in Nat, k \in S PROVE \E h : Recurs(h, k + 1)
    OBVIOUS
  <2>0. PICK g : Recurs(g, k)
    OBVIOUS
  <2> DEFINE h == [n \in 0 .. k + 1 |-> IF n <= k THEN g[n] ELSE Onwards(m, asize, g[k])]
  <2>1. \A n \in 0 .. k : g[n] = IF n = 0 THEN m[root] ELSE Onwards(m, asize, g[n - 1])
    BY <2>0 DEF Recurs
  <2>2. \A n \in 0 .. k + 1 : h[n] = IF n = 0 THEN m[root] ELSE Onwards(m, asize, h[n - 1])
    <3> SUFFICES ASSUME NEW n \in 0 .. k + 1
                 PROVE  h[n] = IF n = 0 THEN m[root] ELSE Onwards(m, asize, h[n - 1])
      OBVIOUS
    <3>1. CASE n = 0
      BY <2>1, <3>1
    <3>2. CASE n \in 1 .. k
      <4>1. n \in 0 .. k + 1 /\ n - 1 \in 0 .. k + 1 /\ n <= k /\ n - 1 <= k
        BY <3>2
      <4>2. h[n] = g[n] /\ h[n - 1] = g[n - 1]
        BY <4>1
      <4>3. n \in 0 .. k /\ n # 0
        BY <3>2
      <4> HIDE DEF h
      <4> QED
        BY <2>1, <4>2, <4>3
    <3>3. CASE n = k + 1
      <4>1. h[n] = Onwards(m, asize, g[k]) /\ h[n - 1] = g[k]
        BY <3>3
      <4> QED
        BY <3>3, <4>1
    <3> QED
      BY <3>1, <3>2, <3>3
  <2>3. h = [n \in 0 .. k + 1 |-> h[n]]
    OBVIOUS
  <2> HIDE DEF h
  <2>4. Recurs(h, k + 1)
    BY <2>2, <2>3 DEF Recurs
  <2> QED
    BY <2>4
<1>4. \E g : Recurs(g, K)
  <2>1. Nat \subseteq S
    <3> HIDE DEF S
    <3> QED
      BY <1>2, <1>3, Inductive
  <2> QED
    BY <1>0, <2>1
<1>5. Recurs(f, K)
  BY <1>4 DEF f
<1>6. DOMAIN f = 0 .. K /\ \A n \in 0 .. K :
        f[n] = IF n = 0 THEN m[root] ELSE Onwards(m, asize, f[n - 1])
  BY <1>5 DEF Recurs
<1>7. f[0] = m[root] /\ \A n \in 1 .. K : f[n] = Onwards(m, asize, f[n - 1])
  BY <1>0, <1>6
<1> QED
  BY <1>1, <1>6, <1>7 DEF K

\* A loop that leaves from first, goes on from a to m[a] and stays in stop.
Rounds(at, K, first, stop, m) ==
  /\ at[0] = first
  /\ \A n \in 1 .. K : at[n] = IF at[n - 1] \in stop THEN at[n - 1] ELSE m[at[n - 1]]

\* Room for no more than K nodes below the limit.
Spaced(N, K) ==
  /\ \A a \in N : a \in Nat /\ a \div 16 \in 1 .. K - 1
  /\ \A a, b \in N : a \div 16 = b \div 16 => a = b

\* The loop stays on its list, and ends within as many rounds as nodes fit in.
LEMMA LoopEnds ==
  ASSUME NEW N, NEW K \in Nat, Spaced(N, K), NEW m, NEW cls, NEW rk, NEW n, NEW root \in Roots,
         NEW t \in Nat, t % 8 = 0, t >= HEAP_START, Nodes(N, t), Linked(m, N, cls, rk, n),
         NEW stop, 0 \in stop, NEW at, Rounds(at, K, m[root], stop, m)
  PROVE  /\ at[K] \in stop
         /\ \A k \in 0 .. K : at[k] = 0 \/ (at[k] \in N /\ cls[at[k]] = root)
<1> DEFINE On(a) == a = 0 \/ (a \in N /\ cls[a] = root)
           Seen(V, a) == /\ V \in SUBSET (1 .. K - 1) /\ IsFiniteSet(V)
                         /\ \A v \in V : \E b \in N : v = b \div 16 /\ rk[a] <= rk[b]
           S == {k \in Nat : k <= K => /\ On(at[k])
                                       /\ \/ at[k] \in stop
                                          \/ \E V : Seen(V, at[k]) /\ Cardinality(V) = k + 1}
<1>1. /\ cls \in [Nat -> Nat] /\ rk \in [Nat -> Nat]
      /\ \A r \in Roots : cls[r] = r
      /\ \A a \in N \cup Roots : SuccIn(m, N, cls, rk, a)
  BY DEF Linked
<1>2. \A a \in N : a \in Nat /\ rk[a] \in Nat /\ a # 0 /\ a \notin Roots
  BY <1>1, NodeFacts
<1>3. \A a \in N : a \div 16 \in 1 .. K - 1
  BY DEF Spaced
<1>4. On(at[0])
  <2>1. SuccIn(m, N, cls, rk, root) /\ at[0] = m[root] /\ cls[root] = root
    BY <1>1 DEF Rounds
  <2> QED
    BY <2>1 DEF SuccIn
<1>5. 0 \in S
  <2> DEFINE V == {at[0] \div 16}
  <2>1. CASE at[0] = 0
    BY <1>4, <2>1
  <2>2. CASE at[0] # 0
    <3>1. at[0] \in N
      BY <1>4, <2>2
    <3>2. IsFiniteSet(V) /\ Cardinality(V) = 1
      BY FS_Singleton
    <3>3. rk[at[0]] <= rk[at[0]]
      BY <1>2, <3>1
    <3>4. Seen(V, at[0])
      BY <1>3, <3>1, <3>2, <3>3
    <3>5. Cardinality(V) = 0 + 1
      BY <3>2
    <3> HIDE DEF V, Seen, On
    <3> QED
      BY <1>4, <3>4, <3>5
  <2> QED
    BY <2>1, <2>2
<1>6. \A k \in Nat : k \in S => k + 1 \in S
  <2> SUFFICES ASSUME NEW k \in Nat, k \in S, k + 1 <= K
               PROVE  /\ On(at[k + 1])
                      /\ \/ at[k + 1] \in stop
                         \/ \E V : Seen(V, at[k + 1]) /\ Cardinality(V) = (k + 1) + 1
    OBVIOUS
  <2>1. /\ On(at[k])
        /\ at[k] \in stop \/ \E V : Seen(V, at[k]) /\ Cardinality(V) = k + 1
    OBVIOUS
  <2>2. at[k + 1] = IF at[k] \in stop THEN at[k] ELSE m[at[k]]
    <3>1. k + 1 \in 1 .. K /\ (k + 1) - 1 = k
      OBVIOUS
    <3>2. \A j \in 1 .. K : j - 1 = k => at[j] = IF at[k] \in stop THEN at[k] ELSE m[at[k]]
      BY DEF Rounds
    <3> HIDE DEF S
    <3> QED
      BY <3>1, <3>2
  <2> HIDE DEF Seen, S
  <2>3. CASE at[k] \in stop
    BY <2>1, <2>2, <2>3
  <2>4. CASE at[k] \notin stop
    <3> DEFINE a == at[k]
               b == at[k + 1]
    <3>1. a \in N /\ cls[a] = root /\ b = m[a]
      BY <2>1, <2>2, <2>4
    <3>2. SuccIn(m, N, cls, rk, a)
      BY <1>1, <3>1
    <3>3. b = 0 \/ (b \in N /\ cls[b] = root /\ rk[b] < rk[a])
      BY <1>2, <3>1, <3>2 DEF SuccIn
    <3>4. CASE b = 0
      BY <3>4
    <3>5. CASE b # 0
      <4>1. PICK V : Seen(V, a) /\ Cardinality(V) = k + 1
        BY <2>1, <2>4
      <4> DEFINE v == b \div 16
                 W == V \cup {v}
      <4>2. b \in N /\ rk[b] \in Nat /\ rk[a] \in Nat /\ rk[b] < rk[a] /\ v \in 1 .. K - 1
        BY <1>2, <1>3, <3>1, <3>3, <3>5
      <4>3. v \notin V
        <5> SUFFICES ASSUME v \in V PROVE FALSE
          OBVIOUS
        <5>1. PICK c \in N : v = c \div 16 /\ rk[a] <= rk[c]
          BY <4>1 DEF Seen
        <5>2. c = b
          BY <4>2, <5>1 DEF Spaced
        <5> HIDE DEF a, b
        <5> QED
          BY <4>2, <5>1, <5>2
      <4>4. IsFiniteSet(V)
        BY <4>1 DEF Seen
      <4>5. IsFiniteSet(W) /\ Cardinality(W) = (k + 1) + 1
        <5> HIDE DEF v
        <5> QED
          BY <4>1, <4>3, <4>4, FS_AddElement
      <4>6. \A w \in W : \E c \in N : w = c \div 16 /\ rk[b] <= rk[c]
        <5>1. ASSUME NEW w \in V PROVE \E c \in N : w = c \div 16 /\ rk[b] <= rk[c]
          <6>1. PICK c \in N : w = c \div 16 /\ rk[a] <= rk[c]
            BY <4>1 DEF Seen
          <6>2. rk[c] \in Nat
            BY <1>2
          <6> HIDE DEF a, b
          <6> QED
            BY <4>2, <6>1, <6>2
        <5>2. rk[b] <= rk[b]
          BY <4>2
        <5> QED
          BY <4>2, <5>1, <5>2
      <4>7. W \in SUBSET (1 .. K - 1)
        BY <4>1, <4>2 DEF Seen
      <4>8. Seen(W, b)
        BY <4>5, <4>6, <4>7 DEF Seen
      <4> HIDE DEF W
      <4> QED
        BY <3>3, <4>5, <4>8
    <3> QED
      BY <3>4, <3>5
  <2> QED
    BY <2>3, <2>4
<1>7. \A k \in 0 .. K : k \in S
  <2>1. Nat \subseteq S
    <3> HIDE DEF S
    <3> QED
      BY <1>5, <1>6, Inductive
  <2> HIDE DEF S
  <2> QED
    BY <2>1
<1>8. \A k \in 0 .. K : On(at[k])
  BY <1>7
<1>9. at[K] \in stop
  <2> SUFFICES ASSUME at[K] \notin stop PROVE FALSE
    OBVIOUS
  <2>1. K \in 0 .. K /\ K <= K
    OBVIOUS
  <2>2. K \in S
    BY <1>7, <2>1
  <2>3. PICK V : Seen(V, at[K]) /\ Cardinality(V) = K + 1
    BY <2>1, <2>2
  <2>4. V \subseteq 1 .. K - 1
    BY <2>3
  <2>5. /\ IsFiniteSet(1 .. K - 1)
        /\ Cardinality(1 .. K - 1) = IF 1 <= K - 1 THEN (K - 1) - 1 + 1 ELSE 0
    BY FS_Interval, SMTT(30)
  <2>6. Cardinality(V) <= Cardinality(1 .. K - 1)
    BY <2>4, <2>5, FS_Subset
  <2> HIDE DEF Seen
  <2> QED
    BY <2>3, <2>5, <2>6
<1> QED
  BY <1>8, <1>9

-----------------------------------------------------------------------------
\* A loop that has stopped stays where it is.
LEMMA LoopStays ==
  ASSUME NEW K \in Nat, NEW m, NEW first, NEW stop, NEW at, Rounds(at, K, first, stop, m),
         NEW k \in 0 .. K, at[k] \in stop
  PROVE  at[K] = at[k]
<1> DEFINE S == {j \in Nat : k + j <= K => at[k + j] = at[k]}
<1>1. 0 \in S
  OBVIOUS
<1>2. \A j \in Nat : j \in S => j + 1 \in S
  <2> SUFFICES ASSUME NEW j \in Nat, j \in S, k + (j + 1) <= K PROVE at[k + (j + 1)] = at[k]
    OBVIOUS
  <2>1. at[k + j] = at[k]
    OBVIOUS
  <2>2. k + (j + 1) \in 1 .. K /\ (k + (j + 1)) - 1 = k + j
    OBVIOUS
  <2>3. \A n \in 1 .. K : n - 1 = k + j => at[n] = IF at[k + j] \in stop THEN at[k + j] ELSE m[at[k + j]]
    BY DEF Rounds
  <2>4. at[k + (j + 1)] = IF at[k + j] \in stop THEN at[k + j] ELSE m[at[k + j]]
    BY <2>2, <2>3
  <2> QED
    BY <2>1, <2>4
<1>3. Nat \subseteq S
  <2> HIDE DEF S
  <2> QED
    BY <1>1, <1>2, Inductive
<1>4. K - k \in Nat /\ k + (K - k) = K
  OBVIOUS
<1>5. K - k \in S
  BY <1>3, <1>4
<1> QED
  BY <1>4, <1>5

Meets(at, K, stop, a) == a \notin stop /\ \E k \in 0 .. K : at[k] = a

\* A loop that reaches the end of its list has met every node of it.
LEMMA LoopMeetsAll ==
  ASSUME NEW N, NEW K \in Nat, NEW m, NEW cls, NEW rk, NEW n, NEW root \in Roots,
         NEW t \in Nat, t % 8 = 0, t >= HEAP_START, Nodes(N, t), Linked(m, N, cls, rk, n),
         NEW stop, NEW at, Rounds(at, K, m[root], stop, m), at[K] = 0,
         NEW a \in N, cls[a] = root
  PROVE  Meets(at, K, stop, a)
<1> DEFINE Met(b) == \E k \in 0 .. K : at[k] = b
           T == {n - rk[b] : b \in {c \in N : cls[c] = root /\ ~ Met(c)}}
<1>1. /\ cls \in [Nat -> Nat] /\ rk \in [Nat -> Nat] /\ n \in Nat
      /\ \A r \in Roots : cls[r] = r
      /\ \A b \in N : rk[b] < n
      /\ \A b \in N \cup Roots : SuccIn(m, N, cls, rk, b)
      /\ \A b \in N : PredIn(m, N, cls, b)
  BY DEF Linked
<1>2. \A b \in N : b \in Nat /\ rk[b] \in Nat /\ b # 0 /\ b \notin Roots
  BY <1>1, NodeFacts
<1>3. Met(a)
  <2> SUFFICES ASSUME ~ Met(a) PROVE FALSE
    OBVIOUS
  <2> HIDE DEF Met
  <2>1. T \in SUBSET Nat
    <3> SUFFICES ASSUME NEW b \in N PROVE n - rk[b] \in Nat
      OBVIOUS
    <3> QED
      BY <1>1, <1>2
  <2>2. T # {}
    OBVIOUS
  <2>3. Min(T) \in T /\ \A y \in T : Min(T) <= y
    BY <2>1, <2>2, LeastNumber
  <2>4. PICK b \in N : cls[b] = root /\ ~ Met(b) /\ Min(T) = n - rk[b]
    BY <2>3
  <2>5. \A c \in N : cls[c] = root /\ ~ Met(c) => n - rk[b] <= n - rk[c]
    <3> SUFFICES ASSUME NEW c \in N, cls[c] = root, ~ Met(c) PROVE n - rk[b] <= n - rk[c]
      OBVIOUS
    <3>1. n - rk[c] \in T
      OBVIOUS
    <3> HIDE DEF T
    <3> QED
      BY <2>3, <2>4, <3>1
  <2> HIDE DEF T
  <2>6. PICK q : q = m[b + 4]
    OBVIOUS
  <2>7. q \in N \cup Roots /\ m[q] = b /\ cls[q] = root
    BY <1>1, <2>4, <2>6 DEF PredIn
  <2>8. CASE q \in Roots
    <3>1. q = root
      BY <1>1, <2>7, <2>8
    <3>2. at[0] = b
      BY <2>7, <3>1 DEF Rounds
    <3> QED
      BY <2>4, <3>2 DEF Met
  <2>9. CASE q \notin Roots
    <3>1. q \in N
      BY <2>7, <2>9
    <3>2. rk[b] < rk[q]
      <4>1. SuccIn(m, N, cls, rk, q)
        BY <1>1, <3>1
      <4>2. m[q] # 0
        BY <1>2, <2>4, <2>7
      <4> QED
        BY <2>7, <2>9, <4>1, <4>2 DEF SuccIn
    <3>3. Met(q)
      <4> SUFFICES ASSUME ~ Met(q) PROVE FALSE
        OBVIOUS
      <4>1. n - rk[b] <= n - rk[q]
        BY <2>5, <2>7, <3>1
      <4>2. rk[b] \in Nat /\ rk[q] \in Nat
        BY <1>2, <2>4, <3>1
      <4> QED
        BY <1>1, <3>2, <4>1, <4>2
    <3>4. PICK k \in 0 .. K : at[k] = q
      BY <3>3 DEF Met
    <3>5. q # 0
      BY <1>2, <3>1
    <3>6. q \notin stop
      <4> SUFFICES ASSUME q \in stop PROVE FALSE
        OBVIOUS
      <4>1. at[K] = q
        BY <3>4, LoopStays
      <4> QED
        BY <3>5, <4>1
    <3>7. k + 1 \in 1 .. K /\ (k + 1) - 1 = k
      <4>1. k # K
        BY <3>4, <3>5
      <4> QED
        BY <4>1
    <3>8. at[k + 1] = m[q]
      <4>1. \A j \in 1 .. K : j - 1 = k => at[j] = IF at[k] \in stop THEN at[k] ELSE m[at[k]]
        BY DEF Rounds
      <4> QED
        BY <3>4, <3>6, <3>7, <4>1
    <3>9. k + 1 \in 0 .. K
      BY <3>7
    <3> QED
      BY <2>4, <2>7, <3>8, <3>9 DEF Met
  <2> QED
    BY <2>8, <2>9
<1>4. PICK k \in 0 .. K : at[k] = a
  BY <1>3
<1>5. a \notin stop
  <2> SUFFICES ASSUME a \in stop PROVE FALSE
    OBVIOUS
  <2>1. at[K] = a
    BY <1>4, LoopStays
  <2> QED
    BY <1>2, <2>1
<1> QED
  BY <1>4, <1>5 DEF Meets

\* The free blocks lie far enough apart.
LEMMA FreesSpaced ==
  ASSUME NEW B, NEW t, Apart(B, t), t <= MaxHeap
  PROVE  MaxHeap \div 16 \in Nat /\ Spaced(Frees(B), MaxHeap \div 16)
<1>1. MaxHeap \in Nat /\ t \in Nat /\ HEAP_START >= 24 /\ HEAP_START \in Nat
  BY WordsAssumption, StartIs, ApartFacts
<1>2. \A x \in B : x.lo \in Nat /\ x.hi \in Nat /\ 24 <= x.lo /\ x.lo + 16 <= x.hi /\ x.hi <= MaxHeap
  BY <1>1, ApartFacts
<1>3. ASSUME NEW a \in Frees(B)
      PROVE  a \in Nat /\ a \div 16 \in 1 .. (MaxHeap \div 16) - 1
  <2>1. PICK x \in B : a = x.lo
    BY DEF Frees
  <2>2. a \in Nat /\ 24 <= a /\ a + 16 <= MaxHeap
    BY <1>1, <1>2, <2>1
  <2> QED
    BY <1>1, <2>2
<1>4. ASSUME NEW a \in Frees(B), NEW b \in Frees(B), a \div 16 = b \div 16
      PROVE  a = b
  <2>1. PICK x \in B : a = x.lo
    BY DEF Frees
  <2>2. PICK y \in B : b = y.lo
    BY DEF Frees
  <2>3. a \in Nat /\ b \in Nat
    BY <1>2, <2>1, <2>2
  <2>4. ~ (a + 16 <= b) /\ ~ (b + 16 <= a)
    BY <1>4, <2>3
  <2>5. x.hi <= y.lo => a + 16 <= b
    BY <1>2, <2>1, <2>2
  <2>6. y.hi <= x.lo => b + 16 <= a
    BY <1>2, <2>1, <2>2
  <2>7. x = y \/ x.hi <= y.lo \/ y.hi <= x.lo
    BY ApartFacts
  <2> QED
    BY <2>1, <2>2, <2>4, <2>5, <2>6, <2>7
<1> QED
  BY <1>1, <1>3, <1>4 DEF Spaced

-----------------------------------------------------------------------------
\* The free blocks of B that belong on the list at root.
Class(B, root) == {x \in B : x.req = 0 /\ get_root(x.hi - x.lo) = root}

\* The loop over the list at root, for a block of asize bytes, visits at.
Searches(m, B, root, asize, at) ==
  /\ DOMAIN at = 0 .. MaxHeap \div 16
  /\ \A k \in DOMAIN at : at[k] = 0 \/ \E x \in Class(B, root) : x.lo = at[k]
  /\ at[MaxHeap \div 16] = 0 \/ \E x \in Class(B, root) : /\ x.lo = at[MaxHeap \div 16]
                                                          /\ x.hi - x.lo >= asize
  /\ at[MaxHeap \div 16] = 0 =>
       \A x \in Class(B, root) : ~ (x.hi - x.lo >= asize) /\ \E k \in DOMAIN at : at[k] = x.lo

\* It ends, at the first fit, or having met every block of the list.
LEMMA SearchStores ==
  ASSUME NEW m, NEW t, NEW B, Rep(m, t, B), NEW root \in Roots, NEW asize \in Nat
  PROVE  Searches(m, B, root, asize, Search(m, root, asize))
<1> DEFINE K == MaxHeap \div 16
           N == Frees(B)
           at == Search(m, root, asize)
           Large(a) == GET_SIZE(m[a - 4]) >= asize
           stop == {0} \cup {at[k] : k \in {j \in 0 .. K : Large(at[j])}}
<1>1. Apart(B, t) /\ t \in Nat /\ t >= HEAP_START /\ t % 8 = 0 /\ t <= MaxHeap /\ Lists(m, B)
  BY RepFacts
<1>2. Nodes(N, t) /\ K \in Nat /\ Spaced(N, K)
  BY <1>1, FreesAre, FreesSpaced
<1>3. PICK cls, rk, n : /\ Linked(m, N, cls, rk, n)
                        /\ \A x \in B : x.req = 0 => cls[x.lo] = get_root(x.hi - x.lo)
  BY <1>1 DEF Lists
<1>4. /\ DOMAIN at = 0 .. K /\ at[0] = m[root]
      /\ \A j \in 1 .. K : at[j] = Onwards(m, asize, at[j - 1])
  BY SearchIs
<1> HIDE DEF at
<1>5. \A k \in 0 .. K : at[k] \in stop <=> (at[k] = 0 \/ Large(at[k]))
  OBVIOUS
<1>6. Rounds(at, K, m[root], stop, m)
  <2>1. \A j \in 1 .. K : at[j] = IF at[j - 1] \in stop THEN at[j - 1] ELSE m[at[j - 1]]
    <3> SUFFICES ASSUME NEW j \in 1 .. K
                 PROVE  at[j] = IF at[j - 1] \in stop THEN at[j - 1] ELSE m[at[j - 1]]
      OBVIOUS
    <3>1. j - 1 \in 0 .. K
      BY <1>2
    <3>2. at[j - 1] \in stop <=> (at[j - 1] = 0 \/ Large(at[j - 1]))
      BY <1>5, <3>1
    <3>3. at[j] = Onwards(m, asize, at[j - 1])
      BY <1>4
    <3> HIDE DEF stop
    <3> QED
      BY <3>2, <3>3 DEF Onwards
  <2> QED
    BY <1>4, <2>1 DEF Rounds
<1>7. 0 \in stop
  OBVIOUS
<1> HIDE DEF stop, K, N
<1>8. at[K] \in stop /\ \A k \in 0 .. K : at[k] = 0 \/ (at[k] \in N /\ cls[at[k]] = root)
  BY <1>1, <1>2, <1>3, <1>6, <1>7, LoopEnds
<1>9. \A k \in 0 .. K : at[k] = 0 \/ \E x \in Class(B, root) : x.lo = at[k]
  <2> SUFFICES ASSUME NEW k \in 0 .. K, at[k] # 0 PROVE \E x \in Class(B, root) : x.lo = at[k]
    OBVIOUS
  <2>1. at[k] \in N /\ cls[at[k]] = root
    BY <1>8
  <2>2. PICK x \in B : x.req = 0 /\ x.lo = at[k]
    BY <2>1 DEF N, Frees
  <2>3. get_root(x.hi - x.lo) = root
    BY <1>3, <2>1, <2>2
  <2> QED
    BY <2>2, <2>3 DEF Class
<1>10. K \in 0 .. K
  BY <1>2
<1>11. \A x \in B : Large(x.lo) <=> x.hi - x.lo >= asize
  BY HeaderIs
<1>12. at[K] = 0 \/ \E x \in Class(B, root) : x.lo = at[K] /\ x.hi - x.lo >= asize
  <2> SUFFICES ASSUME at[K] # 0
               PROVE  \E x \in Class(B, root) : x.lo = at[K] /\ x.hi - x.lo >= asize
    OBVIOUS
  <2>1. PICK x \in Class(B, root) : x.lo = at[K]
    BY <1>9, <1>10
  <2>2. Large(at[K])
    BY <1>5, <1>8, <1>10
  <2>3. x.hi - x.lo >= asize
    BY <1>11, <2>1, <2>2 DEF Class
  <2> QED
    BY <2>1, <2>3
<1>13. ASSUME at[K] = 0, NEW x \in Class(B, root)
       PROVE  ~ (x.hi - x.lo >= asize) /\ \E k \in 0 .. K : at[k] = x.lo
  <2>1. x \in B /\ x.req = 0 /\ x.lo \in N /\ cls[x.lo] = root
    BY <1>3, <1>13 DEF Class, Frees, N
  <2>2. x.lo \notin stop /\ \E k \in 0 .. K : at[k] = x.lo
    <3> DEFINE a == x.lo
    <3>1. /\ K \in Nat /\ t \in Nat /\ t % 8 = 0 /\ t >= HEAP_START /\ Nodes(N, t)
          /\ Linked(m, N, cls, rk, n) /\ Rounds(at, K, m[root], stop, m)
          /\ at[K] = 0 /\ a \in N /\ cls[a] = root
      BY <1>1, <1>2, <1>3, <1>6, <1>13, <2>1
    <3> HIDE DEF a
    <3>2. Meets(at, K, stop, a)
      BY <3>1, LoopMeetsAll
    <3> QED
      BY <3>2 DEF a, Meets
  <2>3. ~ Large(x.lo)
    <3>1. PICK k \in 0 .. K : at[k] = x.lo
      BY <2>2
    <3> HIDE DEF Large
    <3> QED
      BY <1>5, <2>2, <3>1
  <2> QED
    BY <1>11, <2>1, <2>2, <2>3
<1>14. DOMAIN at = 0 .. K
  BY <1>4
<1>15. Searches(m, B, root, asize, at)
  <2> HIDE DEF Large
  <2>1. \A k \in DOMAIN at : at[k] = 0 \/ \E x \in Class(B, root) : x.lo = at[k]
    BY <1>9, <1>14
  <2>2. at[K] = 0 => \A x \in Class(B, root) :
                       ~ (x.hi - x.lo >= asize) /\ \E k \in DOMAIN at : at[k] = x.lo
    BY <1>13, <1>14
  <2> QED
    BY <1>12, <1>14, <2>1, <2>2 DEF Searches, K
<1> QED
  BY <1>15 DEF at

\* find_fit finds a fitting block when there is one.
LEMMA FindFit ==
  ASSUME NEW m, NEW t, NEW B, Rep(m, t, B), NEW asize \in Nat, asize >= 16
  PROVE  \/ find_fit(m, asize) = NULL /\ P!Fits(B, asize) = {}
         \/ \E b \in P!Fits(B, asize) : find_fit(m, asize) = b.lo /\ b.lo # NULL
<1> DEFINE K == MaxHeap \div 16
           Found(root) == Search(m, root, asize)[K]
           hits == {root \in Roots : get_root(asize) <= root /\ Found(root) # 0}
<1>1. find_fit(m, asize) = IF hits = {} THEN 0 ELSE Found(Min(hits))
  BY StartIs DEF find_fit
<1>2. \A root \in Roots : Searches(m, B, root, asize, Search(m, root, asize))
  BY SearchStores
<1>3. \A x \in B : x.lo \in Nat /\ x.hi \in Nat /\ x.lo >= 24
  BY RepFacts, ApartFacts, StartIs
<1>4. CASE hits = {}
  <2>1. P!Fits(B, asize) = {}
    <3> SUFFICES ASSUME NEW x \in P!Fits(B, asize) PROVE FALSE
      OBVIOUS
    <3>1. x \in B /\ x.req = 0 /\ x.hi - x.lo >= asize
      BY DEF P!Fits, P!Length
    <3> DEFINE s == x.hi - x.lo
               root == get_root(s)
    <3>2. s \in Nat /\ asize <= s
      BY <1>3, <3>1
    <3> HIDE DEF s
    <3>3. root \in Roots /\ get_root(asize) <= root
      BY <3>2, RootRises
    <3>4. Found(root) = 0
      BY <1>4, <3>3
    <3>5. x \in Class(B, root)
      BY <3>1 DEF Class, s
    <3>6. Searches(m, B, root, asize, Search(m, root, asize))
      BY <1>2, <3>3
    <3>7. ~ (x.hi - x.lo >= asize)
      BY <3>4, <3>5, <3>6 DEF Searches
    <3> QED
      BY <3>1, <3>7
  <2> QED
    BY <1>1, <1>4, <2>1
<1>5. CASE hits # {}
  <2>1. hits \in SUBSET Nat
    BY StartIs
  <2>2. Min(hits) \in hits
    BY <1>5, <2>1, LeastNumber
  <2> DEFINE root == Min(hits)
  <2>3. root \in Roots /\ Found(root) # 0
    BY <2>2
  <2>4. find_fit(m, asize) = Found(root)
    BY <1>1, <1>5
  <2> HIDE DEF root, hits
  <2>5. Searches(m, B, root, asize, Search(m, root, asize))
    BY <1>2, <2>3
  <2>6. PICK x \in Class(B, root) : x.lo = Found(root) /\ x.hi - x.lo >= asize
    BY <2>3, <2>5 DEF Searches
  <2>7. x \in P!Fits(B, asize)
    BY <2>6 DEF P!Fits, P!Length, Class
  <2> HIDE DEF Found
  <2> QED
    BY <2>3, <2>4, <2>6, <2>7
<1> QED
  BY <1>4, <1>5

\* The blocks check_list meets are those of the size class.
LEMMA ChainIs ==
  ASSUME NEW m, NEW t, NEW B, Rep(m, t, B), NEW root \in Roots,
         NEW at, at = Search(m, root, MaxHeap + 1)
  PROVE  {at[n] : n \in DOMAIN at} = {0} \cup {x.lo : x \in Class(B, root)}
<1>1. MaxHeap + 1 \in Nat /\ MaxHeap \in Nat
  BY WordsAssumption
<1>2. Searches(m, B, root, MaxHeap + 1, at)
  BY <1>1, SearchStores
<1>3. \A x \in Class(B, root) : ~ (x.hi - x.lo >= MaxHeap + 1)
  <2>1. \A x \in B : x.lo \in Nat /\ x.hi \in Nat /\ x.hi <= MaxHeap
    BY <1>1, RepFacts, ApartFacts
  <2> QED
    BY <1>1, <2>1 DEF Class
<1>4. at[MaxHeap \div 16] = 0
  BY <1>2, <1>3 DEF Searches
<1>5. MaxHeap \div 16 \in DOMAIN at
  <2>1. MaxHeap \div 16 \in 0 .. MaxHeap \div 16
    BY <1>1
  <2> QED
    BY <1>2, <2>1 DEF Searches
<1>6. \A x \in Class(B, root) : \E k \in DOMAIN at : at[k] = x.lo
  BY <1>2, <1>4 DEF Searches
<1>7. \A k \in DOMAIN at : at[k] = 0 \/ \E x \in Class(B, root) : x.lo = at[k]
  BY <1>2 DEF Searches
<1>8. 0 \in {at[n] : n \in DOMAIN at}
  BY <1>4, <1>5
<1>9. \A x \in Class(B, root) : x.lo \in {at[n] : n \in DOMAIN at}
  BY <1>6
<1> QED
  BY <1>7, <1>8, <1>9

-----------------------------------------------------------------------------
\* A call of malloc served a request for size with the block at ptr.
Served(B, t, B1, t1, size, ptr) ==
  LET asize == AdjustedSize(size)
      more  == P!Growth(B, asize)
  IN  /\ t1 = t + more
      /\ \E b \in P!Fits(P!Grown(B, t, more), asize) :
           B1 = P!Place(P!Grown(B, t, more), b, asize, size)
      /\ Hands(P!Grown(B, t, more), B1, size, ptr)
      /\ P!Held(P!Grown(B, t, more)) = P!Held(B)

\* What a call of malloc may come to: nothing, or a step of BlockHeap.
Outcome(o, m, t, B, size) ==
  \/ o.ptr = NULL /\ o.heap = Heap(m, t) /\ Rep(m, t, B)
  \/ \E m1, t1, B1 :
       /\ o.heap = Heap(m1, t1) /\ Rep(m1, t1, B1)
       /\ Keeps(m, m1, P!Held(B))
       /\ Served(B, t, B1, t1, size, o.ptr)

LEMMA AdjustedSizeIs ==
  ASSUME NEW n \in Nat, n > 0, n + 12 < SIZE_MOD
  PROVE  /\ AdjustedSize(n) \in Nat /\ AdjustedSize(n) >= 16 /\ AdjustedSize(n) % 8 = 0
         /\ AdjustedSize(n) >= n + 4
BY AdjustedSizeFits, StartIs

\* A block of the heap C, which is the heap B or B grown, serves the request.
LEMMA BlockServes ==
  ASSUME NEW B, NEW t, NEW C, NEW t1, NEW m, NEW m1,
         NEW size \in Nat, size > 0, size + 12 < SIZE_MOD, Rep(m1, t1, C),
         Keeps(m, m1, P!Held(B)), P!Held(C) = P!Held(B),
         NEW more, more = P!Growth(B, AdjustedSize(size)),
         t1 = t + more, C = P!Grown(B, t, more),
         NEW b \in P!Fits(C, AdjustedSize(size)),
         NEW o, o.ptr = b.lo,
         o.heap = Heap(place(m1, b.lo, AdjustedSize(size)), t1)
  PROVE  Outcome(o, m, t, B, size)
<1> DEFINE asize == AdjustedSize(size)
           m2 == place(m1, b.lo, asize)
           B1 == P!Place(C, b, asize, size)
<1>1. Rep(m2, t1, B1) /\ Keeps(m1, m2, P!Held(C)) /\ Hands(C, B1, size, b.lo)
  BY PlaceStores
<1>2. Keeps(m, m2, P!Held(B))
  BY <1>1 DEF Keeps
<1>3. \E bb \in P!Fits(C, asize) : B1 = P!Place(C, bb, asize, size)
  OBVIOUS
<1>4. o.heap = Heap(m2, t1)
  OBVIOUS
<1> HIDE DEF m2, B1
<1>5. Served(B, t, B1, t1, size, o.ptr)
  BY <1>1, <1>3 DEF Served
<1> QED
  BY <1>1, <1>2, <1>4, <1>5 DEF Outcome

\* malloc on an initialised heap.
LEMMA AllocateStores ==
  ASSUME NEW B, NEW t, NEW m, Rep(m, t, B),
         NEW size \in Nat, size > 0, size + 12 < SIZE_MOD,
         NEW o \in Allocate(Heap(m, t), size)
  PROVE  Outcome(o, m, t, B, size)
<1> DEFINE asize == AdjustedSize(size)
           h     == Heap(m, t)
           fit   == find_fit(m, asize)
           At(g, bp) == [heap |-> [g EXCEPT !.mem = place(@, bp, asize)], ptr |-> bp]
           e     == extend_heap(h, asize)
<1>1. asize \in Nat /\ asize >= 16 /\ asize % 8 = 0
  BY AdjustedSizeIs
<1>2. h.mem = m /\ h.brk = t
  BY HeapFields
<1>3. o \in IF fit # NULL THEN {At(h, fit)}
            ELSE {[heap |-> h, ptr |-> NULL]} \cup
                 (IF CanGrow(h, ExtendSize(asize)) THEN {At(e.heap, e.bp)} ELSE {})
  BY <1>2 DEF Allocate
<1>4. ASSUME NEW g, NEW mm, NEW tt, NEW bp, g = Heap(mm, tt), o = At(g, bp)
      PROVE  o.ptr = bp /\ o.heap = Heap(place(mm, bp, asize), tt)
  <2>1. g.mem = mm
    BY <1>4, HeapFields
  <2>2. [Heap(mm, tt) EXCEPT !.mem = place(mm, bp, asize)] = Heap(place(mm, bp, asize), tt)
    BY HeapMem
  <2> HIDE DEF asize
  <2>3. o.ptr = bp /\ o.heap = [g EXCEPT !.mem = place(g.mem, bp, asize)]
    BY <1>4
  <2> QED
    BY <1>4, <2>1, <2>2, <2>3
<1> HIDE DEF asize, At
<1>5. \/ fit = NULL /\ P!Fits(B, asize) = {}
      \/ \E b \in P!Fits(B, asize) : fit = b.lo /\ b.lo # NULL
  BY <1>1, FindFit
<1> HIDE DEF fit, h, e
<1>6. CASE fit # NULL
  <2>1. PICK b \in P!Fits(B, asize) : fit = b.lo
    BY <1>5, <1>6
  <2>2. P!Growth(B, asize) = 0 /\ P!Grown(B, t, 0) = B
    BY <2>1 DEF P!Growth, P!Grown
  <2>3. t = t + 0
    <3>1. t \in Nat
      BY RepFacts
    <3> QED
      BY <3>1
  <2>4. h = Heap(m, t) /\ o = At(h, b.lo)
    BY <1>3, <1>6, <2>1 DEF h
  <2>5. o.ptr = b.lo /\ o.heap = Heap(place(m, b.lo, asize), t)
    BY <1>4, <2>4
  <2>6. Keeps(m, m, P!Held(B))
    BY KeepsSelf
  <2> QED
    BY <2>2, <2>3, <2>5, <2>6, BlockServes DEF asize
<1>7. CASE fit = NULL /\ o = [heap |-> h, ptr |-> NULL]
  <2>1. o.ptr = NULL /\ o.heap = Heap(m, t)
    BY <1>7 DEF h
  <2> QED
    BY <2>1 DEF Outcome
<1>8. CASE fit = NULL /\ CanGrow(h, ExtendSize(asize)) /\ o = At(e.heap, e.bp)
  <2> DEFINE more == ExtendSize(asize)
             C    == P!Grown(B, t, more)
  <2>1. t + more <= MaxHeap
    BY <1>2, <1>8 DEF CanGrow
  <2>2. PICK m1, n : Extended(m, t, B, asize, m1, n)
    BY <1>1, <2>1, ExtendStores
  <2>3. /\ e = [heap |-> Heap(m1, t + more), bp |-> n.lo]
        /\ n \in P!Fits(C, asize)
        /\ Rep(m1, t + more, C) /\ Keeps(m, m1, P!Held(B)) /\ P!Held(C) = P!Held(B)
    BY <2>2 DEF Extended, e, h
  <2>4. P!Growth(B, asize) = more
    <3>1. P!Fits(B, asize) = {}
      BY <1>5, <1>8
    <3> QED
      BY <1>1, <3>1, ExtendSizeIs DEF P!Growth
  <2> HIDE DEF more, C
  <2>5. e.heap = Heap(m1, t + more) /\ e.bp = n.lo
    BY <2>3
  <2>6. o.ptr = n.lo /\ o.heap = Heap(place(m1, n.lo, asize), t + more)
    BY <1>4, <1>8, <2>5
  <2> QED
    BY <2>3, <2>4, <2>6, BlockServes DEF asize, C
<1> QED
  BY <1>3, <1>6, <1>7, <1>8

LEMMA AllocateIsPair ==
  ASSUME NEW h, NEW size, NEW o \in Allocate(h, size)
  PROVE  o = [heap |-> o.heap, ptr |-> o.ptr]
<1> DEFINE asize == AdjustedSize(size)
           fit   == find_fit(h.mem, asize)
           At(g, bp) == [heap |-> [g EXCEPT !.mem = place(@, bp, asize)], ptr |-> bp]
           e     == extend_heap(h, asize)
<1>1. \/ o = At(h, fit)
      \/ o = [heap |-> h, ptr |-> NULL]
      \/ o = At(e.heap, e.bp)
  BY DEF Allocate
<1> HIDE DEF asize, fit, e
<1>2. \A g, bp : At(g, bp) = [heap |-> At(g, bp).heap, ptr |-> At(g, bp).ptr]
  OBVIOUS
<1> HIDE DEF At
<1> QED
  BY <1>1, <1>2

\* Sentinel, empty lists, prologue and epilogue are the heap without blocks.
LEMMA EmptyStores ==
  /\ Rep(EmptyMemory, HEAP_START, {})
  /\ P!Held({}) = {} /\ P!Grown({}, HEAP_START, CHUNKSIZE) = P!FirstHeap.blocks
  /\ P!FirstHeap.top = HEAP_START + CHUNKSIZE /\ ExtendSize(CHUNKSIZE) = CHUNKSIZE
<1> DEFINE s == HEAP_START
<1>0. s \in Nat /\ s % 8 = 0 /\ s >= 24
  BY StartIs
<1>1. P!Sound({}, s)
  <2>1. P!EmptyHeap \in {P!EmptyHeap, P!FirstHeap}
    OBVIOUS
  <2>2. P!Sound(P!EmptyHeap.blocks, P!EmptyHeap.top)
    BY <2>1, Assumptions, P!FirstHeapsAreSound
  <2>3. P!EmptyHeap.blocks = {} /\ P!EmptyHeap.top = s
    BY DEF P!EmptyHeap
  <2> QED
    BY <2>2, <2>3
<1>2. s <= MaxHeap
  BY <1>0, WordsAssumption, RoomAssumption, ChunkAssumption, StartIs
<1> HIDE DEF s
<1>3. EmptyMemory = [a \in WordsBelow(s) |-> CASE a < s - 12 -> 0
                                              [] a = s - 4 -> 3 [] OTHER -> 11]
  BY <1>0 DEF EmptyMemory, PACK, s
<1>4. /\ s - 12 \in WordsBelow(s) /\ s - 8 \in WordsBelow(s) /\ s - 4 \in WordsBelow(s)
      /\ \A a \in WordsBelow(s) : a \in Nat
  BY <1>0, WordsBelowIs
<1>5. Memory(EmptyMemory, s) /\ EmptyMemory[s - 12] = 11 /\ EmptyMemory[s - 8] = 11
      /\ EmptyMemory[s - 4] = 3
  BY <1>0, <1>3, <1>4 DEF Memory
<1>6. Stored(EmptyMemory, s, {}, PrevOf({}))
  <2>1. PrevOf({})[s] = 1 /\ PrevOf({}) \in [Nat -> {0, 1}]
    BY <1>0 DEF PrevOf
  <2> QED
    BY <1>5, <2>1 DEF Stored, PACK, s
<1>7. Lists(EmptyMemory, {})
  <2> DEFINE cls == [a \in Nat |-> a]
  <2>1. Frees({}) = {}
    BY DEF Frees
  <2>2. \A r \in Roots : EmptyMemory[r] = 0 /\ r \in Nat
    <3> SUFFICES ASSUME NEW r \in Roots PROVE EmptyMemory[r] = 0 /\ r \in Nat
      OBVIOUS
    <3>1. r \in Nat /\ r % 4 = 0 /\ r <= s - 16
      BY StartIs DEF s
    <3>2. r \in WordsBelow(s) /\ r < s - 12
      BY <1>0, <3>1, WordsBelowIs
    <3> QED
      BY <1>0, <1>3, <3>1, <3>2
  <2>3. Linked(EmptyMemory, {}, cls, cls, 0)
    BY <2>2 DEF Linked, SuccIn
  <2> HIDE DEF cls
  <2> QED
    BY <2>1, <2>3 DEF Lists
<1>8. P!Grown({}, s, CHUNKSIZE) = P!FirstHeap.blocks /\ P!FirstHeap.top = s + CHUNKSIZE
  BY ChunkAssumption DEF P!Grown, P!FirstHeap, s
<1>9. ExtendSize(CHUNKSIZE) = CHUNKSIZE
  BY ChunkAssumption, ExtendSizeIs
<1> QED
  BY <1>1, <1>2, <1>6, <1>7, <1>8, <1>9 DEF Rep, P!Held, s

-----------------------------------------------------------------------------
LEMMA WordAligned ==
  /\ \A n \in Nat : n % 8 = 0 => n % 4 = 0
  /\ \A a, n, hi \in Nat : a % 4 = 0 /\ hi % 8 = 0 /\ a < n /\ n + 4 <= hi => a <= hi - 8
  /\ \A a, p, q \in Nat : a % 4 = 0 /\ p % 4 = 0 /\ q % 4 = 0 /\ p <= a =>
        (a - p) + q \in Nat /\ ((a - p) + q) % 4 = 0
OBVIOUS

\* The words of a region, by address.
LEMMA RegionIs ==
  ASSUME NEW p \in Nat, p % 4 = 0, NEW n \in Nat
  PROVE  /\ \A a : a \in Region(p, n) <=> a \in Nat /\ a % 4 = 0 /\ p <= a /\ a < p + n
         /\ Fields(n) \in Nat /\ \A i \in Nat : i < Fields(n) <=> 4 * i < n
<1>1. Fields(n) \in Nat /\ \A i \in Nat : i < Fields(n) <=> 4 * i < n
  <2>1. Fields(n) = (n + 3) \div 4
    BY DEF Fields
  <2>2. (n + 3) \div 4 \in Nat /\ \A i \in Nat : i < (n + 3) \div 4 <=> 4 * i < n
    OBVIOUS
  <2> QED
    BY <2>1, <2>2
<1>2. ASSUME NEW a \in Region(p, n) PROVE a \in Nat /\ a % 4 = 0 /\ p <= a /\ a < p + n
  <2>1. PICK i \in 0 .. Fields(n) - 1 : a = p + 4 * i
    BY DEF Region
  <2>2. i \in Nat /\ 4 * i < n
    BY <1>1, <2>1
  <2> QED
    BY <2>1, <2>2
<1>3. ASSUME NEW a \in Nat, a % 4 = 0, p <= a, a < p + n PROVE a \in Region(p, n)
  <2>1. PICK i \in Nat : a = p + 4 * i
    <3>1. (a - p) \div 4 \in Nat /\ a = p + 4 * ((a - p) \div 4)
      BY <1>3
    <3> QED
      BY <3>1
  <2>2. i \in 0 .. Fields(n) - 1
    BY <1>1, <1>3, <2>1
  <2> QED
    BY <2>1, <2>2 DEF Region
<1> QED
  BY <1>1, <1>2, <1>3

\* What is known of a block the client holds.
LEMMA HeldFacts ==
  ASSUME NEW B, NEW t, P!Sound(B, t), NEW u \in P!Held(B)
  PROVE  /\ u \in B /\ u.req \in Nat /\ u.req > 0 /\ u.req + 4 <= u.hi - u.lo
         /\ u.lo \in Nat /\ u.hi \in Nat /\ u.lo % 8 = 0 /\ u.lo % 4 = 0 /\ u.hi % 8 = 0
         /\ HEAP_START <= u.lo /\ u.lo + 16 <= u.hi /\ u.hi <= t
<1>1. u \in B /\ u.req > 0
  BY DEF P!Held
<1>2. Apart(B, t) /\ u.req + 4 <= u.hi - u.lo
  BY <1>1, SoundFacts
<1>3. /\ u.lo \in Nat /\ u.hi \in Nat /\ u.req \in Nat /\ u.lo % 8 = 0 /\ u.hi % 8 = 0
      /\ HEAP_START <= u.lo /\ u.lo + 16 <= u.hi /\ u.hi <= t
  BY <1>1, <1>2, ApartFacts
<1>4. u.lo % 4 = 0
  BY <1>3
<1> QED
  BY <1>1, <1>2, <1>3, <1>4

\* What the client asked for lies between the header and the next header.
LEMMA RegionInside ==
  ASSUME NEW B, NEW t, P!Sound(B, t), NEW u \in P!Held(B), NEW n \in Nat, n <= u.req
  PROVE  \A a \in Region(u.lo, n) : a \in Payload(u)
<1>1. /\ u.lo \in Nat /\ u.hi \in Nat /\ u.req \in Nat /\ u.lo % 4 = 0 /\ u.hi % 8 = 0
      /\ u.req + 4 <= u.hi - u.lo
  BY HeldFacts
<1> SUFFICES ASSUME NEW a \in Region(u.lo, n) PROVE a \in Payload(u)
  OBVIOUS
<1>2. a \in Nat /\ a % 4 = 0 /\ u.lo <= a /\ a < u.lo + n
  BY <1>1, RegionIs
<1>3. u.lo + n \in Nat /\ (u.lo + n) + 4 <= u.hi
  BY <1>1
<1>4. a <= u.hi - 8
  BY <1>1, <1>2, <1>3, WordAligned
<1> QED
  BY <1>2, <1>4 DEF Payload

LEMMA PayloadIn ==
  ASSUME NEW B, NEW t, P!Sound(B, t), NEW u \in P!Held(B)
  PROVE  \A a \in Payload(u) : a \in WordsBelow(t) /\ a \in Nat /\ u.lo <= a /\ a <= u.hi - 8
<1>1. u.hi \in Nat /\ u.hi <= t /\ t \in Nat /\ t % 8 = 0
  BY HeldFacts, SoundFacts, ApartFacts
<1>2. \A a \in Payload(u) : a \in Nat /\ a % 4 = 0 /\ u.lo <= a /\ a <= u.hi - 8
  BY DEF Payload
<1>3. \A a \in Payload(u) : a < t
  BY <1>1, <1>2
<1> QED
  BY <1>1, <1>2, <1>3, WordsBelowIs

\* Whoever writes in the payload of one block leaves the heap, and what the
\* other blocks hold, alone.
LEMMA PayloadApart ==
  ASSUME NEW B, NEW t, NEW m, Rep(m, t, B), NEW u \in P!Held(B),
         NEW m1, Memory(m1, t),
         \A a \in WordsBelow(t) : a \notin Payload(u) => m1[a] = m[a]
  PROVE  Rep(m1, t, B) /\ Keeps(m, m1, P!Held(B) \ {u})
<1>1. /\ P!Sound(B, t) /\ t <= MaxHeap /\ Stored(m, t, B, PrevOf(B)) /\ Lists(m, B)
      /\ Apart(B, t) /\ t \in Nat /\ t >= HEAP_START /\ t % 8 = 0
  BY RepFacts
<1>2. /\ u \in B /\ u.req > 0 /\ u.req \in Nat /\ u.lo \in Nat /\ u.hi \in Nat
      /\ HEAP_START <= u.lo /\ u.lo + 16 <= u.hi /\ u.hi <= t
  BY <1>1, HeldFacts
<1>3. \A x \in B : /\ x.lo \in Nat /\ x.hi \in Nat /\ HEAP_START <= x.lo /\ x.lo + 16 <= x.hi
                   /\ x.hi <= t /\ x.lo % 8 = 0 /\ x.hi % 8 = 0
                   /\ x = u \/ x.hi <= u.lo \/ u.hi <= x.lo
  BY <1>1, <1>2, ApartFacts
<1>4. \A a \in Payload(u) : a \in Nat /\ u.lo <= a /\ a <= u.hi - 8
  BY <1>1, PayloadIn
<1>5. HEAP_START \in Nat /\ HEAP_START % 8 = 0 /\ HEAP_START >= 24
  BY StartIs
<1>6. /\ m1[HEAP_START - 12] = m[HEAP_START - 12] /\ m1[HEAP_START - 8] = m[HEAP_START - 8]
      /\ m1[t - 4] = m[t - 4]
  <2> DEFINE s == HEAP_START
  <2>0. s \in Nat /\ s % 8 = 0 /\ s >= 24 /\ s <= t /\ s <= u.lo
    BY <1>1, <1>2, <1>5
  <2> HIDE DEF s
  <2>1. s - 12 \in WordsBelow(t) /\ s - 8 \in WordsBelow(t) /\ t - 4 \in WordsBelow(t)
    BY <1>1, <2>0, WordsBelowIs
  <2>2. s - 12 \notin Payload(u) /\ s - 8 \notin Payload(u) /\ t - 4 \notin Payload(u)
    BY <1>1, <1>2, <1>4, <2>0
  <2> QED
    BY <2>1, <2>2 DEF s
<1>7. ASSUME NEW x \in B PROVE Tagged(m1, x, PrevOf(B))
  <2>1. x.lo - 4 \in WordsBelow(t) /\ x.hi - 8 \in WordsBelow(t)
    BY <1>1, Spots
  <2>2. x.lo - 4 \notin Payload(u)
    BY <1>2, <1>3, <1>4
  <2>3. x.req = 0 => x.hi - 8 \notin Payload(u)
    <3>1. x.req = 0 => x # u
      BY <1>2
    <3>2. x # u => x.hi - 8 \notin Payload(u)
      BY <1>2, <1>3, <1>4
    <3> QED
      BY <3>1, <3>2
  <2>4. Tagged(m, x, PrevOf(B))
    BY <1>1 DEF Stored
  <2> QED
    BY <2>1, <2>2, <2>3, <2>4 DEF Tagged
<1>8. Stored(m1, t, B, PrevOf(B))
  BY <1>1, <1>6, <1>7 DEF Stored
<1>9. SameLinks(m, m1, t, B)
  <2>1. \A a \in LinkArea(Frees(B)) : a \notin Payload(u)
    BY <1>1, LinksApart
  <2> QED
    BY <2>1 DEF SameLinks
<1>10. Lists(m1, B)
  BY <1>1, <1>9, ListsStay
<1>11. Keeps(m, m1, P!Held(B) \ {u})
  <2> SUFFICES ASSUME NEW x \in P!Held(B) \ {u}, NEW a \in Payload(x) PROVE m1[a] = m[a]
    BY DEF Keeps
  <2>1. a \in WordsBelow(t) /\ a \in Nat /\ x.lo <= a /\ a <= x.hi - 8
    BY <1>1, PayloadIn
  <2>2. x \in B /\ x # u
    BY DEF P!Held
  <2>3. a \notin Payload(u)
    BY <1>2, <1>3, <1>4, <2>1, <2>2
  <2> QED
    BY <2>1, <2>3
<1> QED
  BY <1>1, <1>8, <1>10, <1>11 DEF Rep

\* Every word of R holds v.
Filling(m, R, v) == \A a \in R : m[a] = v

\* The client's write, and calloc's.
LEMMA FilledStores ==
  ASSUME NEW B, NEW t, NEW m, Rep(m, t, B), NEW u \in P!Held(B), NEW v \in Nat
  PROVE  /\ Rep(Filled(m, u.lo, u.req, v), t, B)
         /\ Keeps(m, Filled(m, u.lo, u.req, v), P!Held(B) \ {u})
         /\ Filling(Filled(m, u.lo, u.req, v), Region(u.lo, u.req), v)
<1> DEFINE R  == Region(u.lo, u.req)
           m1 == Filled(m, u.lo, u.req, v)
<1>1. P!Sound(B, t) /\ u.req \in Nat /\ Memory(m, t)
  BY RepFacts, HeldFacts DEF Stored
<1>2. \A a \in R : a \in Payload(u)
  BY <1>1, RegionInside
<1>3. \A a \in Payload(u) : a \in WordsBelow(t)
  BY <1>1, PayloadIn
<1> HIDE DEF R
<1>4. m1 = [a \in WordsBelow(t) |-> IF a \in R THEN v ELSE m[a]]
  BY <1>1 DEF Filled, R, Memory
<1> HIDE DEF m1
<1>5. Memory(m1, t)
  BY <1>1, <1>4 DEF Memory
<1>6. \A a \in WordsBelow(t) : a \notin Payload(u) => m1[a] = m[a]
  BY <1>2, <1>4
<1>7. Filling(m1, R, v)
  BY <1>2, <1>3, <1>4 DEF Filling
<1>8. Rep(m1, t, B) /\ Keeps(m, m1, P!Held(B) \ {u})
  BY <1>5, <1>6, PayloadApart
<1> QED
  BY <1>7, <1>8 DEF m1, R

\* The words the regions at q and at p have in common are those of p.
Moved(m1, q, size, m, p, n) ==
  \A i \in Nat : i < Fields(size) /\ i < Fields(n) => m1[q + 4 * i] = m[p + 4 * i]

\* realloc's copy, cut off at the size of the old block.
LEMMA CopiedStores ==
  ASSUME NEW B, NEW t, NEW m, Rep(m, t, B),
         NEW u \in P!Held(B), NEW x \in P!Held(B),
         NEW n, n = IF u.req < x.hi - x.lo THEN u.req ELSE x.hi - x.lo
  PROVE  /\ Rep(Copied(m, u.lo, x.lo, n), t, B)
         /\ Keeps(m, Copied(m, u.lo, x.lo, n), P!Held(B) \ {u})
         /\ Moved(Copied(m, u.lo, x.lo, n), u.lo, u.req, m, x.lo, x.req)
<1> DEFINE R  == Region(u.lo, n)
           m1 == Copied(m, u.lo, x.lo, n)
<1>0. P!Sound(B, t) /\ Memory(m, t) /\ t \in Nat /\ t % 8 = 0
  BY RepFacts DEF Stored
<1>1. /\ u.lo \in Nat /\ u.hi \in Nat /\ u.req \in Nat /\ u.lo % 4 = 0 /\ u.hi <= t
      /\ x.lo \in Nat /\ x.hi \in Nat /\ x.req \in Nat /\ x.lo % 4 = 0 /\ x.hi <= t
      /\ x.lo + 16 <= x.hi /\ x.req + 4 <= x.hi - x.lo
  BY <1>0, HeldFacts
<1>2. n \in Nat /\ n <= u.req /\ n <= x.hi - x.lo
  BY <1>1
<1>3. \A a : a \in R <=> a \in Nat /\ a % 4 = 0 /\ u.lo <= a /\ a < u.lo + n
  BY <1>1, <1>2, RegionIs
<1>4. \A a \in R : a \in Payload(u)
  BY <1>0, <1>2, RegionInside
<1>5. \A a \in Payload(u) : a \in WordsBelow(t)
  BY <1>0, PayloadIn
<1>6. \A a \in R : a - u.lo + x.lo \in WordsBelow(t)
  <2> SUFFICES ASSUME NEW a \in R PROVE a - u.lo + x.lo \in WordsBelow(t)
    OBVIOUS
  <2>1. a \in Nat /\ a % 4 = 0 /\ u.lo <= a /\ a < u.lo + n
    BY <1>3
  <2>3. (a - u.lo) + x.lo \in Nat /\ ((a - u.lo) + x.lo) % 4 = 0
    BY <1>1, <2>1, WordAligned
  <2>4. (a - u.lo) + x.lo < t
    BY <1>0, <1>1, <1>2, <2>1
  <2> QED
    BY <1>0, <2>3, <2>4, WordsBelowIs
<1> HIDE DEF R
<1>7. m1 = [a \in WordsBelow(t) |-> IF a \in R THEN m[a - u.lo + x.lo] ELSE m[a]]
  BY <1>0 DEF Copied, R, Memory
<1> HIDE DEF m1
<1>8. Memory(m1, t)
  BY <1>0, <1>6, <1>7 DEF Memory
<1>9. \A a \in WordsBelow(t) : a \notin Payload(u) => m1[a] = m[a]
  BY <1>4, <1>7
<1>10. Moved(m1, u.lo, u.req, m, x.lo, x.req)
  <2> SUFFICES ASSUME NEW i \in Nat, i < Fields(u.req), i < Fields(x.req)
               PROVE  m1[u.lo + 4 * i] = m[x.lo + 4 * i]
    BY DEF Moved
  <2>1. 4 * i < u.req /\ 4 * i < x.req
    BY <1>1, RegionIs
  <2>3. 4 * i < n
    BY <1>1, <2>1
  <2>4. u.lo + 4 * i \in R
    BY <1>1, <1>2, <1>3, <2>3
  <2>5. (u.lo + 4 * i) - u.lo + x.lo = x.lo + 4 * i
    BY <1>1
  <2> QED
    BY <1>4, <1>5, <1>7, <2>4, <2>5
<1>11. Rep(m1, t, B) /\ Keeps(m, m1, P!Held(B) \ {u})
  BY <1>8, <1>9, PayloadApart
<1> QED
  BY <1>10, <1>11 DEF m1

-----------------------------------------------------------------------------
\* malloc on an initialised heap.
LEMMA MallocIs ==
  ASSUME NEW m, NEW t, NEW size
  PROVE  malloc(Heap(m, t), size) =
           IF size = 0 THEN {[heap |-> Heap(m, t), ptr |-> NULL]}
           ELSE Allocate(Heap(m, t), size)
<1> DEFINE h == Heap(m, t)
<1>1. h.listp /\ h.startp = "heap"
  BY DEF Heap, Yes
<1> HIDE DEF h
<1>2. malloc(h, size) = UNION {IF size = 0 THEN {[heap |-> g, ptr |-> NULL]}
                               ELSE IF g.startp # "heap" THEN {[heap |-> g, ptr |-> CRASH]}
                               ELSE Allocate(g, size) : g \in {h}}
  BY <1>1 DEF malloc
<1> QED
  BY <1>1, <1>2 DEF h

\* What a call of realloc may come to: nothing, or a step of BlockHeap that
\* moves the words of the block x.
Reallocated(o, m, t, B, x, size) ==
  \/ o.ptr = NULL /\ o.heap = Heap(m, t) /\ Rep(m, t, B)
  \/ \E m1, t1, B1 :
       /\ o.heap = Heap(m1, t1) /\ Rep(m1, t1, P!Release(B1, x))
       /\ Keeps(m, m1, P!Held(B) \ {x})
       /\ Moved(m1, o.ptr, size, m, x.lo, x.req)
       /\ Served(B, t, B1, t1, size, o.ptr) /\ P!Sound(B1, t1)
       /\ P!Held(P!Release(B1, x)) = P!Held(B1) \ {x}

LEMMA ServedAdds ==
  ASSUME NEW B, NEW t, NEW B1, NEW t1, NEW size, NEW ptr, Served(B, t, B1, t1, size, ptr),
         P!Sound(B1, t1), size \in Nat, size > 0
  PROVE  /\ ptr \notin {NULL, CRASH}
         /\ \E u \in P!Held(B1) : /\ u.lo = ptr /\ u.req = size /\ u \notin P!Held(B)
                                  /\ P!Held(B1) = P!Held(B) \cup {u}
<1>1. PICK u \in B1 : /\ u.lo = ptr /\ u.req = size /\ u \notin P!Held(B)
                      /\ P!Held(B1) = P!Held(B) \cup {u}
  BY DEF Served, Hands, P!Held
<1>2. u \in P!Held(B1)
  BY <1>1 DEF P!Held
<1>3. u.lo \in Nat /\ u.lo >= HEAP_START /\ HEAP_START \in Nat /\ HEAP_START >= 24
  BY <1>2, HeldFacts, StartIs
<1> HIDE DEF NULL
<1>4. ptr \in Nat /\ ptr > 0
  BY <1>1, <1>3
<1>5. ptr \notin {NULL, CRASH}
  BY <1>4 DEF CRASH, NULL
<1> QED
  BY <1>1, <1>2, <1>5

LEMMA ReallocStores ==
  ASSUME NEW B, NEW t, NEW m, Rep(m, t, B), NEW x \in P!Held(B),
         NEW size \in Nat, size > 0, size + 12 < SIZE_MOD,
         NEW o \in realloc(Heap(m, t), x.lo, size)
  PROVE  Reallocated(o, m, t, B, x, size)
<1> DEFINE h == Heap(m, t)
           n == IF size < x.hi - x.lo THEN size ELSE x.hi - x.lo
           Copy(g, ptr) == [g EXCEPT !.mem = Copied(g.mem, ptr, x.lo, n)]
<1>1. x \in B /\ x.req > 0 /\ P!Sound(B, t)
  BY RepFacts DEF P!Held
<1>2. h.mem = m /\ GET_SIZE(m[x.lo - 4]) = x.hi - x.lo
  <2>1. h.mem = m
    BY DEF Heap
  <2> QED
    BY <1>1, <2>1, HeaderIs
<1>3. malloc(h, size) = Allocate(h, size) /\ o \in realloc(h, x.lo, size)
  BY MallocIs
<1> HIDE DEF h
<1>4. PICK a \in Allocate(h, size) :
        o = IF a.ptr \in {NULL, CRASH} THEN a
            ELSE [heap |-> free(Copy(a.heap, a.ptr), x.lo), ptr |-> a.ptr]
  <2> DEFINE Out(a) ==
               IF a.ptr \in {NULL, CRASH} THEN a
               ELSE LET k == IF size < GET_SIZE(h.mem[x.lo - 4]) THEN size
                             ELSE GET_SIZE(h.mem[x.lo - 4])
                        copied == [a.heap EXCEPT !.mem = Copied(a.heap.mem, a.ptr, x.lo, k)]
                    IN  [heap |-> free(copied, x.lo), ptr |-> a.ptr]
  <2>1. o \in {Out(a) : a \in malloc(h, size)}
    BY <1>3 DEF realloc
  <2>2. PICK a \in Allocate(h, size) : o = Out(a)
    <3> HIDE DEF Out
    <3> QED
      BY <1>3, <2>1
  <2>3. Out(a) = IF a.ptr \in {NULL, CRASH} THEN a
                 ELSE [heap |-> free(Copy(a.heap, a.ptr), x.lo), ptr |-> a.ptr]
    BY <1>2
  <2> QED
    BY <2>2, <2>3
<1>6. Outcome(a, m, t, B, size)
  BY AllocateStores DEF h
<1>7. CASE a.ptr = NULL /\ a.heap = Heap(m, t) /\ Rep(m, t, B)
  BY <1>4, <1>7 DEF Reallocated
<1>8. CASE \E m1, t1, B1 :
             /\ a.heap = Heap(m1, t1) /\ Rep(m1, t1, B1)
             /\ Keeps(m, m1, P!Held(B))
             /\ Served(B, t, B1, t1, size, a.ptr)
  <2>1. PICK m1, t1, B1 :
           /\ a.heap = Heap(m1, t1) /\ Rep(m1, t1, B1)
           /\ Keeps(m, m1, P!Held(B))
           /\ Served(B, t, B1, t1, size, a.ptr)
    BY <1>8
  <2>0. P!Sound(B1, t1)
    BY <2>1, RepFacts
  <2>3. a.ptr \notin {NULL, CRASH}
    BY <2>0, <2>1, ServedAdds
  <2>2. PICK u \in P!Held(B1) : /\ u.lo = a.ptr /\ u.req = size
                                /\ P!Held(B1) = P!Held(B) \cup {u} /\ u \notin P!Held(B)
    BY <2>0, <2>1, ServedAdds
  <2> DEFINE m2 == Copied(m1, u.lo, x.lo, n)
  <2>4. u \in P!Held(B1) /\ x \in P!Held(B1)
    BY <2>2
  <2>5. Rep(m2, t1, B1) /\ Keeps(m1, m2, P!Held(B1) \ {u})
        /\ Moved(m2, u.lo, size, m1, x.lo, x.req)
    <3>1. n = IF u.req < x.hi - x.lo THEN u.req ELSE x.hi - x.lo
      BY <2>2
    <3> HIDE DEF n
    <3> QED
      BY <2>1, <2>2, <2>4, <3>1, CopiedStores
  <2>6. Copy(a.heap, a.ptr) = Heap(m2, t1)
    <3>1. Heap(m1, t1).mem = m1
      BY HeapFields
    <3>2. [Heap(m1, t1) EXCEPT !.mem = m2] = Heap(m2, t1)
      BY HeapMem
    <3> QED
      BY <2>1, <2>2, <3>1, <3>2
  <2> HIDE DEF Copy
  <2>7. o = [heap |-> free(Heap(m2, t1), x.lo), ptr |-> a.ptr]
    BY <1>4, <2>3, <2>6
  <2>8. o.ptr = a.ptr /\ o.heap = free(Heap(m2, t1), x.lo)
    BY <2>7
  <2> HIDE DEF m2
  <2>9. x \in B1 /\ x.req > 0
    BY <2>4 DEF P!Held
  <2>10. PICK m3 :
           /\ o.heap = Heap(m3, t1)
           /\ Rep(m3, t1, P!Release(B1, x))
           /\ Keeps(m2, m3, P!Held(B1) \ {x})
           /\ P!Held(P!Release(B1, x)) = P!Held(B1) \ {x}
    <3>1. \E m3 :
           /\ free(Heap(m2, t1), x.lo) = Heap(m3, t1)
           /\ Rep(m3, t1, P!Release(B1, x))
           /\ Keeps(m2, m3, P!Held(B1) \ {x})
           /\ P!Held(P!Release(B1, x)) = P!Held(B1) \ {x}
      BY <2>5, <2>9, FreeStores
    <3> QED
      BY <2>8, <3>1
  <2>11. Keeps(m, m3, P!Held(B) \ {x})
    <3> SUFFICES ASSUME NEW y \in P!Held(B) \ {x}, NEW b \in Payload(y) PROVE m3[b] = m[b]
      BY DEF Keeps
    <3>1. y \in P!Held(B1) \ {x} /\ y \in P!Held(B1) \ {u}
      BY <2>2
    <3>2. m3[b] = m2[b] /\ m2[b] = m1[b]
      BY <2>5, <2>10, <3>1 DEF Keeps
    <3>3. m1[b] = m[b]
      BY <2>1 DEF Keeps
    <3> QED
      BY <3>2, <3>3
  <2>12. Moved(m3, u.lo, size, m, x.lo, x.req)
    <3> SUFFICES ASSUME NEW i \in Nat, i < Fields(size), i < Fields(x.req)
                 PROVE  m3[u.lo + 4 * i] = m[x.lo + 4 * i]
      BY DEF Moved
    <3>1. m2[u.lo + 4 * i] = m1[x.lo + 4 * i]
      BY <2>5 DEF Moved
    <3>2. \A y \in P!Held(B1) : y.lo \in Nat /\ y.req \in Nat /\ y.lo % 4 = 0 /\ y.req <= y.req
      BY <2>0, HeldFacts
    <3>3. u.lo + 4 * i \in Region(u.lo, u.req) /\ x.lo + 4 * i \in Region(x.lo, x.req)
      <4>1. u.lo + 4 * i \in Region(u.lo, u.req)
        BY <2>2, <2>4, <3>2, RegionIs DEF Region
      <4>2. x.lo + 4 * i \in Region(x.lo, x.req)
        BY <2>4, <3>2, RegionIs DEF Region
      <4> QED
        BY <4>1, <4>2
    <3>4. u.lo + 4 * i \in Payload(u) /\ x.lo + 4 * i \in Payload(x)
      BY <2>0, <2>4, <3>2, <3>3, RegionInside
    <3>5. m3[u.lo + 4 * i] = m2[u.lo + 4 * i]
      BY <2>2, <2>4, <2>10, <3>4 DEF Keeps
    <3>6. m1[x.lo + 4 * i] = m[x.lo + 4 * i]
      BY <2>1, <3>4 DEF Keeps
    <3> QED
      BY <3>1, <3>5, <3>6
  <2>13. Served(B, t, B1, t1, size, o.ptr) /\ Moved(m3, o.ptr, size, m, x.lo, x.req)
    BY <2>1, <2>2, <2>8, <2>12
  <2> QED
    BY <2>0, <2>10, <2>11, <2>13 DEF Reallocated
<1> QED
  BY <1>6, <1>7, <1>8 DEF Outcome

-----------------------------------------------------------------------------
\* The pointers l of the client are those of the blocks it holds.
Holds(l, B) ==
  /\ DOMAIN l = {x.lo : x \in P!Held(B)}
  /\ \A x \in P!Held(B) : l[x.lo] = x.req /\ x.req \in Sizes

\* The heap h is initialised and is that of the blocks B.
Stands(h, l, B) ==
  h = Heap(h.mem, h.brk) /\ Rep(h.mem, h.brk, B) /\ Holds(l, B)

\* No memory yet: mm_init has not been called, or its first mem_sbrk failed.
Idle(startp, listp) == [mem |-> <<>>, brk |-> 0, startp |-> startp, listp |-> listp]
Dormant(h, l) ==
  /\ l = <<>> /\ h.startp \in {"null", "failed"} /\ h.listp \in BOOLEAN
  /\ h = Idle(h.startp, h.listp)

\* The blocks of a heap that mm_init just made.
Fresh(B, t) == \E e \in {P!EmptyHeap, P!FirstHeap} : B = e.blocks /\ t = e.top

LEMMA HeldApart ==
  ASSUME NEW B, NEW t, P!Sound(B, t), NEW x \in B, NEW y \in B, x # y
  PROVE  x.lo # y.lo
<1>1. Apart(B, t)
  BY SoundFacts
<1>2. /\ x.lo \in Nat /\ x.hi \in Nat /\ y.lo \in Nat /\ y.hi \in Nat
      /\ x.lo + 16 <= x.hi /\ y.lo + 16 <= y.hi /\ (x.hi <= y.lo \/ y.hi <= x.lo)
  BY <1>1, ApartFacts
<1> QED
  BY <1>2

LEMMA HoldsMore ==
  ASSUME NEW l, NEW B, Holds(l, B), NEW B1, NEW t1, P!Sound(B1, t1),
         NEW u \in P!Held(B1), u \notin P!Held(B), P!Held(B1) = P!Held(B) \cup {u},
         u.req \in Sizes
  PROVE  Holds(With(l, u.lo, u.req), B1) /\ u.lo \notin DOMAIN l
<1>1. \A x \in P!Held(B) : x.lo # u.lo
  <2> SUFFICES ASSUME NEW x \in P!Held(B), x.lo = u.lo PROVE FALSE
    OBVIOUS
  <2>1. x \in B1 /\ u \in B1 /\ x # u
    BY DEF P!Held
  <2> QED
    BY <2>1, HeldApart
<1>2. DOMAIN With(l, u.lo, u.req) = {x.lo : x \in P!Held(B1)}
  BY DEF Holds, With
<1>3. ASSUME NEW x \in P!Held(B1)
      PROVE  With(l, u.lo, u.req)[x.lo] = x.req /\ x.req \in Sizes
  <2>1. CASE x = u
    BY <2>1 DEF With
  <2>2. CASE x \in P!Held(B)
    BY <1>1, <2>2 DEF Holds, With
  <2> QED
    BY <2>1, <2>2
<1>4. u.lo \notin DOMAIN l
  BY <1>1 DEF Holds
<1> QED
  BY <1>2, <1>3, <1>4 DEF Holds

LEMMA HoldsLess ==
  ASSUME NEW l, NEW B, Holds(l, B), NEW t, P!Sound(B, t), NEW x \in P!Held(B),
         NEW B1, P!Held(B1) = P!Held(B) \ {x}
  PROVE  Holds(Without(l, x.lo), B1)
<1>1. \A y \in P!Held(B) : y # x => y.lo # x.lo
  <2> SUFFICES ASSUME NEW y \in P!Held(B), y # x, x.lo = y.lo PROVE FALSE
    OBVIOUS
  <2>1. x \in B /\ y \in B
    BY DEF P!Held
  <2> QED
    BY <2>1, HeldApart
<1>2. DOMAIN Without(l, x.lo) = {y.lo : y \in P!Held(B1)}
  BY <1>1 DEF Holds, Without
<1>3. \A y \in P!Held(B1) : Without(l, x.lo)[y.lo] = y.req /\ y.req \in Sizes
  BY <1>1 DEF Holds, Without
<1> QED
  BY <1>2, <1>3 DEF Holds

-----------------------------------------------------------------------------
\* The heaps mm_init leaves.
LEMMA InitStands ==
  ASSUME NEW h, NEW g \in mm_init(h)
  PROVE  \/ g = [h EXCEPT !.startp = "failed"]
         \/ \E B : Stands(g, <<>>, B) /\ Fresh(B, g.brk)
<1> DEFINE s     == HEAP_START
           empty == Heap(EmptyMemory, s)
<1>1. \/ g = [h EXCEPT !.startp = "failed"]
      \/ g = empty
      \/ CanGrow(empty, ExtendSize(CHUNKSIZE)) /\ g = extend_heap(empty, CHUNKSIZE).heap
  <2>1. empty = [mem |-> EmptyMemory, brk |-> HEAP_START, startp |-> "heap", listp |-> TRUE]
    BY DEF Heap, Yes
  <2> HIDE DEF empty
  <2>2. mm_init(h) = {[h EXCEPT !.startp = "failed"], empty} \cup
          (IF CanGrow(empty, ExtendSize(CHUNKSIZE))
           THEN {extend_heap(empty, CHUNKSIZE).heap} ELSE {})
    BY <2>1 DEF mm_init
  <2> QED
    BY <2>2
<1>2. /\ Rep(EmptyMemory, s, {})
      /\ P!Held({}) = {} /\ P!Grown({}, s, CHUNKSIZE) = P!FirstHeap.blocks
      /\ P!FirstHeap.top = s + CHUNKSIZE /\ ExtendSize(CHUNKSIZE) = CHUNKSIZE
  BY EmptyStores
<1>3. ASSUME NEW B, P!Held(B) = {} PROVE Holds(<<>>, B)
  BY <1>3 DEF Holds
<1>4. P!EmptyHeap.blocks = {} /\ P!EmptyHeap.top = s
  BY DEF P!EmptyHeap
<1> HIDE DEF s
<1>5. CASE g = empty
  <2>1. g.mem = EmptyMemory /\ g.brk = s
    BY <1>5, HeapFields
  <2>2. Fresh({}, g.brk)
    BY <1>4, <2>1 DEF Fresh
  <2>3. Stands(g, <<>>, {})
    BY <1>2, <1>3, <1>5, <2>1 DEF Stands
  <2> QED
    BY <2>2, <2>3
<1>6. CASE CanGrow(empty, ExtendSize(CHUNKSIZE)) /\ g = extend_heap(empty, CHUNKSIZE).heap
  <2> DEFINE B == P!FirstHeap.blocks
             t == s + CHUNKSIZE
  <2>0. empty.brk = s
    BY HeapFields
  <2>1. s + ExtendSize(CHUNKSIZE) <= MaxHeap
    BY <1>6, <2>0 DEF CanGrow
  <2>2. CHUNKSIZE \in Nat /\ CHUNKSIZE % 8 = 0
    BY ChunkAssumption
  <2>3. PICK m1, n : Extended(EmptyMemory, s, {}, CHUNKSIZE, m1, n)
    BY <1>2, <2>1, <2>2, ExtendStores
  <2>4. /\ extend_heap(Heap(EmptyMemory, s), CHUNKSIZE) = [heap |-> Heap(m1, t), bp |-> n.lo]
        /\ Rep(m1, t, B) /\ P!Held(B) = {}
    BY <1>2, <2>3 DEF Extended
  <2> HIDE DEF B, t
  <2>5. g = Heap(m1, t)
    BY <1>6, <2>4
  <2>6. g.mem = m1 /\ g.brk = t
    BY <2>5, HeapFields
  <2>7. Fresh(B, g.brk)
    BY <1>2, <2>6 DEF Fresh, B, t
  <2>8. Stands(g, <<>>, B)
    BY <1>3, <2>4, <2>5, <2>6 DEF Stands
  <2> QED
    BY <2>7, <2>8
<1> QED
  BY <1>1, <1>5, <1>6

\* What malloc, or calloc, does on a heap that stands: NULL and nothing
\* changed, or one more pointer.
Malloced(o, h, l, B, size) ==
  \/ o.ptr = NULL /\ o.heap = h
  \/ /\ o.ptr \notin {NULL, CRASH} /\ o.ptr \notin DOMAIN l
     /\ \E B1 : /\ Stands(o.heap, With(l, o.ptr, size), B1)
                /\ Keeps(h.mem, o.heap.mem, P!Held(B))
                /\ Served(B, h.brk, B1, o.heap.brk, size, o.ptr)

\* calloc returns c where malloc returns o.
Cleared(c, o, size) ==
  c = IF o.ptr \in {NULL, CRASH} THEN o ELSE [o EXCEPT !.heap.mem = Filled(@, o.ptr, size, 0)]

LEMMA MallocStands ==
  ASSUME NEW h, NEW l, NEW B, Stands(h, l, B), NEW size \in Sizes, NEW o \in malloc(h, size)
  PROVE  Malloced(o, h, l, B, size) /\ o = [heap |-> o.heap, ptr |-> o.ptr]
<1> DEFINE m == h.mem
           t == h.brk
<1>1. size \in Nat /\ size > 0 /\ size + 12 < SIZE_MOD /\ size # 0
  BY RequestsAre
<1>2. h = Heap(m, t) /\ Rep(m, t, B) /\ Holds(l, B)
  BY DEF Stands
<1> HIDE DEF m, t
<1>3. o \in Allocate(Heap(m, t), size)
  BY <1>1, <1>2, MallocIs
<1>4. Outcome(o, m, t, B, size)
  BY <1>1, <1>2, <1>3, AllocateStores
<1>5. o = [heap |-> o.heap, ptr |-> o.ptr]
  BY <1>3, AllocateIsPair
<1>6. CASE o.ptr = NULL /\ o.heap = Heap(m, t) /\ Rep(m, t, B)
  <2>1. o.ptr = NULL /\ o.heap = h
    BY <1>2, <1>6
  <2> QED
    BY <1>5, <2>1 DEF Malloced
<1>7. CASE \E m1, t1, B1 :
             /\ o.heap = Heap(m1, t1) /\ Rep(m1, t1, B1)
             /\ Keeps(m, m1, P!Held(B))
             /\ Served(B, t, B1, t1, size, o.ptr)
  <2>1. PICK m1, t1, B1 :
           /\ o.heap = Heap(m1, t1) /\ Rep(m1, t1, B1)
           /\ Keeps(m, m1, P!Held(B))
           /\ Served(B, t, B1, t1, size, o.ptr)
    BY <1>7
  <2>2. P!Sound(B1, t1)
    BY <2>1, RepFacts
  <2>3. /\ o.ptr \notin {NULL, CRASH}
        /\ \E u \in P!Held(B1) : /\ u.lo = o.ptr /\ u.req = size /\ u \notin P!Held(B)
                                 /\ P!Held(B1) = P!Held(B) \cup {u}
    BY <1>1, <2>1, <2>2, ServedAdds
  <2>4. Holds(With(l, o.ptr, size), B1) /\ o.ptr \notin DOMAIN l
    BY <1>2, <2>2, <2>3, HoldsMore
  <2>5. o.heap.mem = m1 /\ o.heap.brk = t1
    BY <2>1, HeapFields
  <2>6. Stands(o.heap, With(l, o.ptr, size), B1)
    BY <2>1, <2>4, <2>5 DEF Stands
  <2>7. Keeps(h.mem, o.heap.mem, P!Held(B)) /\ Served(B, h.brk, B1, o.heap.brk, size, o.ptr)
    BY <2>1, <2>5 DEF m, t
  <2> QED
    BY <1>5, <2>3, <2>4, <2>6, <2>7 DEF Malloced
<1> QED
  BY <1>4, <1>6, <1>7 DEF Outcome

LEMMA CallocStands ==
  ASSUME NEW h, NEW l, NEW B, Stands(h, l, B), NEW size \in Sizes, NEW o \in malloc(h, size),
         NEW c, Cleared(c, o, size)
  PROVE  /\ Malloced(c, h, l, B, size)
         /\ c.ptr # NULL => Filling(c.heap.mem, Region(c.ptr, size), 0)
<1>1. Malloced(o, h, l, B, size) /\ o = [heap |-> o.heap, ptr |-> o.ptr]
  BY MallocStands
<1>2. CASE o.ptr = NULL /\ o.heap = h
  BY <1>2 DEF Cleared, Malloced
<1>3. CASE /\ o.ptr \notin {NULL, CRASH} /\ o.ptr \notin DOMAIN l
           /\ \E B1 : /\ Stands(o.heap, With(l, o.ptr, size), B1)
                      /\ Keeps(h.mem, o.heap.mem, P!Held(B))
                      /\ Served(B, h.brk, B1, o.heap.brk, size, o.ptr)
  <2>1. PICK B1 : /\ Stands(o.heap, With(l, o.ptr, size), B1)
                  /\ Keeps(h.mem, o.heap.mem, P!Held(B))
                  /\ Served(B, h.brk, B1, o.heap.brk, size, o.ptr)
    BY <1>3
  <2> DEFINE m1 == o.heap.mem
             t1 == o.heap.brk
             q  == o.ptr
             m2 == Filled(m1, q, size, 0)
  <2>2. o.heap = Heap(m1, t1) /\ Rep(m1, t1, B1) /\ Holds(With(l, q, size), B1)
    BY <2>1 DEF Stands
  <2>3. size \in Nat /\ size > 0
    BY RequestsAre
  <2>4. P!Sound(B1, t1)
    BY <2>2, RepFacts
  <2>5. PICK u \in P!Held(B1) : /\ u.lo = q /\ u.req = size /\ u \notin P!Held(B)
                                /\ P!Held(B1) = P!Held(B) \cup {u}
    BY <2>1, <2>3, <2>4, ServedAdds
  <2>6. /\ Rep(m2, t1, B1) /\ Keeps(m1, m2, P!Held(B1) \ {u})
        /\ Filling(m2, Region(q, size), 0)
    BY <2>2, <2>5, FilledStores
  <2>7. c = [o EXCEPT !.heap.mem = m2]
    BY <1>3 DEF Cleared
  <2>8. c.ptr = q /\ c.heap = [o.heap EXCEPT !.mem = m2]
    BY <1>1, <2>7
  <2> HIDE DEF m2, m1, t1, q
  <2>9. c.heap = Heap(m2, t1)
    BY <2>2, <2>8, HeapMem
  <2>10. c.heap.mem = m2 /\ c.heap.brk = t1
    BY <2>9, HeapFields
  <2>11. Stands(c.heap, With(l, q, size), B1)
    BY <2>2, <2>6, <2>9, <2>10 DEF Stands
  <2>12. Keeps(h.mem, m2, P!Held(B))
    <3>1. Keeps(h.mem, m1, P!Held(B))
      BY <2>1 DEF m1
    <3>2. P!Held(B) \subseteq P!Held(B1) \ {u}
      BY <2>5
    <3>3. Keeps(m1, m2, P!Held(B))
      BY <2>6, <3>2, KeepsSub
    <3> QED
      BY <3>1, <3>3, KeepsTwice
  <2>13. Served(B, h.brk, B1, t1, size, q)
    BY <2>1 DEF t1, q
  <2>14. q \notin {NULL, CRASH} /\ q \notin DOMAIN l
    BY <1>3 DEF q
  <2>15. Malloced(c, h, l, B, size)
    BY <2>8, <2>10, <2>11, <2>12, <2>13, <2>14 DEF Malloced
  <2> QED
    BY <2>6, <2>8, <2>10, <2>15
<1> QED
  BY <1>1, <1>2, <1>3 DEF Malloced

LEMMA MallocOfZero ==
  ASSUME NEW h, NEW l, NEW B, Stands(h, l, B), NEW o \in malloc(h, 0)
  PROVE  o.ptr = NULL /\ o.heap = h
<1>1. h = Heap(h.mem, h.brk)
  BY DEF Stands
<1>2. o \in {[heap |-> h, ptr |-> NULL]}
  BY <1>1, MallocIs
<1> QED
  BY <1>2

\* malloc before mm_init succeeded: it may leave things as they are, or it
\* works on the heap that mm_init makes.
LEMMA MallocFirst ==
  ASSUME NEW h, NEW l, Dormant(h, l), NEW size, NEW o \in malloc(h, size)
  PROVE  \/ o.ptr \in {NULL, CRASH} /\ Dormant(o.heap, l)
         \/ \E g, B : Stands(g, l, B) /\ Fresh(B, g.brk) /\ o \in malloc(g, size)
<1> DEFINE From(g) == IF size = 0 THEN {[heap |-> g, ptr |-> NULL]}
                      ELSE IF g.startp # "heap" THEN {[heap |-> g, ptr |-> CRASH]}
                      ELSE Allocate(g, size)
<1>1. malloc(h, size) = UNION {From(g) : g \in IF h.listp THEN {h} ELSE mm_init(h)}
  BY DEF malloc
<1>2. \A m, t : malloc(Heap(m, t), size) = From(Heap(m, t))
  <2> SUFFICES ASSUME NEW m, NEW t PROVE malloc(Heap(m, t), size) = From(Heap(m, t))
    OBVIOUS
  <2>1. Heap(m, t).startp = "heap"
    BY DEF Heap
  <2>2. malloc(Heap(m, t), size) = IF size = 0 THEN {[heap |-> Heap(m, t), ptr |-> NULL]}
                                   ELSE Allocate(Heap(m, t), size)
    BY MallocIs
  <2> QED
    BY <2>1, <2>2
<1>3. \A g : g.startp # "heap" => \A e \in From(g) : e.ptr \in {NULL, CRASH} /\ e.heap = g
  OBVIOUS
<1> HIDE DEF From
<1>4. PICK g : o \in From(g) /\ (g = h \/ g \in mm_init(h))
  BY <1>1
<1>5. /\ l = <<>> /\ h.startp \in {"null", "failed"} /\ h.listp \in BOOLEAN
      /\ h = Idle(h.startp, h.listp)
  BY DEF Dormant
<1>6. CASE Dormant(g, l)
  <2>1. g.startp # "heap"
    BY <1>6 DEF Dormant
  <2>2. o.ptr \in {NULL, CRASH} /\ o.heap = g
    BY <1>3, <1>4, <2>1
  <2> QED
    BY <1>6, <2>2
<1>7. CASE \E B : Stands(g, <<>>, B) /\ Fresh(B, g.brk)
  <2>1. PICK B : Stands(g, <<>>, B) /\ Fresh(B, g.brk)
    BY <1>7
  <2>2. g = Heap(g.mem, g.brk)
    BY <2>1 DEF Stands
  <2>3. o \in malloc(g, size)
    BY <1>2, <1>4, <2>2
  <2> QED
    BY <1>5, <2>1, <2>3
<1>8. CASE g = h
  BY <1>6, <1>8
<1>9. CASE g = [h EXCEPT !.startp = "failed"]
  <2>1. g = Idle("failed", h.listp)
    BY <1>5, <1>9 DEF Idle
  <2>2. Dormant(g, l)
    BY <1>5, <2>1 DEF Dormant, Idle
  <2> QED
    BY <1>6, <2>2
<1> QED
  BY <1>4, <1>7, <1>8, <1>9, InitStands

LEMMA FreeStands ==
  ASSUME NEW h, NEW l, NEW B, Stands(h, l, B), NEW p \in DOMAIN l
  PROVE  \E x \in P!Held(B) :
           /\ x.lo = p /\ x.req = l[p]
           /\ Stands(free(h, p), Without(l, p), P!Release(B, x))
           /\ Keeps(h.mem, free(h, p).mem, P!Held(B) \ {x})
           /\ free(h, p).brk = h.brk
<1> DEFINE m == h.mem
           t == h.brk
<1>1. h = Heap(m, t) /\ Rep(m, t, B) /\ Holds(l, B) /\ P!Sound(B, t)
  BY RepFacts DEF Stands
<1>2. PICK x \in P!Held(B) : x.lo = p /\ x.req = l[p]
  BY <1>1 DEF Holds
<1>3. x \in B /\ x.req > 0
  BY <1>2 DEF P!Held
<1> HIDE DEF m, t
<1>4. PICK m1 :
        /\ free(Heap(m, t), x.lo) = Heap(m1, t)
        /\ Rep(m1, t, P!Release(B, x))
        /\ Keeps(m, m1, P!Held(B) \ {x})
        /\ P!Held(P!Release(B, x)) = P!Held(B) \ {x}
  BY <1>1, <1>3, FreeStores
<1>5. free(h, p) = Heap(m1, t)
  BY <1>1, <1>2, <1>4
<1>6. free(h, p).mem = m1 /\ free(h, p).brk = t
  BY <1>5, HeapFields
<1>7. Holds(Without(l, p), P!Release(B, x))
  BY <1>1, <1>2, <1>4, HoldsLess
<1>8. Stands(free(h, p), Without(l, p), P!Release(B, x))
  BY <1>4, <1>5, <1>6, <1>7 DEF Stands
<1> QED
  BY <1>2, <1>4, <1>6, <1>8 DEF m, t

\* realloc on a live pointer.
ReallocMoves(o, h, l, B, p, size) ==
  \/ o.ptr = NULL /\ o.heap = h
  \/ /\ o.ptr \notin {NULL, CRASH} /\ o.ptr \notin DOMAIN l
     /\ \E x \in P!Held(B) : \E B1 :
          /\ x.lo = p /\ x.req = l[p]
          /\ Stands(o.heap, With(Without(l, p), o.ptr, size), P!Release(B1, x))
          /\ Keeps(h.mem, o.heap.mem, P!Held(B) \ {x})
          /\ Moved(o.heap.mem, o.ptr, size, h.mem, p, l[p])
          /\ Served(B, h.brk, B1, o.heap.brk, size, o.ptr)

LEMMA ReallocStands ==
  ASSUME NEW h, NEW l, NEW B, Stands(h, l, B), NEW p \in DOMAIN l, NEW size \in Sizes,
         NEW o \in realloc(h, p, size)
  PROVE  ReallocMoves(o, h, l, B, p, size)
<1> DEFINE m == h.mem
           t == h.brk
<1>1. h = Heap(m, t) /\ Rep(m, t, B) /\ Holds(l, B) /\ P!Sound(B, t)
  BY RepFacts DEF Stands
<1>2. PICK x \in P!Held(B) : x.lo = p /\ x.req = l[p]
  BY <1>1 DEF Holds
<1>3. size \in Nat /\ size > 0 /\ size + 12 < SIZE_MOD
  BY RequestsAre
<1> HIDE DEF m, t
<1>4. o \in realloc(Heap(m, t), x.lo, size)
  BY <1>1, <1>2
<1>5. Reallocated(o, m, t, B, x, size)
  BY <1>1, <1>3, <1>4, ReallocStores
<1>6. CASE o.ptr = NULL /\ o.heap = Heap(m, t) /\ Rep(m, t, B)
  BY <1>1, <1>6 DEF ReallocMoves
<1>7. CASE \E m1, t1, B1 :
             /\ o.heap = Heap(m1, t1) /\ Rep(m1, t1, P!Release(B1, x))
             /\ Keeps(m, m1, P!Held(B) \ {x})
             /\ Moved(m1, o.ptr, size, m, x.lo, x.req)
             /\ Served(B, t, B1, t1, size, o.ptr) /\ P!Sound(B1, t1)
             /\ P!Held(P!Release(B1, x)) = P!Held(B1) \ {x}
  <2>1. PICK m1, t1, B1 :
           /\ o.heap = Heap(m1, t1) /\ Rep(m1, t1, P!Release(B1, x))
           /\ Keeps(m, m1, P!Held(B) \ {x})
           /\ Moved(m1, o.ptr, size, m, x.lo, x.req)
           /\ Served(B, t, B1, t1, size, o.ptr) /\ P!Sound(B1, t1)
           /\ P!Held(P!Release(B1, x)) = P!Held(B1) \ {x}
    BY <1>7
  <2> DEFINE C == P!Release(B1, x)
             S == B \ {x}
  <2>2. P!Sound(C, t1)
    BY <2>1, RepFacts
  <2>3. o.ptr \notin {NULL, CRASH}
    BY <1>3, <2>1, ServedAdds
  <2>4. PICK u \in P!Held(B1) : /\ u.lo = o.ptr /\ u.req = size /\ u \notin P!Held(B)
                               /\ P!Held(B1) = P!Held(B) \cup {u}
    BY <1>3, <2>1, ServedAdds
  <2>5. o.ptr \notin DOMAIN l
    BY <1>1, <2>1, <2>4, HoldsMore
  <2>6. P!Held(S) = P!Held(B) \ {x}
    BY DEF P!Held
  <2>7. P!Held(C) = P!Held(S) \cup {u} /\ u \in P!Held(C) /\ u \notin P!Held(S)
    BY <1>2, <2>1, <2>4, <2>6
  <2> HIDE DEF C, S
  <2>8. Holds(Without(l, x.lo), S)
    BY <1>1, <2>6, HoldsLess
  <2>9. Holds(With(Without(l, p), o.ptr, size), C)
    BY <1>2, <2>2, <2>4, <2>7, <2>8, HoldsMore
  <2>10. o.heap.mem = m1 /\ o.heap.brk = t1
    BY <2>1, HeapFields
  <2>11. Stands(o.heap, With(Without(l, p), o.ptr, size), C)
    BY <2>1, <2>9, <2>10 DEF Stands, C
  <2> QED
    BY <1>2, <2>1, <2>3, <2>5, <2>10, <2>11 DEF ReallocMoves, C, m, t
<1> QED
  BY <1>5, <1>6, <1>7 DEF Reallocated

\* The blocks the client holds keep their words, that at p excepted.
Spares(h, g, B, p) == \E x \in P!Held(B) : x.lo = p /\ Keeps(h.mem, g.mem, P!Held(B) \ {x})

\* The client's write.
Written(h, l, p, v) == [h EXCEPT !.mem = Filled(h.mem, p, l[p], v)]

LEMMA WriteStands ==
  ASSUME NEW h, NEW l, NEW B, Stands(h, l, B), NEW p \in DOMAIN l, NEW v \in UserWords,
         NEW g, g = Written(h, l, p, v)
  PROVE  /\ Stands(g, l, B) /\ g.brk = h.brk
         /\ Filling(g.mem, Region(p, l[p]), v)
         /\ Spares(h, g, B, p)
<1> DEFINE m == h.mem
           t == h.brk
<1>1. h = Heap(m, t) /\ Rep(m, t, B) /\ Holds(l, B)
  BY DEF Stands
<1>2. PICK x \in P!Held(B) : x.lo = p /\ x.req = l[p]
  BY <1>1 DEF Holds
<1>3. v \in Nat
  BY RequestsAre
<1> DEFINE m1 == Filled(m, x.lo, x.req, v)
<1>4. g = [h EXCEPT !.mem = m1]
  BY <1>2 DEF Written
<1> HIDE DEF m, t
<1>5. /\ Rep(m1, t, B) /\ Keeps(m, m1, P!Held(B) \ {x})
      /\ Filling(m1, Region(x.lo, x.req), v)
  BY <1>1, <1>3, FilledStores
<1> HIDE DEF m1
<1>6. g = Heap(m1, t)
  BY <1>1, <1>4, HeapMem
<1>7. g.mem = m1 /\ g.brk = t
  BY <1>6, HeapFields
<1> QED
  BY <1>1, <1>2, <1>5, <1>6, <1>7 DEF Stands, Spares, m, t

-----------------------------------------------------------------------------
\* The block pointers of the heap, the epilogue's included.
Points(B, t) == {x.lo : x \in B} \cup {t}

\* The set w[n] is what is met in n rounds that go on from the points of go to
\* nx of them.
Spreads(w, K, Pts, go, nx) ==
  \A n \in 1 .. K : w[n - 1] \in SUBSET Pts =>
    \A y : y \in w[n] <=> y \in w[n - 1] \/ \E q \in w[n - 1] : q \in go /\ y = nx[q]

Leads(Pts, go, nx, p) ==
  /\ \A q \in go : nx[q] \in Pts /\ nx[q] >= q
  /\ \A q \in Pts : q > p => \E r \in go : r >= p /\ r + 8 <= q /\ nx[r] = q

Walks(w, m, t) ==
  /\ w[0] = {HEAP_START}
  /\ \A n \in 1 .. MaxHeap \div 8 :
       \A y : y \in w[n] <=>
         \E q \in w[n - 1] : y = q \/ (q < t /\ y = NEXT_BLKP(m, q))

\* The block pointers checkheap visits in the memory m below the break t.
Walked(m, t) ==
  LET walk[n \in 0 .. MaxHeap \div 8] ==
        IF n = 0 THEN {HEAP_START}
        ELSE UNION {IF bp < t THEN {bp, NEXT_BLKP(m, bp)} ELSE {bp} : bp \in walk[n - 1]}
  IN  walk[MaxHeap \div 8]

\* Where blocks meet, one ends at each point above the first.
LEMMA EndsAt ==
  ASSUME NEW B, NEW s \in Nat, NEW p \in Nat, p > s,
         \A x \in B : x.lo \in Nat /\ x.hi \in Nat /\ x.lo < x.hi,
         \A x \in B : x.hi <= p \/ p <= x.lo,
         \A x \in B : x.hi < p => \E y \in B : y.lo = x.hi,
         \E x \in B : x.lo = s
  PROVE  \E x \in B : x.hi = p
<1> DEFINE T == {p - x.hi : x \in {y \in B : y.hi <= p}}
<1>1. PICK z \in B : z.lo = s
  OBVIOUS
<1>2. z.hi <= p
  BY <1>1
<1>3. T # {}
  BY <1>2
<1>4. T \in SUBSET Nat
  <2>1. \A y \in B : y.hi <= p => p - y.hi \in Nat
    OBVIOUS
  <2> QED
    BY <2>1
<1>5. Min(T) \in T /\ \A n \in T : Min(T) <= n
  BY <1>3, <1>4, LeastNumber
<1>6. PICK x \in B : x.hi <= p /\ Min(T) = p - x.hi
  BY <1>5
<1>7. ASSUME x.hi < p PROVE FALSE
  <2>1. PICK y \in B : y.lo = x.hi
    BY <1>7
  <2>2. y.hi <= p /\ y.hi > x.hi
    BY <1>7, <2>1
  <2>3. p - y.hi \in T
    BY <2>2
  <2>4. Min(T) <= p - y.hi
    BY <1>5, <2>3
  <2> HIDE DEF T
  <2> QED
    BY <1>6, <2>2, <2>4
<1> QED
  BY <1>6, <1>7

\* In K rounds the points up to 8 * K above the start are met.
LEMMA WalkReaches ==
  ASSUME NEW Pts \in SUBSET Nat, NEW go \in SUBSET Pts, NEW nx, NEW K \in Nat,
         NEW p \in Pts, NEW w, w[0] = {p}, Spreads(w, K, Pts, go, nx),
         Leads(Pts, go, nx, p), \A q \in Pts : q <= p + 8 * K
  PROVE  \A y : y \in w[K] <=> y \in Pts /\ y >= p
<1> DEFINE Near(n) == {q \in Pts : q >= p /\ q <= p + 8 * n}
           S == {n \in Nat : n <= K => /\ w[n] \in SUBSET {q \in Pts : q >= p}
                                       /\ Near(n) \subseteq w[n]}
<1>0. p \in Nat /\ \A q \in Pts : q \in Nat
  OBVIOUS
<1>1. 0 \in S
  <2> HIDE DEF S
  <2>1. \A q \in Near(0) : q = p
    BY <1>0
  <2>2. p >= p
    BY <1>0
  <2>3. w[0] \in SUBSET {q \in Pts : q >= p} /\ Near(0) \subseteq w[0]
    <3> HIDE DEF Near
    <3> QED
      BY <2>1, <2>2
  <2> QED
    BY <2>3 DEF S
<1>2. \A n \in Nat : n \in S => n + 1 \in S
  <2> SUFFICES ASSUME NEW n \in Nat, n \in S, n + 1 <= K
               PROVE  /\ w[n + 1] \in SUBSET {q \in Pts : q >= p}
                      /\ Near(n + 1) \subseteq w[n + 1]
    OBVIOUS
  <2>1. w[n] \in SUBSET {q \in Pts : q >= p} /\ Near(n) \subseteq w[n]
    OBVIOUS
  <2>2. n + 1 \in 1 .. K /\ (n + 1) - 1 = n
    OBVIOUS
  <2>3. \A y : y \in w[n + 1] <=> y \in w[n] \/ \E q \in w[n] : q \in go /\ y = nx[q]
    <3>1. \A k \in 1 .. K : k - 1 = n =>
            \A y : y \in w[k] <=> y \in w[n] \/ \E q \in w[n] : q \in go /\ y = nx[q]
      BY <2>1 DEF Spreads
    <3> QED
      BY <2>2, <3>1
  <2>4. w[n + 1] \in SUBSET {q \in Pts : q >= p}
    <3>1. ASSUME NEW q \in w[n], q \in go PROVE nx[q] \in Pts /\ nx[q] >= p
      <4>1. nx[q] \in Pts /\ nx[q] >= q
        BY <3>1 DEF Leads
      <4>2. q \in Pts /\ q >= p
        BY <2>1
      <4>3. q \in Nat /\ p \in Nat /\ nx[q] \in Nat
        BY <4>1, <4>2
      <4> HIDE DEF S, Near
      <4> QED
        BY <4>1, <4>2, <4>3
    <3> QED
      BY <2>1, <2>3, <3>1
  <2>5. ASSUME NEW q \in Near(n + 1) PROVE q \in w[n + 1]
    <3>1. CASE q = p
      <4>1. p \in Near(n)
        <5>1. p \in Pts /\ p \in Nat /\ p >= p /\ p <= p + 8 * n
          OBVIOUS
        <5> HIDE DEF S
        <5> QED
          BY <5>1
      <4> HIDE DEF Near
      <4> QED
        BY <2>1, <2>3, <3>1, <4>1
    <3>2. CASE q # p
      <4>0. q \in Pts /\ q \in Nat /\ p \in Nat /\ q >= p /\ q <= p + 8 * (n + 1)
        BY <2>5
      <4> HIDE DEF S
      <4>1. q \in Pts /\ q > p /\ q <= p + 8 * (n + 1)
        BY <3>2, <4>0
      <4>2. PICK r \in go : r >= p /\ r + 8 <= q /\ nx[r] = q
        BY <4>1 DEF Leads
      <4>3. r \in Near(n)
        <5>1. r \in Pts /\ r \in Nat
          OBVIOUS
        <5>2. r <= p + 8 * n
          BY <4>0, <4>2, <5>1
        <5> QED
          BY <4>2, <5>1, <5>2
      <4> HIDE DEF Near
      <4> QED
        BY <2>1, <2>3, <4>2, <4>3
    <3> QED
      BY <3>1, <3>2
  <2> HIDE DEF Near
  <2> QED
    BY <2>4, <2>5
<1>3. Nat \subseteq S
  <2> HIDE DEF S
  <2> QED
    BY <1>1, <1>2, Inductive
<1>4. w[K] \in SUBSET {q \in Pts : q >= p} /\ Near(K) \subseteq w[K]
  BY <1>3
<1>5. \A q \in Pts : q >= p => q \in Near(K)
  OBVIOUS
<1> HIDE DEF Near
<1> QED
  BY <1>4, <1>5
LEMMA WalkedIs ==
  ASSUME NEW m, NEW t
  PROVE  \E w : Walks(w, m, t) /\ Walked(m, t) = w[MaxHeap \div 8]
<1> DEFINE K == MaxHeap \div 8
           Round(W) == UNION {IF q < t THEN {q, NEXT_BLKP(m, q)} ELSE {q}
                              : q \in W}
           Recurs(g, k) == g = [n \in 0 .. k |-> IF n = 0 THEN {HEAP_START} ELSE Round(g[n - 1])]
           f == CHOOSE g : Recurs(g, K)
           S == {k \in Nat : \E g : Recurs(g, k)}
<1>0. K \in Nat
  BY WordsAssumption, StartIs
<1>1. Walked(m, t) = f[K]
  BY DEF Walked
<1> HIDE DEF K, Round, f, Recurs
<1>2. 0 \in S
  <2> DEFINE g == [n \in 0 .. 0 |-> {HEAP_START}]
  <2>1. g = [n \in 0 .. 0 |-> IF n = 0 THEN {HEAP_START} ELSE Round(g[n - 1])]
    OBVIOUS
  <2> HIDE DEF g
  <2>2. Recurs(g, 0)
    BY <2>1 DEF Recurs
  <2> QED
    BY <2>2
<1>3. \A k \in Nat : k \in S => k + 1 \in S
  <2> SUFFICES ASSUME NEW k \in Nat, k \in S PROVE \E h : Recurs(h, k + 1)
    OBVIOUS
  <2>0. PICK g : Recurs(g, k)
    OBVIOUS
  <2> DEFINE h == [n \in 0 .. k + 1 |-> IF n <= k THEN g[n] ELSE Round(g[k])]
  <2>1. \A n \in 0 .. k : g[n] = IF n = 0 THEN {HEAP_START} ELSE Round(g[n - 1])
    BY <2>0 DEF Recurs
  <2>2. \A n \in 0 .. k + 1 : h[n] = IF n = 0 THEN {HEAP_START} ELSE Round(h[n - 1])
    <3> SUFFICES ASSUME NEW n \in 0 .. k + 1
                 PROVE  h[n] = IF n = 0 THEN {HEAP_START} ELSE Round(h[n - 1])
      OBVIOUS
    <3>1. CASE n = 0
      BY <2>1, <3>1
    <3>2. CASE n \in 1 .. k
      <4>1. n \in 0 .. k + 1 /\ n - 1 \in 0 .. k + 1 /\ n <= k /\ n - 1 <= k
        BY <3>2
      <4>2. h[n] = g[n] /\ h[n - 1] = g[n - 1]
        BY <4>1
      <4>3. n \in 0 .. k /\ n # 0
        BY <3>2
      <4> HIDE DEF h
      <4> QED
        BY <2>1, <4>2, <4>3
    <3>3. CASE n = k + 1
      <4>1. h[n] = Round(g[k]) /\ h[n - 1] = g[k]
        BY <3>3
      <4> QED
        BY <3>3, <4>1
    <3> QED
      BY <3>1, <3>2, <3>3
  <2>3. h = [n \in 0 .. k + 1 |-> h[n]]
    OBVIOUS
  <2> HIDE DEF h
  <2>4. Recurs(h, k + 1)
    BY <2>2, <2>3 DEF Recurs
  <2> QED
    BY <2>4
<1>4. \E g : Recurs(g, K)
  <2>1. Nat \subseteq S
    <3> HIDE DEF S
    <3> QED
      BY <1>2, <1>3, Inductive
  <2> QED
    BY <1>0, <2>1
<1>5. Recurs(f, K)
  BY <1>4 DEF f
<1>6. \A n \in 0 .. K : f[n] = IF n = 0 THEN {HEAP_START} ELSE Round(f[n - 1])
  BY <1>5 DEF Recurs
<1>7. f[0] = {HEAP_START} /\ \A n \in 1 .. K : f[n] = Round(f[n - 1])
  BY <1>0, <1>6
<1>8. \A W : \A y : y \in Round(W) <=>
        \E q \in W : y = q \/ (q < t /\ y = NEXT_BLKP(m, q))
  BY DEF Round
<1> QED
  BY <1>1, <1>7, <1>8 DEF K, Walks

\* From a block pointer the walk goes to the next, up to the epilogue.
LEMMA PointsAre ==
  ASSUME NEW B, NEW t, NEW m, Rep(m, t, B)
  PROVE  /\ Points(B, t) \subseteq Nat /\ HEAP_START \in Points(B, t)
         /\ \A q \in Points(B, t) : HEAP_START <= q /\ q <= t
         /\ \A x \in B : NEXT_BLKP(m, x.lo) = x.hi /\ x.hi \in Points(B, t)
<1>1. P!Sound(B, t)
  BY RepFacts
<1>2. /\ Apart(B, t)
      /\ \A x \in B : x.hi = t \/ \E y \in B : y.lo = x.hi
      /\ t > HEAP_START => \E x \in B : x.lo = HEAP_START
  BY <1>1, SoundFacts
<1>3. /\ t \in Nat /\ t >= HEAP_START
      /\ \A x \in B : x.lo \in Nat /\ x.hi \in Nat /\ HEAP_START <= x.lo /\ x.lo + 16 <= x.hi
                     /\ x.hi <= t
  BY <1>2, ApartFacts
<1>4. HEAP_START \in Nat
  BY StartIs
<1>5. Points(B, t) \subseteq Nat /\ \A q \in Points(B, t) : HEAP_START <= q /\ q <= t
  BY <1>3, <1>4 DEF Points
<1>6. HEAP_START \in Points(B, t)
  BY <1>2, <1>3, <1>4 DEF Points
<1>7. ASSUME NEW x \in B PROVE NEXT_BLKP(m, x.lo) = x.hi /\ x.hi \in Points(B, t)
  <2>1. GET_SIZE(m[x.lo - 4]) = x.hi - x.lo
    BY HeaderIs
  <2>2. NEXT_BLKP(m, x.lo) = x.hi
    BY <1>3, <2>1 DEF NEXT_BLKP
  <2> QED
    BY <1>2, <2>2 DEF Points
<1> QED
  BY <1>5, <1>6, <1>7

LEMMA PointsFollow ==
  ASSUME NEW B, NEW t, NEW m, Rep(m, t, B), NEW q \in Points(B, t), q > HEAP_START
  PROVE  \E x \in B : x.lo + 8 <= q /\ NEXT_BLKP(m, x.lo) = q
<1>1. P!Sound(B, t)
  BY RepFacts
<1>2. /\ Apart(B, t)
      /\ \A x \in B : x.hi = t \/ \E y \in B : y.lo = x.hi
      /\ t > HEAP_START => \E x \in B : x.lo = HEAP_START
  BY <1>1, SoundFacts
<1>3. /\ t \in Nat
      /\ \A x \in B : x.lo \in Nat /\ x.hi \in Nat /\ x.lo + 16 <= x.hi /\ x.hi <= t
      /\ \A x, y \in B : x = y \/ x.hi <= y.lo \/ y.hi <= x.lo
  BY <1>2, ApartFacts
<1>4. HEAP_START \in Nat /\ q \in Nat /\ q <= t
      /\ \A x \in B : NEXT_BLKP(m, x.lo) = x.hi
  BY StartIs, PointsAre
<1>5. \A x \in B : x.hi <= q \/ q <= x.lo
  BY <1>3 DEF Points
<1>6. \A x \in B : x.hi < q => \E y \in B : y.lo = x.hi
  BY <1>2, <1>3, <1>4
<1>7. \E x \in B : x.lo = HEAP_START
  BY <1>2, <1>3, <1>4
<1>8. \A x \in B : x.lo \in Nat /\ x.hi \in Nat /\ x.lo < x.hi
  BY <1>3
<1>9. PICK x \in B : x.hi = q
  BY <1>4, <1>5, <1>6, <1>7, <1>8, EndsAt
<1> QED
  BY <1>3, <1>4, <1>9

\* The walk meets every block pointer, and no other address.
LEMMA WalkMeets ==
  ASSUME NEW B, NEW t, NEW m, Rep(m, t, B)
  PROVE  \A y : y \in Walked(m, t) <=> y \in Points(B, t)
<1> DEFINE Pts == Points(B, t)
           go  == Pts \ {t}
           nx  == [q \in Pts |-> NEXT_BLKP(m, q)]
           K   == MaxHeap \div 8
<1>0. PICK w : Walks(w, m, t) /\ Walked(m, t) = w[K]
  BY WalkedIs
<1>1. P!Sound(B, t) /\ t \in Nat /\ t <= MaxHeap /\ Apart(B, t)
  BY RepFacts
<1>2. /\ Pts \subseteq Nat /\ HEAP_START \in Pts /\ HEAP_START \in Nat
      /\ \A q \in Pts : HEAP_START <= q /\ q <= t
      /\ \A x \in B : NEXT_BLKP(m, x.lo) = x.hi /\ x.hi \in Pts
  BY PointsAre, StartIs
<1>3. \A x \in B : x.lo \in Nat /\ x.hi \in Nat /\ x.lo + 16 <= x.hi /\ x.hi <= t
  BY <1>1, ApartFacts
<1>4. \A q \in Pts : (q < t <=> q \in go)
  BY <1>1, <1>2
<1>5. ASSUME NEW q \in go PROVE nx[q] \in Pts /\ nx[q] >= q
  <2>1. PICK x \in B : q = x.lo
    BY <1>5 DEF Points
  <2>2. nx[q] = x.hi
    BY <1>2, <2>1
  <2> QED
    BY <1>2, <1>3, <2>1, <2>2
<1>6. ASSUME NEW q \in Pts, q > HEAP_START
      PROVE  \E r \in go : r >= HEAP_START /\ r + 8 <= q /\ nx[r] = q
  <2>1. PICK x \in B : x.lo + 8 <= q /\ NEXT_BLKP(m, x.lo) = q
    BY <1>6, PointsFollow
  <2>2. x.lo \in Pts
    BY DEF Points
  <2>3. x.lo # t /\ x.lo >= HEAP_START
    BY <1>1, <1>2, <1>3, <2>2
  <2> QED
    BY <2>1, <2>2, <2>3
<1>7. MaxHeap \in Nat /\ HEAP_START >= 24
  BY WordsAssumption, StartIs
<1>8. K \in Nat /\ \A q \in Pts : q <= HEAP_START + 8 * K
  BY <1>1, <1>2, <1>7
<1> HIDE DEF Pts, K
<1>9. ASSUME NEW n \in 1 .. K, w[n - 1] \in SUBSET Pts, NEW y
      PROVE  y \in w[n] <=> y \in w[n - 1] \/ \E q \in w[n - 1] : q \in go /\ y = nx[q]
  <2>1. \A q \in w[n - 1] : q \in Pts /\ (q < t <=> q \in go) /\ nx[q] = NEXT_BLKP(m, q)
    BY <1>4, <1>9
  <2> HIDE DEF nx, go
  <2> QED
    BY <1>0, <2>1 DEF Walks, K
<1>10. go \in SUBSET Pts /\ Pts \in SUBSET Nat
  BY <1>2
<1> HIDE DEF nx, go
<1>11. w[0] = {HEAP_START}
  BY <1>0 DEF Walks
<1>12. Spreads(w, K, Pts, go, nx)
  BY <1>9 DEF Spreads
<1>13. Leads(Pts, go, nx, HEAP_START)
  BY <1>5, <1>6 DEF Leads
<1>14. \A y : y \in w[K] <=> y \in Pts /\ y >= HEAP_START
  BY <1>2, <1>8, <1>10, <1>11, <1>12, <1>13, WalkReaches
<1> QED
  BY <1>0, <1>2, <1>14 DEF Pts

-----------------------------------------------------------------------------
\* The blocks one reads from the headers of h and the client's pointers l.
BlocksOf(h, l) ==
  {[lo |-> bp, hi |-> NEXT_BLKP(h.mem, bp), req |-> IF bp \in DOMAIN l THEN l[bp] ELSE 0]
   : bp \in Walked(h.mem, h.brk) \ {h.brk}}

\* They are the blocks the heap stands for.
LEMMA BlocksAre ==
  ASSUME NEW h, NEW l, NEW B, Stands(h, l, B)
  PROVE  /\ BlocksOf(h, l) = B
         /\ \A y : y \in Walked(h.mem, h.brk) <=> y = h.brk \/ \E x \in B : y = x.lo
         /\ h.startp = "heap" /\ h.listp
<1> DEFINE m == h.mem
           t == h.brk
           Read(bp) == [lo |-> bp, hi |-> NEXT_BLKP(m, bp),
                        req |-> IF bp \in DOMAIN l THEN l[bp] ELSE 0]
<1>1. h = Heap(m, t) /\ Rep(m, t, B) /\ Holds(l, B)
  BY DEF Stands
<1>2. h.startp = "heap" /\ h.listp
  BY <1>1 DEF Heap, Yes
<1> HIDE DEF m, t
<1>3. Apart(B, t) /\ P!Sound(B, t)
  BY <1>1, RepFacts
<1>4. /\ t \in Nat
      /\ \A x \in B : /\ x \in P!Block /\ x.lo \in Nat /\ x.hi \in Nat /\ x.req \in Nat
                     /\ x.lo + 16 <= x.hi /\ x.hi <= t
      /\ \A x, y \in B : x = y \/ x.hi <= y.lo \/ y.hi <= x.lo
  BY <1>3, ApartFacts
<1>5. \A x \in B : NEXT_BLKP(m, x.lo) = x.hi
  BY <1>1, PointsAre
<1>6. \A y : y \in Walked(m, t) <=> y = t \/ \E x \in B : y = x.lo
  BY <1>1, WalkMeets DEF Points
<1>7. \A y : y \in Walked(m, t) \ {t} <=> \E x \in B : y = x.lo
  BY <1>4, <1>6
<1>8. ASSUME NEW x \in B PROVE Read(x.lo) = x
  <2>1. x.lo \in DOMAIN l => x.req > 0
    <3> SUFFICES ASSUME x.lo \in DOMAIN l PROVE x.req > 0
      OBVIOUS
    <3>1. PICK y \in P!Held(B) : y.lo = x.lo
      BY <1>1 DEF Holds
    <3>2. y \in B /\ y.req > 0
      BY DEF P!Held
    <3>3. y = x
      BY <1>4, <3>1, <3>2
    <3> QED
      BY <3>2, <3>3
  <2>2. x.req > 0 => x.lo \in DOMAIN l /\ l[x.lo] = x.req
    BY <1>1 DEF Holds, P!Held
  <2>3. x \in P!Block /\ x.req \in Nat
    BY <1>4
  <2>4. x.req = IF x.lo \in DOMAIN l THEN l[x.lo] ELSE 0
    BY <2>1, <2>2, <2>3
  <2>5. x = [lo |-> x.lo, hi |-> x.hi, req |-> x.req]
    BY <2>3 DEF P!Block
  <2>6. Read(x.lo) = [lo |-> x.lo, hi |-> x.hi, req |-> x.req]
    BY <1>5, <2>4
  <2> QED
    BY <2>5, <2>6
<1>9. BlocksOf(h, l) = {Read(bp) : bp \in Walked(m, t) \ {t}}
  BY DEF BlocksOf, m, t
<1> HIDE DEF Read
<1>10. BlocksOf(h, l) = B
  BY <1>7, <1>8, <1>9
<1> QED
  BY <1>2, <1>6, <1>10 DEF m, t

LEMMA Mapped ==
  /\ \A B : Stands(heap, live, B) => AbstractBlocks = B /\ Started
  /\ Dormant(heap, live) => AbstractBlocks = {} /\ ~Started
<1>1. ASSUME NEW B, Stands(heap, live, B) PROVE AbstractBlocks = B /\ Started
  <2>1. BlocksOf(heap, live) = B /\ heap.startp = "heap" /\ heap.listp
    BY <1>1, BlocksAre
  <2>2. Started
    BY <2>1 DEF Started
  <2>3. BlockPtrs = Walked(heap.mem, heap.brk) \ {heap.brk}
    BY <2>2 DEF BlockPtrs, Walk, Walked
  <2> QED
    BY <2>1, <2>2, <2>3 DEF AbstractBlocks, BlocksOf
<1>2. ASSUME Dormant(heap, live) PROVE AbstractBlocks = {} /\ ~Started
  BY <1>2 DEF Dormant, Started, AbstractBlocks, BlockPtrs
<1> QED
  BY <1>1, <1>2

LEMMA MappedNext ==
  /\ \A B : Stands(heap', live', B) => AbstractBlocks' = B /\ Started'
  /\ Dormant(heap', live') => AbstractBlocks' = {} /\ ~Started'
<1>1. ASSUME NEW B, Stands(heap', live', B) PROVE AbstractBlocks' = B /\ Started'
  <2>1. BlocksOf(heap', live') = B /\ heap'.startp = "heap" /\ heap'.listp
    BY <1>1, BlocksAre
  <2>2. Started'
    BY <2>1 DEF Started
  <2>3. BlockPtrs' = Walked(heap'.mem, heap'.brk) \ {heap'.brk}
    BY <2>2 DEF BlockPtrs, Walk, Walked
  <2> QED
    BY <2>1, <2>2, <2>3 DEF AbstractBlocks, BlocksOf
<1>2. ASSUME Dormant(heap', live') PROVE AbstractBlocks' = {} /\ ~Started'
  BY <1>2 DEF Dormant, Started, AbstractBlocks, BlockPtrs
<1> QED
  BY <1>1, <1>2

-----------------------------------------------------------------------------
\* Either there is no heap yet, or memory and break are those of a sound set
\* of blocks with its lists, and the client holds those that are not free.
IInv ==
  /\ client \in Clients /\ crashed \in BOOLEAN
  /\ Dormant(heap, live) \/ \E B : Stands(heap, live, B)

LEMMA InitIsInvariant == Init => IInv
<1> SUFFICES ASSUME Init PROVE IInv
  OBVIOUS
<1>1. heap = Idle("null", heap.listp) /\ heap.startp = "null" /\ heap.listp \in BOOLEAN
  BY DEF Init, Idle
<1>2. Dormant(heap, live)
  BY <1>1 DEF Init, Dormant
<1> QED
  BY <1>2 DEF Init, IInv

\* What stands after the step stands in the next state: the client is the same.
LEMMA NextIsInv ==
  ASSUME IInv, client' = client, crashed' \in BOOLEAN,
         Dormant(heap', live') \/ \E B : Stands(heap', live', B)
  PROVE  IInv'
<1>1. client' \in Clients
  BY DEF IInv
<1> QED
  BY <1>1 DEF IInv

-----------------------------------------------------------------------------
\* One step of each action, in terms of blocks.  A call of malloc works on the
\* heap h there is, or on one that mm_init makes first.
Base(h, B) ==
  /\ Stands(h, live, B)
  /\ h = heap \/ (Dormant(heap, live) /\ Fresh(B, h.brk))

Unserved(h) == live' = live /\ heap' = h

\* The client takes outcome c of a call.
Takes(c, size) ==
  /\ heap' = c.heap /\ crashed' \in BOOLEAN
  /\ live' = IF c.ptr \in {NULL, CRASH} THEN live ELSE With(live, c.ptr, size)

\* The client has been given size bytes at q, or nothing.
Serves(size, q) ==
  \/ Dormant(heap', live') /\ live' = live /\ Dormant(heap, live)
  \/ \E h, B : Base(h, B) /\ Unserved(h)
  \/ \E h, B, B1 :
       /\ Base(h, B) /\ size \in Sizes
       /\ q \notin DOMAIN live /\ live' = With(live, q, size)
       /\ Stands(heap', live', B1)
       /\ Keeps(h.mem, heap'.mem, P!Held(B))
       /\ Served(B, h.brk, B1, heap'.brk, size, q)

LEMMA Requested ==
  ASSUME IInv
  PROVE  /\ client.mallocs \subseteq Sizes /\ client.callocs \subseteq Sizes
         /\ client.reallocs \subseteq Sizes /\ client.words \subseteq UserWords
BY DEF IInv, Sizes, UserWords

LEMMA HasPointers ==
  ASSUME IInv, NEW p \in DOMAIN live
  PROVE  \E B : Stands(heap, live, B)
<1>1. live # <<>>
  OBVIOUS
<1> QED
  BY <1>1 DEF IInv, Dormant

LEMMA NewTraceStep ==
  ASSUME IInv, NewTrace
  PROVE  /\ live' = <<>> /\ crashed' \in BOOLEAN
         /\ Dormant(heap', live') \/ \E B : Stands(heap', live', B) /\ Fresh(B, heap'.brk)
<1> DEFINE h == [heap EXCEPT !.mem = <<>>, !.brk = 0]
<1>1. heap' \in mm_init(h) /\ live' = <<>> /\ crashed' \in BOOLEAN
  BY DEF NewTrace, IInv
<1>2. heap = [mem |-> heap.mem, brk |-> heap.brk, startp |-> heap.startp, listp |-> heap.listp]
      /\ heap.listp \in BOOLEAN
  <2>1. CASE Dormant(heap, live)
    BY <2>1 DEF Dormant, Idle
  <2>2. ASSUME NEW B, Stands(heap, live, B)
        PROVE  /\ heap = [mem |-> heap.mem, brk |-> heap.brk, startp |-> heap.startp,
                          listp |-> heap.listp]
               /\ heap.listp \in BOOLEAN
    <3>1. heap = Heap(heap.mem, heap.brk)
      BY <2>2 DEF Stands
    <3>2. heap.listp = Yes
      BY <3>1 DEF Heap
    <3>3. heap.listp \in BOOLEAN
      BY <3>2 DEF Yes
    <3>4. heap.startp = "heap"
      BY <3>1 DEF Heap
    <3> QED
      BY <3>1, <3>2, <3>3, <3>4 DEF Heap
  <2> QED
    BY <2>1, <2>2 DEF IInv
<1>3. [h EXCEPT !.startp = "failed"] = Idle("failed", heap.listp)
  <2> DEFINE k == heap.listp
             g == [mem |-> heap.mem, brk |-> heap.brk, startp |-> heap.startp, listp |-> k]
  <2>1. heap = g
    BY <1>2
  <2> HIDE DEF k
  <2>2. [[g EXCEPT !.mem = <<>>, !.brk = 0] EXCEPT !.startp = "failed"] = Idle("failed", k)
    <3> DEFINE e == [g EXCEPT !.mem = <<>>, !.brk = 0]
    <3>1. e = Idle(heap.startp, k)
      <4>1. e = [[g EXCEPT !.mem = <<>>] EXCEPT !.brk = 0]
        OBVIOUS
      <4>2. [g EXCEPT !.mem = <<>>] = [mem |-> <<>>, brk |-> heap.brk, startp |-> heap.startp, listp |-> k]
        OBVIOUS
      <4> HIDE DEF e, g
      <4> QED
        BY <4>1, <4>2 DEF Idle
    <3> HIDE DEF e
    <3>2. [e EXCEPT !.startp = "failed"] = Idle("failed", k)
      BY <3>1 DEF Idle
    <3> QED
      BY <3>2 DEF e
  <2> HIDE DEF g
  <2>3. h = [g EXCEPT !.mem = <<>>, !.brk = 0]
    BY <2>1
  <2> HIDE DEF h
  <2> QED
    BY <2>2, <2>3 DEF k
<1> HIDE DEF h
<1>4. CASE heap' = [h EXCEPT !.startp = "failed"]
  <2>1. heap' = Idle("failed", heap.listp)
    BY <1>3, <1>4
  <2>2. heap'.startp = "failed" /\ heap'.listp = heap.listp
    BY <2>1 DEF Idle
  <2>3. Dormant(heap', live')
    BY <1>1, <1>2, <2>1, <2>2 DEF Dormant
  <2> QED
    BY <1>1, <2>3
<1>5. CASE \E B : Stands(heap', <<>>, B) /\ Fresh(B, heap'.brk)
  BY <1>1, <1>5
<1> QED
  BY <1>1, <1>4, <1>5, InitStands

LEMMA MallocedServes ==
  ASSUME NEW h, NEW B, Base(h, B), NEW size \in Sizes, NEW c, Malloced(c, h, live, B, size),
         Takes(c, size)
  PROVE  Serves(size, c.ptr)
<1>1. CASE c.ptr = NULL /\ c.heap = h
  BY <1>1 DEF Takes, Serves, Unserved
<1>2. CASE /\ c.ptr \notin {NULL, CRASH} /\ c.ptr \notin DOMAIN live
           /\ \E B1 : /\ Stands(c.heap, With(live, c.ptr, size), B1)
                      /\ Keeps(h.mem, c.heap.mem, P!Held(B))
                      /\ Served(B, h.brk, B1, c.heap.brk, size, c.ptr)
  <2>1. live' = With(live, c.ptr, size) /\ heap' = c.heap
    BY <1>2 DEF Takes
  <2>2. PICK B1 : /\ Stands(heap', live', B1)
                  /\ Keeps(h.mem, heap'.mem, P!Held(B))
                  /\ Served(B, h.brk, B1, heap'.brk, size, c.ptr)
    BY <1>2, <2>1
  <2> QED
    BY <1>2, <2>1, <2>2 DEF Serves
<1> QED
  BY <1>1, <1>2 DEF Malloced

LEMMA DormantServes ==
  ASSUME Dormant(heap, live), NEW c, c.ptr \in {NULL, CRASH}, Dormant(c.heap, live), NEW size,
         Takes(c, size)
  PROVE  Serves(size, c.ptr) /\ live' = live
BY DEF Takes, Serves

LEMMA MallocStep ==
  ASSUME IInv, NEW size \in client.mallocs \cup {0}, Malloc(size)
  PROVE  crashed' \in BOOLEAN /\ \E q : Serves(size, q)
<1>1. PICK o \in malloc(heap, size) : Takes(o, size)
  BY DEF Malloc, Returns, Takes
<1>2. size \in Sizes \/ size = 0
  BY Requested
<1>3. ASSUME NEW h, NEW B, Base(h, B), o \in malloc(h, size) PROVE Serves(size, o.ptr)
  <2>1. Stands(h, live, B)
    BY <1>3 DEF Base
  <2>2. CASE size = 0
    <3>1. o.ptr = NULL /\ o.heap = h
      BY <1>3, <2>1, <2>2, MallocOfZero
    <3> QED
      BY <1>1, <1>3, <3>1 DEF Takes, Serves, Unserved
  <2>3. CASE size \in Sizes
    BY <1>1, <1>3, <2>1, <2>3, MallocStands, MallocedServes
  <2> QED
    BY <1>2, <2>2, <2>3
<1>4. ASSUME NEW B, Stands(heap, live, B) PROVE Serves(size, o.ptr)
  <2>1. Base(heap, B)
    BY <1>4 DEF Base
  <2> QED
    BY <1>3, <2>1
<1>5. ASSUME Dormant(heap, live) PROVE Serves(size, o.ptr)
  <2>1. CASE o.ptr \in {NULL, CRASH} /\ Dormant(o.heap, live)
    BY <1>1, <1>5, <2>1, DormantServes
  <2>2. ASSUME NEW g, NEW B, Stands(g, live, B), Fresh(B, g.brk), o \in malloc(g, size)
        PROVE  Serves(size, o.ptr)
    <3>1. Base(g, B)
      BY <1>5, <2>2 DEF Base
    <3> QED
      BY <1>3, <2>2, <3>1
  <2> QED
    BY <1>5, <2>1, <2>2, MallocFirst
<1> QED
  BY <1>1, <1>4, <1>5 DEF IInv, Takes

\* calloc serves as malloc does, and clears what it hands out.
LEMMA CallocStep ==
  ASSUME IInv, NEW size \in client.callocs, Calloc(1, size)
  PROVE  /\ crashed' \in BOOLEAN /\ size \in Sizes
         /\ \E q : /\ Serves(size, q)
                   /\ \/ live' = live
                      \/ live' = With(live, q, size) /\ Filling(heap'.mem, Region(q, size), 0)
<1>0. size \in Sizes /\ size \in Nat
  BY Requested, RequestsAre
<1>1. size \in Sizes /\ size \in Nat /\ 1 * size = size
  BY <1>0
<1>2. PICK c \in calloc(heap, 1, size) : Takes(c, size)
  BY <1>1 DEF Calloc, Returns, Takes
<1>3. PICK o \in malloc(heap, size) : Cleared(c, o, size)
  BY <1>1, <1>2 DEF calloc, Cleared
<1> DEFINE Good == /\ Serves(size, c.ptr)
                   /\ \/ live' = live
                      \/ /\ live' = With(live, c.ptr, size)
                         /\ Filling(heap'.mem, Region(c.ptr, size), 0)
<1>4. ASSUME NEW h, NEW B, Base(h, B), o \in malloc(h, size) PROVE Good
  <2>1. Stands(h, live, B)
    BY <1>4 DEF Base
  <2>2. /\ Malloced(c, h, live, B, size)
        /\ c.ptr # NULL => Filling(c.heap.mem, Region(c.ptr, size), 0)
    BY <1>1, <1>3, <1>4, <2>1, CallocStands
  <2>3. Serves(size, c.ptr)
    BY <1>1, <1>2, <1>4, <2>2, MallocedServes
  <2> QED
    BY <1>2, <2>2, <2>3 DEF Takes
<1>5. ASSUME NEW B, Stands(heap, live, B) PROVE Good
  <2>1. Base(heap, B)
    BY <1>5 DEF Base
  <2> QED
    BY <1>3, <1>4, <2>1
<1>6. ASSUME Dormant(heap, live) PROVE Good
  <2>1. CASE o.ptr \in {NULL, CRASH} /\ Dormant(o.heap, live)
    <3>1. c = o
      BY <1>3, <2>1 DEF Cleared
    <3> QED
      BY <1>2, <1>6, <2>1, <3>1, DormantServes
  <2>2. ASSUME NEW g, NEW B, Stands(g, live, B), Fresh(B, g.brk), o \in malloc(g, size)
        PROVE  Good
    <3>1. Base(g, B)
      BY <1>6, <2>2 DEF Base
    <3> HIDE DEF Good
    <3> QED
      BY <1>4, <2>2, <3>1
  <2> HIDE DEF Good
  <2> QED
    BY <1>3, <1>6, <2>1, <2>2, MallocFirst
<1>7. Good
  BY <1>5, <1>6 DEF IInv
<1> QED
  BY <1>1, <1>2, <1>7 DEF Takes

LEMMA FreeStep ==
  ASSUME IInv, NEW p \in DOMAIN live, Free(p)
  PROVE  \E B : \E x \in P!Held(B) :
           /\ Stands(heap, live, B) /\ x.lo = p
           /\ live' = Without(live, p) /\ Stands(heap', live', P!Release(B, x))
           /\ Keeps(heap.mem, heap'.mem, P!Held(B) \ {x})
           /\ heap'.brk = heap.brk /\ crashed' \in BOOLEAN
<1>1. PICK B : Stands(heap, live, B)
  BY HasPointers
<1>2. heap' = free(heap, p) /\ live' = Without(live, p) /\ crashed' \in BOOLEAN
  BY DEF Free, IInv
<1> QED
  BY <1>1, <1>2, FreeStands

\* The client has had the block at p moved to size bytes at q, or not.
Moves(B, p, size, q) ==
  \E x \in P!Held(B) : \E B1 :
    /\ x.lo = p /\ x.req = live[p] /\ q \notin DOMAIN live
    /\ live' = With(Without(live, p), q, size)
    /\ Stands(heap', live', P!Release(B1, x))
    /\ Keeps(heap.mem, heap'.mem, P!Held(B) \ {x})
    /\ Moved(heap'.mem, q, size, heap.mem, p, live[p])
    /\ Served(B, heap.brk, B1, heap'.brk, size, q)

LEMMA ReallocStep ==
  ASSUME IInv, NEW p \in DOMAIN live, NEW size \in client.reallocs, Realloc(p, size)
  PROVE  \E B :
           /\ Stands(heap, live, B) /\ crashed' \in BOOLEAN /\ size \in Sizes
           /\ Unserved(heap) \/ \E q : Moves(B, p, size, q)
<1>1. PICK B : Stands(heap, live, B)
  BY HasPointers
<1>2. PICK o \in realloc(heap, p, size) :
        /\ heap' = o.heap /\ crashed' \in BOOLEAN
        /\ live' = IF o.ptr \in {NULL, CRASH} THEN live ELSE With(Without(live, p), o.ptr, size)
  BY DEF Realloc, Returns
<1>3. size \in Sizes
  BY Requested
<1>4. ReallocMoves(o, heap, live, B, p, size)
  BY <1>1, <1>3, ReallocStands
<1>5. CASE o.ptr = NULL /\ o.heap = heap
  BY <1>1, <1>2, <1>3, <1>5 DEF Unserved
<1>6. CASE /\ o.ptr \notin {NULL, CRASH} /\ o.ptr \notin DOMAIN live
           /\ \E x \in P!Held(B) : \E B1 :
                /\ x.lo = p /\ x.req = live[p]
                /\ Stands(o.heap, With(Without(live, p), o.ptr, size), P!Release(B1, x))
                /\ Keeps(heap.mem, o.heap.mem, P!Held(B) \ {x})
                /\ Moved(o.heap.mem, o.ptr, size, heap.mem, p, live[p])
                /\ Served(B, heap.brk, B1, o.heap.brk, size, o.ptr)
  <2>1. live' = With(Without(live, p), o.ptr, size) /\ heap' = o.heap
    BY <1>2, <1>6
  <2>2. Moves(B, p, size, o.ptr)
    BY <1>6, <2>1 DEF Moves
  <2> QED
    BY <1>1, <1>2, <1>3, <2>2
<1> QED
  BY <1>4, <1>5, <1>6 DEF ReallocMoves

LEMMA WriteStep ==
  ASSUME IInv, NEW p \in DOMAIN live, NEW v \in client.words, Write(p, v)
  PROVE  \E B : \E x \in P!Held(B) :
           /\ Stands(heap, live, B) /\ x.lo = p /\ v \in UserWords
           /\ live' = live /\ Stands(heap', live', B) /\ heap'.brk = heap.brk
           /\ Filling(heap'.mem, Region(p, live[p]), v)
           /\ Keeps(heap.mem, heap'.mem, P!Held(B) \ {x}) /\ crashed' \in BOOLEAN
<1>1. PICK B : Stands(heap, live, B)
  BY HasPointers
<1>2. /\ heap' = Written(heap, live, p, v)
      /\ live' = live /\ crashed' \in BOOLEAN
  BY DEF Write, IInv, Written
<1>3. v \in UserWords
  BY Requested
<1> DEFINE g == heap'
<1>4. g = Written(heap, live, p, v)
  BY <1>2
<1> HIDE DEF g
<1>5. /\ Stands(g, live, B) /\ g.brk = heap.brk
      /\ Filling(g.mem, Region(p, live[p]), v)
      /\ Spares(heap, g, B, p)
  BY <1>1, <1>3, <1>4, WriteStands
<1> QED
  BY <1>1, <1>2, <1>3, <1>5 DEF g, Spares

-----------------------------------------------------------------------------
\* Whoever is served, the heap stands after the step.
LEMMA ServesStands ==
  ASSUME NEW size, NEW q, Serves(size, q)
  PROVE  Dormant(heap', live') \/ \E B : Stands(heap', live', B)
BY DEF Serves, Base, Unserved

LEMMA NextIsInvariant ==
  ASSUME IInv, [Next]_vars
  PROVE  IInv'
<1>1. CASE UNCHANGED vars
  BY <1>1, NextIsInv DEF vars, IInv
<1>2. CASE Next
  <2>1. client' = client
    BY <1>2 DEF Next
  <2>2. ASSUME NewTrace PROVE IInv'
    BY <2>1, <2>2, NewTraceStep, NextIsInv
  <2>3. ASSUME NEW size \in client.mallocs \cup {0}, Malloc(size) PROVE IInv'
    BY <2>1, <2>3, MallocStep, ServesStands, NextIsInv
  <2>4. ASSUME NEW size \in client.callocs, Calloc(1, size) PROVE IInv'
    BY <2>1, <2>4, CallocStep, ServesStands, NextIsInv
  <2>5. ASSUME NEW p \in DOMAIN live, Free(p) PROVE IInv'
    BY <2>1, <2>5, FreeStep, NextIsInv
  <2>6. ASSUME NEW p \in DOMAIN live, NEW size \in client.reallocs, Realloc(p, size)
        PROVE  IInv'
    <3>1. PICK B : /\ Stands(heap, live, B) /\ crashed' \in BOOLEAN
                   /\ Unserved(heap) \/ \E q : Moves(B, p, size, q)
      BY <2>6, ReallocStep
    <3>2. \E C : Stands(heap', live', C)
      BY <3>1 DEF Unserved, Moves
    <3> QED
      BY <2>1, <3>1, <3>2, NextIsInv
  <2>7. ASSUME NEW p \in DOMAIN live, NEW v \in client.words, Write(p, v) PROVE IInv'
    BY <2>1, <2>7, WriteStep, NextIsInv
  <2> QED
    BY <1>2, <2>2, <2>3, <2>4, <2>5, <2>6, <2>7 DEF Next
<1> QED
  BY <1>1, <1>2

\* Whatever the client does and whenever mem_sbrk fails, what the headers, the
\* footers and the free lists of mm.c say is a sound heap, the client's blocks
\* in it and every other block on the list of its size.
THEOREM HeapStands == Spec => []IInv
<1>1. IInv /\ [Next]_vars => IInv'
  BY NextIsInvariant
<1> QED
  BY InitIsInvariant, <1>1, PTL DEF Spec

-----------------------------------------------------------------------------
LEMMA TypeFollows ==
  ASSUME IInv
  PROVE  TypeOK
<1>1. CASE Dormant(heap, live)
  <2>1. /\ heap.mem = <<>> /\ heap.brk = 0 /\ live = <<>>
        /\ heap.startp \in {"null", "failed"} /\ heap.listp \in BOOLEAN
    BY <1>1 DEF Dormant, Idle
  <2>2. MaxHeap \in Nat
    BY WordsAssumption
  <2>3. DOMAIN <<>> = {} /\ WordsBelow(0) = {}
    BY DEF WordsBelow
  <2> QED
    BY <2>1, <2>2, <2>3 DEF TypeOK, IInv
<1>2. ASSUME NEW B, Stands(heap, live, B) PROVE TypeOK
  <2> DEFINE m == heap.mem
             t == heap.brk
  <2>1. Rep(m, t, B) /\ Holds(live, B) /\ heap.startp = "heap" /\ heap.listp
    BY <1>2, BlocksAre DEF Stands
  <2>2. heap.listp \in BOOLEAN
    <3>1. heap.listp = Yes
      BY <1>2 DEF Stands, Heap
    <3> QED
      BY <3>1 DEF Yes
  <2> HIDE DEF m, t
  <2>3. t \in 0 .. MaxHeap /\ Memory(m, t) /\ P!Sound(B, t)
    <3>1. t \in Nat /\ t <= MaxHeap /\ Stored(m, t, B, PrevOf(B)) /\ P!Sound(B, t)
      BY <2>1, RepFacts
    <3>2. Memory(m, t)
      BY <3>1 DEF Stored
    <3> QED
      BY <3>1, <3>2, WordsAssumption
  <2>4. DOMAIN m = WordsBelow(t) /\ \A a \in DOMAIN m : m[a] \in Nat
    BY <2>3 DEF Memory
  <2>5. \A p \in DOMAIN live : p \in Nat /\ live[p] \in Sizes
    BY <2>1, <2>3, HeldFacts DEF Holds
  <2> QED
    BY <2>1, <2>2, <2>3, <2>4, <2>5 DEF TypeOK, IInv, m, t
<1> QED
  BY <1>1, <1>2 DEF IInv

\* The bit that says whether the block before is allocated.
LEMMA PrevBitIs ==
  ASSUME NEW m, NEW t, NEW B, Rep(m, t, B), NEW a, a = t \/ (\E x \in B : x.lo = a)
  PROVE  GET_PREV_ALLOC(m[a - 4]) = PrevOf(B)[a]
<1>1. CASE \E x \in B : x.lo = a
  BY <1>1, HeaderIs
<1>2. CASE a = t
  <2>1. m[t - 4] = PACK(0, 1, PrevOf(B)[t]) /\ t \in Nat
    BY RepFacts DEF Stored
  <2>2. PrevOf(B)[t] \in {0, 1}
    BY <2>1, PrevIs
  <2> QED
    BY <1>2, <2>1, <2>2, PackIs
<1> QED
  BY <1>1, <1>2

\* What checkblock looks at, for one block of the heap.
LEMMA BlockPasses ==
  ASSUME NEW m, NEW t, NEW B, Rep(m, t, B), NEW x \in B
  PROVE  /\ x.lo % 8 = 0 /\ GET_SIZE(m[x.lo - 4]) >= MINBLOCK
         /\ GET_PREV_ALLOC(m[NEXT_BLKP(m, x.lo) - 4]) = GET_ALLOC(m[x.lo - 4])
         /\ GET_ALLOC(m[x.lo - 4]) = 0 => /\ m[FTRP(m, x.lo)] = m[x.lo - 4]
                                           /\ GET_ALLOC(m[NEXT_BLKP(m, x.lo) - 4]) = 1
<1>1. /\ P!Sound(B, t) /\ Apart(B, t) /\ Stored(m, t, B, PrevOf(B))
  BY RepFacts
<1>2. /\ \A y \in B : /\ y.lo \in Nat /\ y.hi \in Nat /\ y.req \in Nat
                      /\ y.lo + 16 <= y.hi /\ y.lo % 8 = 0
      /\ \A y, z \in B : y = z \/ y.hi <= z.lo \/ z.hi <= y.lo
  BY <1>1, ApartFacts
<1>3. /\ GET_SIZE(m[x.lo - 4]) = x.hi - x.lo
      /\ GET_ALLOC(m[x.lo - 4]) = Alloc(x)
  BY HeaderIs
<1>4. NEXT_BLKP(m, x.lo) = x.hi /\ MINBLOCK = 16
  BY PointsAre, StartIs
<1>5. x.hi = t \/ \E y \in B : y.lo = x.hi
  BY <1>1, SoundFacts
<1>6. GET_PREV_ALLOC(m[x.hi - 4]) = PrevOf(B)[x.hi]
  BY <1>5, PrevBitIs
<1>7. PrevOf(B)[x.hi] = Alloc(x)
  <2>1. \A y \in B : y.hi = x.hi => y = x
    BY <1>2
  <2>2. PrevOf(B)[x.hi] = IF \E y \in B : y.req = 0 /\ y.hi = x.hi THEN 0 ELSE 1
    BY <1>2 DEF PrevOf
  <2> QED
    BY <2>1, <2>2 DEF Alloc
<1>8. ASSUME x.req = 0 PROVE m[FTRP(m, x.lo)] = m[x.lo - 4]
  <2>1. FTRP(m, x.lo) = x.hi - 8
    BY <1>2, <1>3 DEF FTRP
  <2>2. m[x.lo - 4] = Word(x, PrevOf(B)) /\ m[x.hi - 8] = Word(x, PrevOf(B))
    BY <1>1, <1>8 DEF Stored, Tagged
  <2> QED
    BY <2>1, <2>2
<1>9. Alloc(x) = 0 => x.req = 0
  BY DEF Alloc
<1>10. ASSUME x.req = 0 PROVE GET_ALLOC(m[x.hi - 4]) = 1
  <2>1. CASE x.hi = t
    <3>1. m[t - 4] = PACK(0, 1, PrevOf(B)[t])
      BY <1>1 DEF Stored
    <3>2. PrevOf(B)[t] \in {0, 1}
      BY <1>1, RepFacts, PrevIs
    <3> QED
      BY <2>1, <3>1, <3>2, PackIs
  <2>2. ASSUME NEW y \in B, y.lo = x.hi PROVE GET_ALLOC(m[x.hi - 4]) = 1
    <3>1. y.req # 0
      BY <1>1, <1>10, <2>2, SoundFacts
    <3>2. GET_ALLOC(m[y.lo - 4]) = Alloc(y)
      BY HeaderIs
    <3> QED
      BY <2>2, <3>1, <3>2 DEF Alloc
  <2> QED
    BY <1>5, <2>1, <2>2
<1> QED
  BY <1>2, <1>3, <1>4, <1>6, <1>7, <1>8, <1>9, <1>10

\* The state of a heap that has been started: its blocks are those walked.
LEMMA StartedStands ==
  ASSUME IInv, Started
  PROVE  \E B : /\ Stands(heap, live, B) /\ Rep(heap.mem, heap.brk, B)
                /\ \A y : y \in Walk <=> y = heap.brk \/ \E x \in B : y = x.lo
                /\ \A y : y \in BlockPtrs <=> \E x \in B : y = x.lo
<1>1. PICK B : Stands(heap, live, B)
  BY Mapped DEF IInv
<1>2. \A y : y \in Walk <=> y = heap.brk \/ \E x \in B : y = x.lo
  <2>1. \A y : y \in Walked(heap.mem, heap.brk) <=> y = heap.brk \/ \E x \in B : y = x.lo
    BY <1>1, BlocksAre
  <2>2. Walk = Walked(heap.mem, heap.brk)
    BY DEF Walk, Walked
  <2> QED
    BY <2>1, <2>2
<1>3. Rep(heap.mem, heap.brk, B)
  BY <1>1 DEF Stands
<1> DEFINE t == heap.brk
<1> HIDE DEF t
<1>4. \A x \in B : x.lo # t
  <2>1. Apart(B, t) /\ t \in Nat
    BY <1>3, RepFacts DEF t
  <2>2. \A x \in B : x.lo \in Nat /\ x.hi \in Nat /\ x.lo + 16 <= x.hi /\ x.hi <= t
    BY <2>1, ApartFacts
  <2> QED
    BY <2>1, <2>2
<1>5. \A y : y \in BlockPtrs <=> \E x \in B : y = x.lo
  BY <1>2, <1>4 DEF BlockPtrs, t
<1> QED
  BY <1>1, <1>2, <1>3, <1>5

LEMMA ConsistencyFollows ==
  ASSUME IInv
  PROVE  HeapIsConsistent
<1> SUFFICES ASSUME Started
             PROVE  /\ Header(HEAP_START - 8) = PACK(8, 1, 1)
                    /\ Header(HEAP_START - 4) = PACK(8, 1, 1)
                    /\ heap.brk \in Walk /\ GET_SIZE(Header(heap.brk)) = 0
                    /\ ~IsFree(heap.brk)
                    /\ GET_PREV_ALLOC(Header(HEAP_START)) = 1
                    /\ \A bp \in BlockPtrs :
                         /\ bp % 8 = 0 /\ GET_SIZE(Header(bp)) >= MINBLOCK
                         /\ GET_PREV_ALLOC(Header(NEXT_BLKP(heap.mem, bp))) = GET_ALLOC(Header(bp))
                         /\ IsFree(bp) => /\ heap.mem[FTRP(heap.mem, bp)] = Header(bp)
                                          /\ ~IsFree(NEXT_BLKP(heap.mem, bp))
  BY TypeFollows DEF HeapIsConsistent
<1>1. PICK B : /\ Rep(heap.mem, heap.brk, B)
               /\ \A y : y \in Walk <=> y = heap.brk \/ \E x \in B : y = x.lo
               /\ \A y : y \in BlockPtrs <=> \E x \in B : y = x.lo
  BY StartedStands
<1> DEFINE m == heap.mem
           t == heap.brk
<1> HIDE DEF m, t
<1>2. Rep(m, t, B)
  BY <1>1 DEF m, t
<1>3. \A a : Header(a) = m[a - 4]
  BY DEF Header, m
<1>4. /\ P!Sound(B, t) /\ Apart(B, t) /\ Stored(m, t, B, PrevOf(B))
      /\ t \in Nat /\ t >= HEAP_START /\ HEAP_START \in Nat
  BY <1>2, RepFacts, StartIs
<1>5. m[HEAP_START - 12] = 11 /\ m[HEAP_START - 8] = 11 /\ m[t - 4] = PACK(0, 1, PrevOf(B)[t])
  BY <1>4 DEF Stored
<1>6. PACK(8, 1, 1) = 11
  BY DEF PACK
<1>7. (HEAP_START - 8) - 4 = HEAP_START - 12 /\ (HEAP_START - 4) - 4 = HEAP_START - 8
  BY <1>4
<1>8. GET_SIZE(m[t - 4]) = 0 /\ GET_ALLOC(m[t - 4]) = 1
  <2>1. PrevOf(B)[t] \in {0, 1}
    BY <1>4, PrevIs
  <2> QED
    BY <1>5, <2>1, PackIs
<1>9. GET_PREV_ALLOC(m[HEAP_START - 4]) = 1
  <2>1. t = HEAP_START \/ \E x \in B : x.lo = HEAP_START
    BY <1>4, SoundFacts
  <2>2. GET_PREV_ALLOC(m[HEAP_START - 4]) = PrevOf(B)[HEAP_START]
    BY <1>2, <2>1, PrevBitIs
  <2>3. \A x \in B : x.lo \in Nat /\ x.hi \in Nat /\ HEAP_START <= x.lo /\ x.lo + 16 <= x.hi
    BY <1>4, ApartFacts
  <2>4. PrevOf(B)[HEAP_START] = 1
    BY <1>4, <2>3 DEF PrevOf
  <2> QED
    BY <2>2, <2>4
<1>10. ASSUME NEW x \in B
       PROVE  /\ x.lo % 8 = 0 /\ GET_SIZE(Header(x.lo)) >= MINBLOCK
              /\ GET_PREV_ALLOC(Header(NEXT_BLKP(m, x.lo))) = GET_ALLOC(Header(x.lo))
              /\ IsFree(x.lo) => /\ m[FTRP(m, x.lo)] = Header(x.lo)
                                 /\ ~IsFree(NEXT_BLKP(m, x.lo))
  BY <1>2, <1>3, BlockPasses DEF IsFree
<1> QED
  BY <1>1, <1>3, <1>5, <1>6, <1>7, <1>8, <1>9, <1>10 DEF IsFree, m, t

\* Whatever was split, merged, relinked, moved or written by the client, a call
\* of mm.c leaves a heap whose prologue and epilogue stand, where footers of
\* free blocks agree with headers, each header knows whether the block before
\* it is allocated, and no two free blocks follow each other.
THEOREM HeapStaysConsistent == Spec => []HeapIsConsistent
<1>1. IInv => HeapIsConsistent
  BY ConsistencyFollows
<1> QED
  BY HeapStands, <1>1, PTL

-----------------------------------------------------------------------------
\* The list at a root: its blocks, and the PRED field of each.
Listed(m, B, i, chain) ==
  /\ \A y : y \in chain \ {0} <=> \E x \in Class(B, Root(i)) : y = x.lo
  /\ \A y \in chain \ {0} : m[y + 4] \in chain \cup {Root(i)} /\ m[m[y + 4]] = y

LEMMA ChainHolds ==
  ASSUME NEW m, NEW t, NEW B, Rep(m, t, B), NEW i \in 0 .. N_SEGLIST - 1,
         NEW chain, chain = {0} \cup {x.lo : x \in Class(B, Root(i))}
  PROVE  Listed(m, B, i, chain)
<1>1. Apart(B, t) /\ Lists(m, B)
  BY RepFacts
<1>2. \A x \in B : x.lo \in Nat /\ x.lo > 0
  BY <1>1, ApartFacts, StartIs
<1>3. \A x \in Class(B, Root(i)) : x \in B /\ x.req = 0 /\ get_root(x.hi - x.lo) = Root(i)
  BY DEF Class
<1>4. \A y : y \in chain \ {0} <=> \E x \in Class(B, Root(i)) : y = x.lo
  BY <1>2, <1>3
<1>5. PICK cls, rk, n : /\ Linked(m, Frees(B), cls, rk, n)
                        /\ \A x \in B : x.req = 0 => cls[x.lo] = get_root(x.hi - x.lo)
  BY <1>1 DEF Lists
<1>6. ASSUME NEW x \in Class(B, Root(i))
      PROVE  m[x.lo + 4] \in chain \cup {Root(i)} /\ m[m[x.lo + 4]] = x.lo
  <2>1. x.lo \in Frees(B) /\ cls[x.lo] = Root(i)
    BY <1>3, <1>5 DEF Frees
  <2>2. PredIn(m, Frees(B), cls, x.lo) /\ \A r \in Roots : cls[r] = r
    BY <1>5, <2>1 DEF Linked
  <2>3. /\ m[x.lo + 4] \in Frees(B) \cup Roots /\ m[m[x.lo + 4]] = x.lo
        /\ cls[m[x.lo + 4]] = Root(i)
    BY <2>1, <2>2 DEF PredIn
  <2>4. CASE m[x.lo + 4] \in Roots
    BY <2>2, <2>3, <2>4
  <2>5. CASE m[x.lo + 4] \in Frees(B)
    <3>1. PICK y \in B : y.req = 0 /\ y.lo = m[x.lo + 4]
      BY <2>5 DEF Frees
    <3>2. y \in Class(B, Root(i))
      BY <1>5, <2>3, <3>1 DEF Class
    <3> QED
      BY <2>3, <3>1, <3>2
  <2> QED
    BY <2>3, <2>4, <2>5
<1> QED
  BY <1>4, <1>6 DEF Listed

LEMMA ListsFollow ==
  ASSUME IInv
  PROVE  ListsHoldTheFreeBlocks
<1> SUFFICES ASSUME Started, NEW i \in 0 .. N_SEGLIST - 1, NEW chain, chain = Chain(Root(i))
             PROVE  /\ 0 \in chain
                    /\ chain \ {0} = {bp \in BlockPtrs :
                                        IsFree(bp) /\ LevelHolds(i, GET_SIZE(Header(bp)))}
                    /\ \A bp \in chain \ {0} :
                         heap.mem[bp + 4] \in chain \cup {Root(i)} /\ heap.mem[heap.mem[bp + 4]] = bp
  BY DEF ListsHoldTheFreeBlocks
<1>1. PICK B : /\ Rep(heap.mem, heap.brk, B)
               /\ \A y : y \in BlockPtrs <=> \E x \in B : y = x.lo
  BY StartedStands
<1> DEFINE m == heap.mem
           t == heap.brk
           at == Search(m, Root(i), MaxHeap + 1)
<1>2. Root(i) \in Roots
  BY DEF Roots
<1>3. chain = {at[n] : n \in DOMAIN at}
  BY DEF Chain
<1> HIDE DEF m, t, at
<1>4. Rep(m, t, B)
  BY <1>1 DEF m, t
<1>5. chain = {0} \cup {x.lo : x \in Class(B, Root(i))}
  <2>1. at = Search(m, Root(i), MaxHeap + 1)
    BY DEF at
  <2> QED
    BY <1>2, <1>3, <1>4, <2>1, ChainIs
<1>6. /\ \A y : y \in chain \ {0} <=> \E x \in Class(B, Root(i)) : y = x.lo
      /\ \A y \in chain \ {0} : m[y + 4] \in chain \cup {Root(i)} /\ m[m[y + 4]] = y
  <2>1. Listed(m, B, i, chain)
    BY <1>4, <1>5, ChainHolds
  <2> QED
    BY <2>1 DEF Listed
<1>7. ASSUME NEW x \in B
      PROVE  x \in Class(B, Root(i)) <=> IsFree(x.lo) /\ LevelHolds(i, GET_SIZE(Header(x.lo)))
  <2>1. /\ GET_SIZE(Header(x.lo)) = x.hi - x.lo
        /\ GET_ALLOC(Header(x.lo)) = Alloc(x)
    BY <1>4, HeaderIs DEF Header, m
  <2>2. IsFree(x.lo) <=> x.req = 0
    BY <2>1 DEF IsFree, Alloc
  <2>3. x.hi - x.lo \in Nat /\ x.hi - x.lo >= 16
    BY <1>4, RepFacts, RootOf
  <2>4. LevelHolds(i, x.hi - x.lo) <=> get_root(x.hi - x.lo) = Root(i)
    BY <2>3, LevelIs
  <2> QED
    BY <2>1, <2>2, <2>4 DEF Class
<1>8. ASSUME NEW x \in B, NEW y \in B, x.lo = y.lo PROVE x = y
  BY <1>4, <1>8, RepFacts, HeldApart
<1> DEFINE Fit(bp) == IsFree(bp) /\ LevelHolds(i, GET_SIZE(Header(bp)))
<1>9. \A x \in B : x \in Class(B, Root(i)) <=> Fit(x.lo)
  BY <1>7
<1>10. \A x \in Class(B, Root(i)) : x \in B
  BY DEF Class
<1>11. chain \ {0} = {bp \in BlockPtrs : Fit(bp)}
  <2> HIDE DEF Fit
  <2>1. \A y : y \in chain \ {0} <=> y \in BlockPtrs /\ Fit(y)
    BY <1>1, <1>6, <1>8, <1>9, <1>10
  <2> QED
    BY <2>1
<1> QED
  BY <1>5, <1>6, <1>11 DEF m

\* After any calls the segregated lists of mm.c pass check_list: each ends at
\* tail, its SUCC and PRED fields agree, it holds blocks of its size class
\* only, and every free block of the heap is on the list of its class once.
THEOREM ListsStayComplete == Spec => []ListsHoldTheFreeBlocks
<1>1. IInv => ListsHoldTheFreeBlocks
  BY ListsFollow
<1> QED
  BY HeapStands, <1>1, PTL

-----------------------------------------------------------------------------
\* The memory calloc hands out reads as zeros, whether its block is fresh, was
\* freed with its list fields in it, or is cut from a larger one (mm.c calloc).
THEOREM CallocAlwaysZeroes == Spec => CallocZeroes
<1> DEFINE Zeroes == \A size \in client.callocs : Calloc(1, size) =>
                       \A p \in DOMAIN live' \ DOMAIN live :
                         \A a \in Region(p, size) : heap'.mem[a] = 0
<1>1. ASSUME IInv PROVE Zeroes
  <2> SUFFICES ASSUME NEW size \in client.callocs, Calloc(1, size),
                      NEW p \in DOMAIN live' \ DOMAIN live, NEW a \in Region(p, size)
               PROVE  heap'.mem[a] = 0
    OBVIOUS
  <2>1. PICK q : \/ live' = live
                 \/ live' = With(live, q, size) /\ Filling(heap'.mem, Region(q, size), 0)
    BY <1>1, CallocStep
  <2>2. p = q /\ Filling(heap'.mem, Region(q, size), 0)
    BY <2>1 DEF With
  <2> QED
    BY <2>2 DEF Filling
<1>2. IInv /\ [Next]_vars => [Zeroes]_vars
  BY <1>1
<1> HIDE DEF Zeroes
<1>3. Spec => [][Zeroes]_vars
  BY <1>2, HeapStands, PTL DEF Spec
<1> QED
  BY <1>3 DEF CallocZeroes, Zeroes

-----------------------------------------------------------------------------
\* The specification this heap implements has the operators proved about.
LEMMA SameOperators ==
  ASSUME NEW B, NEW lo, NEW hi, NEW b, NEW x, NEW asize, NEW size, NEW t, NEW more
  PROVE  /\ BH!Coalesce(B, lo, hi) = P!Coalesce(B, lo, hi)
         /\ BH!Place(B, b, asize, size) = P!Place(B, b, asize, size)
         /\ BH!Release(B, x) = P!Release(B, x)
         /\ BH!Fits(B, asize) = P!Fits(B, asize)
         /\ BH!Growth(B, asize) = P!Growth(B, asize)
         /\ BH!Grown(B, t, more) = P!Grown(B, t, more)
         /\ BH!EmptyHeap = P!EmptyHeap /\ BH!FirstHeap = P!FirstHeap
<1>1. \A C, l, h : BH!Coalesce(C, l, h) = P!Coalesce(C, l, h)
  BY DEF BH!Coalesce, BH!Left, BH!Right, P!Coalesce, P!Left, P!Right
<1>2. BH!Place(B, b, asize, size) = P!Place(B, b, asize, size)
  BY <1>1 DEF BH!Place, BH!Length, BH!MINBLOCK, P!Place, P!Length, P!MINBLOCK
<1>3. BH!Release(B, x) = P!Release(B, x)
  BY <1>1 DEF BH!Release, P!Release
<1>4. BH!Fits(B, asize) = P!Fits(B, asize)
  BY DEF BH!Fits, BH!Length, P!Fits, P!Length
<1>5. BH!Growth(B, asize) = P!Growth(B, asize)
  BY <1>4 DEF BH!Growth, P!Growth
<1>6. BH!Grown(B, t, more) = P!Grown(B, t, more)
  BY <1>1 DEF BH!Grown, P!Grown
<1>7. BH!EmptyHeap = P!EmptyHeap /\ BH!FirstHeap = P!FirstHeap
  BY <1>1 DEF BH!EmptyHeap, BH!FirstHeap, P!EmptyHeap, P!FirstHeap
<1> QED
  BY <1>1, <1>2, <1>3, <1>4, <1>5, <1>6, <1>7

\* The abstract state: the blocks and the break.
Shows(B, t)     == AbstractBlocks = B /\ (IF Started THEN heap.brk ELSE 0) = t
ShowsNext(B, t) == AbstractBlocks' = B /\ (IF Started' THEN heap'.brk ELSE 0) = t

LEMMA Shown ==
  /\ \A B : Stands(heap, live, B) => Shows(B, heap.brk)
  /\ Dormant(heap, live) => Shows({}, 0)
  /\ \A B, l : l = live' /\ Stands(heap', l, B) => ShowsNext(B, heap'.brk)
  /\ Dormant(heap', live') => ShowsNext({}, 0)
BY Mapped, MappedNext DEF Shows, ShowsNext

\* The heap malloc works on is one of those BlockHeap works on.
LEMMA BaseIsStarted ==
  ASSUME NEW h, NEW B, Base(h, B)
  PROVE  [blocks |-> B, top |-> h.brk] \in BH!Started /\ P!Sound(B, h.brk)
<1>1. P!Sound(B, h.brk) /\ h.brk \in Nat /\ h.brk >= HEAP_START
  BY RepFacts DEF Base, Stands
<1>2. CASE h = heap
  <2>1. Shows(B, h.brk)
    BY <1>2, Shown DEF Base
  <2>2. h.brk # 0
    BY <1>1, StartIs
  <2> QED
    BY <1>1, <2>1, <2>2 DEF Shows, BH!Started
<1>3. CASE Dormant(heap, live) /\ Fresh(B, h.brk)
  <2>1. Shows({}, 0)
    BY <1>3, Shown
  <2>2. PICK e \in {P!EmptyHeap, P!FirstHeap} : B = e.blocks /\ h.brk = e.top
    BY <1>3 DEF Fresh
  <2>3. e = [blocks |-> B, top |-> h.brk]
    BY <2>2 DEF P!EmptyHeap, P!FirstHeap
  <2>4. BH!Started = {P!EmptyHeap, P!FirstHeap}
    BY <2>1, SameOperators DEF Shows, BH!Started
  <2> QED
    BY <1>1, <2>2, <2>3, <2>4
<1> QED
  BY <1>2, <1>3 DEF Base

LEMMA FreshStep ==
  ASSUME NEW B, Fresh(B, heap'.brk), ShowsNext(B, heap'.brk)
  PROVE  BH!NewTrace
BY SameOperators DEF Fresh, ShowsNext, BH!NewTrace

LEMMA ServedStep ==
  ASSUME NEW h, NEW B, Base(h, B), NEW size \in Sizes, NEW q, NEW B1,
         Stands(heap', live', B1), Served(B, h.brk, B1, heap'.brk, size, q)
  PROVE  BH!Malloc(size)
<1> DEFINE asize == AdjustedSize(size)
           e     == [blocks |-> B, top |-> h.brk]
           more  == P!Growth(B, asize)
           grown == P!Grown(B, h.brk, more)
<1>1. e \in BH!Started
  BY BaseIsStarted
<1>2. heap'.brk = h.brk + more /\ \E b \in P!Fits(grown, asize) : B1 = P!Place(grown, b, asize, size)
  BY DEF Served
<1>3. heap'.brk <= MaxHeap
  BY DEF Stands, Rep
<1>4. ShowsNext(B1, heap'.brk)
  BY Shown
<1>5. e.blocks = B /\ e.top = h.brk
  OBVIOUS
<1> HIDE DEF e
<1>6. /\ e.top + BH!Growth(e.blocks, asize) <= MaxHeap
      /\ (IF Started' THEN heap'.brk ELSE 0) = e.top + BH!Growth(e.blocks, asize)
      /\ \E b \in BH!Fits(BH!Grown(e.blocks, e.top, BH!Growth(e.blocks, asize)), asize) :
           AbstractBlocks' = BH!Place(BH!Grown(e.blocks, e.top, BH!Growth(e.blocks, asize)),
                                      b, asize, size)
  <2>1. BH!Growth(e.blocks, asize) = more
    BY <1>5, SameOperators
  <2>2. BH!Grown(e.blocks, e.top, more) = grown
    BY <1>5, SameOperators
  <2> HIDE DEF more, grown, asize
  <2>3. BH!Fits(grown, asize) = P!Fits(grown, asize)
    BY SameOperators
  <2>4. \A b : BH!Place(grown, b, asize, size) = P!Place(grown, b, asize, size)
    BY SameOperators
  <2> QED
    BY <1>2, <1>3, <1>4, <1>5, <2>1, <2>2, <2>3, <2>4 DEF ShowsNext
<1> QED
  BY <1>1, <1>6 DEF BH!Malloc

LEMMA ServedThenReleased ==
  ASSUME NEW B, Stands(heap, live, B), NEW size \in Sizes, NEW q, NEW B1,
         NEW x \in P!Held(B), Stands(heap', live', P!Release(B1, x)),
         Served(B, heap.brk, B1, heap'.brk, size, q)
  PROVE  BH!Realloc(x, size)
<1> DEFINE asize == AdjustedSize(size)
           t     == heap.brk
           more  == P!Growth(B, asize)
           grown == P!Grown(B, t, more)
<1>1. Shows(B, t) /\ ShowsNext(P!Release(B1, x), heap'.brk)
  BY Shown
<1>2. heap'.brk = t + more /\ \E b \in P!Fits(grown, asize) : B1 = P!Place(grown, b, asize, size)
  BY DEF Served
<1>3. heap'.brk <= MaxHeap
  BY DEF Stands, Rep
<1>4. x \in B /\ x.req > 0
  BY DEF P!Held
<1>5. BH!Growth(B, asize) = more /\ BH!Grown(B, t, more) = grown
  BY SameOperators
<1> HIDE DEF more, grown, asize, t
<1>6. BH!Fits(grown, asize) = P!Fits(grown, asize)
  BY SameOperators
<1>7. \A b : BH!Place(grown, b, asize, size) = P!Place(grown, b, asize, size)
  BY SameOperators
<1>8. \A C : BH!Release(C, x) = P!Release(C, x)
  BY SameOperators
<1>9. AbstractBlocks = B /\ (IF Started THEN heap.brk ELSE 0) = t
  BY <1>1 DEF Shows
<1>10. AbstractBlocks' = P!Release(B1, x) /\ (IF Started' THEN heap'.brk ELSE 0) = heap'.brk
  BY <1>1 DEF ShowsNext
<1>11. PICK b \in P!Fits(grown, asize) : B1 = P!Place(grown, b, asize, size)
  BY <1>2
<1>12. AbstractBlocks' = BH!Release(BH!Place(grown, b, asize, size), x)
  BY <1>7, <1>8, <1>10, <1>11
<1> QED
  BY <1>2, <1>3, <1>4, <1>5, <1>6, <1>9, <1>10, <1>12 DEF BH!Realloc, asize

LEMMA ServesImplements ==
  ASSUME IInv, NEW size, NEW q, Serves(size, q)
  PROVE  BH!Next \/ (Shows(AbstractBlocks, IF Started THEN heap.brk ELSE 0) /\
                     ShowsNext(AbstractBlocks, IF Started THEN heap.brk ELSE 0))
<1> DEFINE Same == Shows(AbstractBlocks, IF Started THEN heap.brk ELSE 0) /\
                   ShowsNext(AbstractBlocks, IF Started THEN heap.brk ELSE 0)
<1>1. \A B, t : Shows(B, t) /\ ShowsNext(B, t) => Same
  BY DEF Shows, ShowsNext
<1> HIDE DEF Same
<1>2. CASE Dormant(heap, live) /\ Dormant(heap', live')
  <2>1. Same
    BY <1>1, <1>2, Shown
  <2> QED
    BY <2>1 DEF Same
<1>3. ASSUME NEW h, NEW B, Base(h, B), Unserved(h) PROVE BH!Next \/ Same
  <2>1. ShowsNext(B, h.brk) /\ heap'.brk = h.brk
    BY <1>3, Shown DEF Unserved, Base
  <2>2. CASE h = heap
    BY <1>1, <1>3, <2>1, <2>2, Shown DEF Base
  <2>3. CASE Fresh(B, h.brk)
    BY <2>1, <2>3, FreshStep DEF BH!Next
  <2> QED
    BY <1>3, <2>2, <2>3 DEF Base
<1>4. ASSUME NEW h, NEW B, NEW B1, Base(h, B), size \in Sizes,
             Stands(heap', live', B1), Served(B, h.brk, B1, heap'.brk, size, q)
      PROVE  BH!Next
  <2>1. BH!Malloc(size)
    BY <1>4, ServedStep
  <2> QED
    BY <1>4, <2>1 DEF BH!Next
<1> QED
  BY <1>2, <1>3, <1>4 DEF Serves, Same

LEMMA StepImplements ==
  ASSUME IInv, [Next]_vars
  PROVE  [BH!Next]_(BH!vars)
<1> DEFINE Same == AbstractBlocks' = AbstractBlocks
                   /\ (IF Started' THEN heap'.brk ELSE 0) = (IF Started THEN heap.brk ELSE 0)
<1>1. Same => UNCHANGED BH!vars
  BY DEF BH!vars
<1>2. \A B, t : Shows(B, t) /\ ShowsNext(B, t) => Same
  BY DEF Shows, ShowsNext
<1>3. CASE UNCHANGED vars
  BY <1>1, <1>3 DEF vars, AbstractBlocks, BlockPtrs, Walk, Started
<1> HIDE DEF Same
<1>4. ASSUME NewTrace PROVE BH!Next
  <2>1. CASE Dormant(heap', live')
    BY <2>1, Shown DEF ShowsNext, BH!NewTrace, BH!Next
  <2>2. CASE \E B : Stands(heap', live', B) /\ Fresh(B, heap'.brk)
    BY <2>2, Shown, FreshStep DEF BH!Next
  <2> QED
    BY <1>4, <2>1, <2>2, NewTraceStep
<1>5. ASSUME NEW size \in client.mallocs \cup {0}, Malloc(size) PROVE BH!Next \/ Same
  BY <1>2, <1>5, MallocStep, ServesImplements
<1>6. ASSUME NEW size \in client.callocs, Calloc(1, size) PROVE BH!Next \/ Same
  BY <1>2, <1>6, CallocStep, ServesImplements
<1>7. ASSUME NEW p \in DOMAIN live, Free(p) PROVE BH!Next
  <2>1. PICK B : \E x \in P!Held(B) :
           /\ Stands(heap, live, B) /\ Stands(heap', live', P!Release(B, x))
           /\ heap'.brk = heap.brk
    BY <1>7, FreeStep
  <2>2. PICK x \in P!Held(B) :
           /\ Stands(heap, live, B) /\ Stands(heap', live', P!Release(B, x))
           /\ heap'.brk = heap.brk
    BY <2>1
  <2>3. Shows(B, heap.brk) /\ ShowsNext(P!Release(B, x), heap.brk)
    BY <2>2, Shown
  <2>4. x \in B /\ x.req > 0 /\ BH!Release(B, x) = P!Release(B, x)
    BY SameOperators DEF P!Held
  <2>5. x \in AbstractBlocks /\ BH!Free(x)
    BY <2>3, <2>4 DEF Shows, ShowsNext, BH!Free
  <2> QED
    BY <2>5 DEF BH!Next
<1>8. ASSUME NEW p \in DOMAIN live, NEW size \in client.reallocs, Realloc(p, size)
      PROVE  BH!Next \/ Same
  <2>1. PICK B : /\ Stands(heap, live, B) /\ size \in Sizes
                 /\ Unserved(heap) \/ \E q : Moves(B, p, size, q)
    BY <1>8, ReallocStep
  <2>2. CASE Unserved(heap)
    BY <1>2, <2>1, <2>2, Shown DEF Unserved
  <2>3. ASSUME NEW q, Moves(B, p, size, q) PROVE BH!Next
    <3>1. PICK x \in P!Held(B) : \E B1 :
             /\ Stands(heap', live', P!Release(B1, x))
             /\ Served(B, heap.brk, B1, heap'.brk, size, q)
      BY <2>3 DEF Moves
    <3>2. BH!Realloc(x, size)
      BY <2>1, <3>1, ServedThenReleased
    <3>3. x \in AbstractBlocks
      BY <2>1, Shown DEF Shows, P!Held
    <3> QED
      BY <2>1, <3>2, <3>3 DEF BH!Next
  <2> QED
    BY <2>1, <2>2, <2>3
<1>9. ASSUME NEW p \in DOMAIN live, NEW v \in client.words, Write(p, v) PROVE Same
  BY <1>2, <1>9, WriteStep, Shown
<1>10. CASE Next
  BY <1>1, <1>4, <1>5, <1>6, <1>7, <1>8, <1>9, <1>10 DEF Next
<1> QED
  BY <1>3, <1>10

\* Headers, footers and lists implement BlockHeap: every call splits, merges
\* and grows as it does, and the heap grows only when no free block anywhere
\* fits (mm.c malloc, free, realloc, calloc, find_fit, place, coalesce).
THEOREM ListsImplementBlocks == Spec => ImplementsBlockHeap
<1>1. Init => BH!Init
  BY DEF Init, BH!Init, AbstractBlocks, BlockPtrs, Started
<1>2. IInv /\ [Next]_vars => [BH!Next]_(BH!vars)
  BY StepImplements
<1> QED
  BY <1>1, <1>2, HeapStands, PTL DEF Spec, ImplementsBlockHeap, BH!Spec

-----------------------------------------------------------------------------
\* The words the client holds through the pointers l.
LiveOf(l) == UNION {Region(p, l[p]) : p \in DOMAIN l}

LEMMA SameRegions ==
  ASSUME NEW l, NEW p, NEW size
  PROVE  /\ A!Region(p, size) = Region(p, size) /\ A!Fields(size) = Fields(size)
         /\ A!LiveWords(l) = LiveOf(l)
         /\ A!With(l, p, size) = With(l, p, size) /\ A!Without(l, p) = Without(l, p)
<1>1. \A n : A!Fields(n) = Fields(n)
  BY DEF A!Fields, A!FSIZE, Fields
<1>2. \A q, n : A!Region(q, n) = Region(q, n)
  BY <1>1 DEF A!Region, A!FSIZE, Region
<1>3. A!LiveWords(l) = LiveOf(l)
  BY <1>2 DEF A!LiveWords, LiveOf
<1>4. A!With(l, p, size) = With(l, p, size) /\ A!Without(l, p) = Without(l, p)
  BY DEF A!With, With, A!Without, Without
<1> QED
  BY <1>1, <1>2, <1>3, <1>4

\* The words of a block the client holds are kept when the block's are.
LEMMA KeptWords ==
  ASSUME NEW h, NEW l, NEW B, Stands(h, l, B), NEW m1, NEW S \in SUBSET P!Held(B),
         Keeps(h.mem, m1, S), NEW y \in S, NEW a \in Region(y.lo, l[y.lo])
  PROVE  m1[a] = h.mem[a]
<1>1. P!Sound(B, h.brk) /\ l[y.lo] = y.req
  BY DEF Stands, Holds, Rep
<1>2. y.req \in Nat /\ y \in P!Held(B)
  BY <1>1, HeldFacts
<1>3. y.req <= y.req /\ a \in Region(y.lo, y.req)
  BY <1>1, <1>2
<1>4. a \in Payload(y)
  BY <1>1, <1>2, <1>3, RegionInside
<1> QED
  BY <1>4 DEF Keeps

\* The pointers of the client lead to the blocks it holds.
LEMMA PointerIs ==
  ASSUME NEW h, NEW l, NEW B, Stands(h, l, B), NEW p \in DOMAIN l
  PROVE  /\ \E x \in P!Held(B) : x.lo = p /\ x.req = l[p]
         /\ p \in A!Pointers /\ p % 4 = 0 /\ p \in Nat /\ l[p] \in Nat /\ l[p] \in Sizes
<1>1. /\ P!Sound(B, h.brk) /\ h.brk <= MaxHeap /\ h.brk \in Nat /\ MaxHeap \in Nat
      /\ Holds(l, B)
  BY RepFacts, WordsAssumption DEF Stands
<1>2. PICK x \in P!Held(B) : x.lo = p /\ x.req = l[p] /\ x.req \in Sizes
  BY <1>1 DEF Holds
<1>3. /\ p \in Nat /\ l[p] \in Nat /\ p % 8 = 0 /\ 8 <= p /\ p <= MaxHeap
  <2>1. /\ x.lo \in Nat /\ x.hi \in Nat /\ x.req \in Nat /\ x.lo % 8 = 0
        /\ HEAP_START <= x.lo /\ x.lo + 16 <= x.hi /\ x.hi <= h.brk
    BY <1>1, HeldFacts
  <2>2. HEAP_START \in Nat /\ HEAP_START >= 24
    BY StartIs
  <2> QED
    BY <1>1, <1>2, <2>1, <2>2
<1>4. p \div 8 \in 1 .. MaxHeap \div 8 /\ p = 8 * (p \div 8)
  BY <1>1, <1>3
<1>5. p \in A!Pointers
  BY <1>4 DEF A!Pointers
<1> QED
  BY <1>2, <1>3, <1>5, WordAligned

\* The regions of two pointers are disjoint.
LEMMA RegionsApart ==
  ASSUME NEW h, NEW l, NEW B, Stands(h, l, B), NEW p \in DOMAIN l, NEW q \in DOMAIN l, p # q,
         NEW a \in Region(p, l[p])
  PROVE  a \notin Region(q, l[q])
<1>1. Rep(h.mem, h.brk, B) /\ P!Sound(B, h.brk)
  BY DEF Stands, Rep
<1>2. PICK x \in P!Held(B) : x.lo = p /\ x.req = l[p]
  BY PointerIs
<1>3. PICK y \in P!Held(B) : y.lo = q /\ y.req = l[q]
  BY PointerIs
<1>4. /\ x.lo \in Nat /\ x.hi \in Nat /\ x.req \in Nat /\ y.lo \in Nat /\ y.hi \in Nat
      /\ y.req \in Nat /\ (x.hi <= y.lo \/ y.hi <= x.lo)
  <2>1. x # y
    BY <1>2, <1>3
  <2>2. /\ x \in B /\ x.lo \in Nat /\ x.hi \in Nat /\ x.req \in Nat
        /\ y \in B /\ y.lo \in Nat /\ y.hi \in Nat /\ y.req \in Nat
    BY <1>1, HeldFacts
  <2>3. Apart(B, h.brk)
    BY <1>1, SoundFacts
  <2> QED
    BY <2>1, <2>2, <2>3 DEF Apart
<1>5. a \in Payload(x)
  BY <1>1, <1>2, <1>4, RegionInside
<1>6. ASSUME a \in Region(q, l[q]) PROVE FALSE
  <2>1. a \in Payload(y)
    BY <1>1, <1>3, <1>4, <1>6, RegionInside
  <2>2. a \in Nat /\ x.lo <= a /\ a <= x.hi - 8 /\ y.lo <= a /\ a <= y.hi - 8
    BY <1>5, <2>1 DEF Payload
  <2> QED
    BY <1>4, <2>2
<1> QED
  BY <1>6

\* A new pointer's region is none of the others'.
LEMMA NewRegionApart ==
  ASSUME NEW h, NEW l, NEW B, NEW q, NEW size, Stands(h, With(l, q, size), B), q \notin DOMAIN l
  PROVE  /\ Region(q, size) \cap LiveOf(l) = {}
         /\ LiveOf(With(l, q, size)) = LiveOf(l) \cup Region(q, size)
<1> DEFINE k == With(l, q, size)
<1>1. /\ DOMAIN k = DOMAIN l \cup {q} /\ k[q] = size
      /\ \A p \in DOMAIN l : k[p] = l[p] /\ p # q
  BY DEF With
<1> HIDE DEF k
<1>2. \A p \in DOMAIN l : \A a \in Region(q, size) : a \notin Region(p, l[p])
  <2> SUFFICES ASSUME NEW p \in DOMAIN l, NEW a \in Region(q, size)
               PROVE  a \notin Region(p, l[p])
    OBVIOUS
  <2>1. Stands(h, k, B) /\ p \in DOMAIN k /\ q \in DOMAIN k /\ p # q /\ a \in Region(q, k[q])
    BY <1>1 DEF k
  <2>2. a \notin Region(p, k[p])
    BY <2>1, RegionsApart
  <2> QED
    BY <1>1, <2>2
<1>3. LiveOf(k) = LiveOf(l) \cup Region(q, size)
  BY <1>1 DEF LiveOf
<1> QED
  BY <1>2, <1>3 DEF k, LiveOf

\* The words live before and after the step are kept, those of R excepted.
Steady(R) ==
  \A a \in LiveOf(live) : a \in LiveOf(live') => a \in R \/ heap'.mem[a] = heap.mem[a]

LEMMA Kept ==
  ASSUME NEW R, Steady(R)
  PROVE  A!KeepsExcept(R)
BY SameRegions DEF A!KeepsExcept, LiveOf, Steady

\* The words in which a pointer taken away has no part.
LEMMA LeftRegions ==
  ASSUME NEW l, NEW p \in DOMAIN l, NEW a \in LiveOf(Without(l, p))
  PROVE  \E q \in DOMAIN l : q # p /\ a \in Region(q, l[q])
BY DEF LiveOf, Without

LEMMA HeldKept ==
  ASSUME NEW h, NEW l, NEW B, Stands(h, l, B), NEW m1, Keeps(h.mem, m1, P!Held(B)),
         NEW q \in DOMAIN l, NEW a \in Region(q, l[q])
  PROVE  m1[a] = h.mem[a]
<1>1. PICK y \in P!Held(B) : y.lo = q
  BY PointerIs
<1> DEFINE S == P!Held(B)
<1>2. S \in SUBSET P!Held(B) /\ y \in S /\ Keeps(h.mem, m1, S) /\ a \in Region(y.lo, l[y.lo])
  BY <1>1
<1> HIDE DEF S
<1> QED
  BY <1>2, KeptWords

LEMMA OthersKept ==
  ASSUME NEW h, NEW l, NEW B, Stands(h, l, B), NEW m1, NEW x \in P!Held(B),
         NEW S, S = P!Held(B) \ {x}, Keeps(h.mem, m1, S), NEW q \in DOMAIN l, q # x.lo,
         NEW a \in Region(q, l[q])
  PROVE  m1[a] = h.mem[a]
<1>1. PICK y \in P!Held(B) : y.lo = q
  BY PointerIs
<1>2. y \in S /\ S \in SUBSET P!Held(B)
  BY <1>1
<1> QED
  BY <1>1, <1>2, KeptWords

\* A call that serves no one changes no live word.
LEMMA UnservedKeeps ==
  ASSUME NEW h, NEW B, Base(h, B), Unserved(h)
  PROVE  UNCHANGED A!vars
<1>1. live' = live /\ heap'.mem = h.mem
  BY DEF Unserved
<1>2. \A a \in LiveOf(live) : heap'.mem[a] = heap.mem[a]
  <2>1. CASE h = heap
    BY <1>1, <2>1
  <2>2. CASE Dormant(heap, live)
    BY <2>2 DEF Dormant, LiveOf
  <2> QED
    BY <2>1, <2>2 DEF Base
<1> QED
  BY <1>1, <1>2 DEF A!vars, LiveOf

LEMMA EmptyStore ==
  ASSUME live' = <<>>
  PROVE  A!NewTrace
BY DEF A!NewTrace

LEMMA ServedKeeps ==
  ASSUME NEW h, NEW B, Base(h, B), NEW size \in Sizes, NEW q, q \notin DOMAIN live,
         live' = With(live, q, size), NEW B1, Stands(heap', live', B1),
         Keeps(h.mem, heap'.mem, P!Held(B))
  PROVE  q \in A!Pointers /\ A!Malloc(q, size)
<1> DEFINE g == heap'
<1>1. Stands(g, With(live, q, size), B1)
  OBVIOUS
<1> HIDE DEF g
<1>2. q \in DOMAIN With(live, q, size)
  BY DEF With
<1>3. q \in A!Pointers
  BY <1>1, <1>2, PointerIs
<1>4. Region(q, size) \cap LiveOf(live) = {}
  BY <1>1, NewRegionApart
<1>5. \A a \in LiveOf(live) : heap'.mem[a] = heap.mem[a]
  <2>1. CASE h = heap
    <3> SUFFICES ASSUME NEW p \in DOMAIN live, NEW a \in Region(p, live[p])
                 PROVE  heap'.mem[a] = heap.mem[a]
      BY DEF LiveOf
    <3> DEFINE m1 == heap'.mem
    <3>1. Stands(heap, live, B) /\ Keeps(heap.mem, m1, P!Held(B))
      BY <2>1 DEF Base
    <3> HIDE DEF m1
    <3>2. m1[a] = heap.mem[a]
      BY <3>1, HeldKept
    <3> QED
      BY <3>2 DEF m1
  <2>2. CASE Dormant(heap, live)
    BY <2>2 DEF Dormant, LiveOf
  <2> QED
    BY <2>1, <2>2 DEF Base
<1>6. A!KeepsExcept({})
  BY <1>5, Kept DEF Steady
<1> QED
  BY <1>3, <1>4, <1>6, SameRegions DEF A!Malloc

LEMMA ReleasedKeeps ==
  ASSUME NEW B, Stands(heap, live, B), NEW p \in DOMAIN live, NEW x \in P!Held(B), x.lo = p,
         live' = Without(live, p), Keeps(heap.mem, heap'.mem, P!Held(B) \ {x})
  PROVE  p \in A!Pointers /\ A!Free(p)
<1>1. p \in A!Pointers
  BY PointerIs
<1>2. ASSUME NEW a \in LiveOf(live), a \in LiveOf(live')
      PROVE  heap'.mem[a] = heap.mem[a]
  <2>1. PICK q \in DOMAIN live : q # p /\ a \in Region(q, live[q])
    BY <1>2, LeftRegions
  <2> DEFINE m1 == heap'.mem
             S  == P!Held(B) \ {x}
  <2>2. Keeps(heap.mem, m1, S) /\ S = P!Held(B) \ {x} /\ q # x.lo
    BY <2>1
  <2> HIDE DEF m1, S
  <2>3. m1[a] = heap.mem[a]
    BY <2>1, <2>2, OthersKept
  <2> QED
    BY <2>3 DEF m1
<1>3. A!KeepsExcept({})
  BY <1>2, Kept DEF Steady
<1> QED
  BY <1>1, <1>3, SameRegions DEF A!Free

LEMMA WrittenKeeps ==
  ASSUME NEW B, Stands(heap, live, B), NEW p \in DOMAIN live, NEW x \in P!Held(B), x.lo = p,
         live' = live, Keeps(heap.mem, heap'.mem, P!Held(B) \ {x}),
         NEW v, Filling(heap'.mem, Region(p, live[p]), v)
  PROVE  p \in A!Pointers /\ A!Write(p, v)
<1>1. p \in A!Pointers
  BY PointerIs
<1>2. ASSUME NEW a \in LiveOf(live), a \notin Region(p, live[p])
      PROVE  heap'.mem[a] = heap.mem[a]
  <2>1. PICK q \in DOMAIN live : q # p /\ a \in Region(q, live[q])
    BY <1>2 DEF LiveOf
  <2> DEFINE m1 == heap'.mem
             S  == P!Held(B) \ {x}
  <2>2. Keeps(heap.mem, m1, S) /\ S = P!Held(B) \ {x} /\ q # x.lo
    BY <2>1
  <2> HIDE DEF m1, S
  <2>3. m1[a] = heap.mem[a]
    BY <2>1, <2>2, OthersKept, SMTT(30)
  <2> QED
    BY <2>3 DEF m1
<1> DEFINE R == Region(p, live[p])
<1>3. Steady(R)
  BY <1>2 DEF Steady
<1>4. A!Region(p, live[p]) = R
  BY SameRegions
<1>5. \A a \in R : [b \in LiveOf(live') |-> heap'.mem[b]][a] = v
  BY DEF Filling, LiveOf
<1> QED
  BY <1>1, <1>3, <1>4, <1>5, SameRegions DEF A!Write, A!KeepsExcept, Steady, LiveOf

LEMMA MovedKeeps ==
  ASSUME NEW B, Stands(heap, live, B), NEW p \in DOMAIN live, NEW x \in P!Held(B), x.lo = p,
         NEW q, q \notin DOMAIN live, NEW size \in Sizes,
         live' = With(Without(live, p), q, size), NEW C, Stands(heap', live', C),
         Keeps(heap.mem, heap'.mem, P!Held(B) \ {x}),
         Moved(heap'.mem, q, size, heap.mem, p, live[p])
  PROVE  p \in A!Pointers /\ q \in A!Pointers /\ A!Realloc(p, q, size)
<1> DEFINE l0 == Without(live, p)
           g  == heap'
           m1 == heap'.mem
<1>1. Stands(g, With(l0, q, size), C) /\ q \notin DOMAIN l0
  BY DEF Without
<1>2. Keeps(heap.mem, m1, P!Held(B) \ {x}) /\ live' = With(l0, q, size)
  OBVIOUS
<1>3. Moved(m1, q, size, heap.mem, p, live[p])
  OBVIOUS
<1> HIDE DEF g, m1, l0
<1>4. q \in DOMAIN With(l0, q, size) /\ With(l0, q, size)[q] = size
  BY DEF With
<1>5. p \in A!Pointers /\ q \in A!Pointers
  BY <1>1, <1>4, PointerIs
<1>6. Region(q, size) \cap LiveOf(l0) = {} /\ LiveOf(live') = LiveOf(l0) \cup Region(q, size)
  BY <1>1, <1>2, NewRegionApart
<1>7. ASSUME NEW a \in LiveOf(live), a \in LiveOf(live'), a \notin Region(q, size)
      PROVE  m1[a] = heap.mem[a]
  <2>1. a \in LiveOf(Without(live, p))
    BY <1>6, <1>7 DEF l0
  <2>2. PICK y \in DOMAIN live : y # x.lo /\ a \in Region(y, live[y])
    BY <2>1, LeftRegions
  <2> DEFINE S == P!Held(B) \ {x}
  <2>3. Keeps(heap.mem, m1, S) /\ S = P!Held(B) \ {x}
    BY <1>2
  <2> HIDE DEF S
  <2> QED
    BY <2>2, <2>3, OthersKept
<1>8. A!KeepsExcept(Region(q, size))
  BY <1>7, Kept DEF Steady, m1
<1>9. Fields(size) \in Nat /\ Fields(live[p]) \in Nat
  <2>1. size \in Nat
    BY RequestsAre
  <2>2. live[p] \in Nat /\ p \in Nat /\ p % 4 = 0
    BY PointerIs
  <2> QED
    BY <2>1, <2>2, RegionIs
<1>10. ASSUME NEW i \in 0 .. Fields(size) - 1, i < Fields(live[p])
       PROVE  /\ m1[q + 4 * i] = heap.mem[p + 4 * i]
              /\ q + 4 * i \in LiveOf(live') /\ p + 4 * i \in LiveOf(live)
  <2>1. i \in Nat /\ i < Fields(size) /\ i \in 0 .. Fields(live[p]) - 1
    BY <1>9, <1>10
  <2>2. m1[q + 4 * i] = heap.mem[p + 4 * i]
    BY <1>3, <1>10, <2>1 DEF Moved
  <2>3. q + 4 * i \in Region(q, size) /\ p + 4 * i \in Region(p, live[p])
    BY <2>1 DEF Region
  <2> QED
    BY <1>6, <2>2, <2>3 DEF LiveOf
<1>11. A!Region(q, size) = Region(q, size) /\ A!Without(live, p) = l0
       /\ A!With(l0, q, size) = With(l0, q, size) /\ A!LiveWords(l0) = LiveOf(l0)
       /\ A!Fields(size) = Fields(size) /\ A!Fields(live[p]) = Fields(live[p])
  BY SameRegions DEF l0
<1>12. \A i \in 0 .. Fields(size) - 1 : i < Fields(live[p]) =>
         [a \in LiveOf(live') |-> heap'.mem[a]][q + 4 * i]
           = [a \in LiveOf(live) |-> heap.mem[a]][p + 4 * i]
  BY <1>10 DEF m1
<1>13. q \notin DOMAIN live \ {p}
  OBVIOUS
<1> QED
  BY <1>2, <1>5, <1>6, <1>8, <1>11, <1>12, <1>13 DEF A!Realloc, A!FSIZE, LiveOf

LEMMA ServesAllocates ==
  ASSUME NEW size, NEW q, Serves(size, q)
  PROVE  A!Next \/ UNCHANGED A!vars
<1>1. CASE Dormant(heap', live')
  BY <1>1, EmptyStore DEF Dormant, A!Next
<1>2. ASSUME NEW h, NEW B, Base(h, B), Unserved(h) PROVE UNCHANGED A!vars
  BY <1>2, UnservedKeeps
<1>3. ASSUME NEW h, NEW B, NEW B1, Base(h, B), size \in Sizes,
             q \notin DOMAIN live, live' = With(live, q, size),
             Stands(heap', live', B1), Keeps(h.mem, heap'.mem, P!Held(B))
      PROVE  A!Next
  <2>1. q \in A!Pointers /\ A!Malloc(q, size)
    BY <1>3, ServedKeeps
  <2> QED
    BY <1>3, <2>1 DEF A!Next
<1> QED
  BY <1>1, <1>2, <1>3 DEF Serves

LEMMA StepImplementsAllocator ==
  ASSUME IInv, [Next]_vars
  PROVE  [A!Next]_(A!vars)
<1>1. CASE UNCHANGED vars
  BY <1>1 DEF vars, A!vars
<1>2. ASSUME NewTrace PROVE A!Next
  BY <1>2, NewTraceStep, EmptyStore DEF A!Next
<1>3. ASSUME NEW size \in client.mallocs \cup {0}, Malloc(size)
      PROVE  A!Next \/ UNCHANGED A!vars
  BY <1>3, MallocStep, ServesAllocates
<1>4. ASSUME NEW size \in client.callocs, Calloc(1, size)
      PROVE  A!Next \/ UNCHANGED A!vars
  BY <1>4, CallocStep, ServesAllocates
<1>5. ASSUME NEW p \in DOMAIN live, Free(p) PROVE A!Next
  <2>1. PICK B : \E x \in P!Held(B) :
           /\ Stands(heap, live, B) /\ x.lo = p /\ live' = Without(live, p)
           /\ Keeps(heap.mem, heap'.mem, P!Held(B) \ {x})
    BY <1>5, FreeStep
  <2>2. p \in A!Pointers /\ A!Free(p)
    BY <2>1, ReleasedKeeps
  <2> QED
    BY <2>2 DEF A!Next
<1>6. ASSUME NEW p \in DOMAIN live, NEW size \in client.reallocs, Realloc(p, size)
      PROVE  A!Next \/ UNCHANGED A!vars
  <2>1. PICK B : /\ Stands(heap, live, B) /\ size \in Sizes
                 /\ Unserved(heap) \/ \E q : Moves(B, p, size, q)
    BY <1>6, ReallocStep
  <2>2. CASE Unserved(heap)
    <3>1. Base(heap, B)
      BY <2>1 DEF Base
    <3> QED
      BY <2>2, <3>1, UnservedKeeps
  <2>3. ASSUME NEW q, Moves(B, p, size, q) PROVE A!Next
    <3>1. PICK x \in P!Held(B) : \E B1 :
             /\ x.lo = p /\ q \notin DOMAIN live
             /\ live' = With(Without(live, p), q, size)
             /\ Stands(heap', live', P!Release(B1, x))
             /\ Keeps(heap.mem, heap'.mem, P!Held(B) \ {x})
             /\ Moved(heap'.mem, q, size, heap.mem, p, live[p])
      BY <2>3 DEF Moves
    <3>2. p \in A!Pointers /\ q \in A!Pointers /\ A!Realloc(p, q, size)
      BY <2>1, <3>1, MovedKeeps
    <3> QED
      BY <2>1, <3>2 DEF A!Next
  <2> QED
    BY <2>1, <2>2, <2>3
<1>7. ASSUME NEW p \in DOMAIN live, NEW v \in client.words, Write(p, v) PROVE A!Next
  <2>1. PICK B : \E x \in P!Held(B) :
           /\ Stands(heap, live, B) /\ x.lo = p /\ v \in UserWords /\ live' = live
           /\ Filling(heap'.mem, Region(p, live[p]), v)
           /\ Keeps(heap.mem, heap'.mem, P!Held(B) \ {x})
    BY <1>7, WriteStep
  <2>2. p \in A!Pointers /\ A!Write(p, v)
    BY <2>1, WrittenKeeps
  <2> QED
    BY <2>1, <2>2 DEF A!Next
<1>8. CASE Next
  BY <1>2, <1>3, <1>4, <1>5, <1>6, <1>7, <1>8 DEF Next
<1> QED
  BY <1>1, <1>8

\* No header, footer, list field or copy of the allocator lands in a word the
\* client holds, whatever words the client writes; a region realloc returns
\* starts with the words of the old one (mm.c malloc, free, realloc, calloc).
THEOREM ListsImplementAllocator == Spec => ImplementsAllocator
<1>1. Init => A!Init
  BY DEF Init, A!Init
<1>2. IInv /\ [Next]_vars => [A!Next]_(A!vars)
  BY StepImplementsAllocator
<1> QED
  BY <1>1, <1>2, HeapStands, PTL DEF Spec, ImplementsAllocator, A!Spec
=============================================================================
