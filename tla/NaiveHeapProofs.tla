--------------------------- MODULE NaiveHeapProofs ---------------------------
(***************************************************************************)
(* Proofs about NaiveHeap, for every heap limit and set of requests: the   *)
(* regions it hands out are disjoint and keep what the client wrote.       *)
(*                                                                         *)
(* The argument: the regions lie one after the other below the break, each *)
(* behind its size word (Packed), so a new one, which starts at the break, *)
(* meets none of them.                                                     *)
(***************************************************************************)
EXTENDS NaiveHeap, TLAPS

USE DEF WORD, NULL, SIZE_T_SIZE

\* Pointer p, for size bytes, has its size word and its words below the break.
Stands(m, t, p, size) ==
  /\ p \in Nat /\ p % 8 = 0 /\ 8 <= p /\ size \in Sizes
  /\ p + ALIGN(size) <= t /\ m[p - 8] = size

Apart(p, size, q) == p + ALIGN(size) <= q - 8

\* Memory m, up to the break t, holds the regions of the client's pointers l.
Packed(m, t, l) ==
  /\ t \in Nat /\ t % 8 = 0 /\ t <= MaxHeap /\ DOMAIN m = WordsBelow(t)
  /\ \A p \in DOMAIN l : Stands(m, t, p, l[p])
  /\ \A p, q \in DOMAIN l : p # q => Apart(p, l[p], q) \/ Apart(q, l[q], p)

IInv == Packed(heap.mem, heap.brk, live) /\ heap = [mem |-> heap.mem, brk |-> heap.brk]

-----------------------------------------------------------------------------
LEMMA SizesAreNat == Sizes \subseteq Nat /\ ReallocSizes \subseteq Sizes
                     /\ MallocSizes \subseteq Sizes /\ CallocSizes \subseteq Sizes
BY RequestsAssumption DEF Sizes

LEMMA AlignIs ==
  ASSUME NEW n \in Nat
  PROVE  /\ ALIGN(n) \in Nat /\ ALIGN(n) % 8 = 0 /\ n <= ALIGN(n)
         /\ newsize(n) = ALIGN(n) + 8
<1>1. /\ 8 * ((n + 7) \div 8) \in Nat /\ (8 * ((n + 7) \div 8)) % 8 = 0
      /\ n <= 8 * ((n + 7) \div 8)
      /\ 8 * ((n + 8 + 7) \div 8) = 8 * ((n + 7) \div 8) + 8
  OBVIOUS
<1> QED
  BY <1>1 DEF ALIGN, newsize

LEMMA WordsBelowIs ==
  ASSUME NEW t \in Nat, t % 8 = 0
  PROVE  \A a : a \in WordsBelow(t) <=> a \in Nat /\ a % 4 = 0 /\ a < t
<1>1. ASSUME NEW a \in WordsBelow(t) PROVE a \in Nat /\ a % 4 = 0 /\ a < t
  <2>1. PICK i \in 0 .. (t \div 4) - 1 : a = 4 * i
    BY DEF WordsBelow
  <2> QED
    BY <2>1
<1>2. ASSUME NEW a \in Nat, a % 4 = 0, a < t PROVE a \in WordsBelow(t)
  <2>1. a \div 4 \in 0 .. (t \div 4) - 1 /\ a = 4 * (a \div 4)
    BY <1>2
  <2> QED
    BY <2>1 DEF WordsBelow
<1> QED
  BY <1>1, <1>2

\* The words of a region, by address.
LEMMA RegionIs ==
  ASSUME NEW p \in Nat, p % 8 = 0, NEW n \in Nat
  PROVE  /\ \A a : a \in Region(p, n) <=> a \in Nat /\ a % 4 = 0 /\ p <= a /\ a < p + n
         /\ Fields(n) \in Nat /\ \A i \in Nat : i < Fields(n) <=> 4 * i < n
<1>1. Fields(n) \in Nat /\ \A i \in Nat : i < Fields(n) <=> 4 * i < n
  <2>1. Fields(n) = (n + 3) \div 4
    BY DEF Fields
  <2>2. (n + 3) \div 4 \in Nat /\ \A i \in Nat : i < (n + 3) \div 4 <=> 4 * i < n
    OBVIOUS
  <2> QED
    BY <2>1, <2>2
<1>2. ASSUME NEW a \in Region(p, n) PROVE a \in Nat /\ a % 4 = 0 /\ p <= a /\ a < p + n
  <2>1. PICK i \in 0 .. Fields(n) - 1 : a = p + 4 * i
    BY DEF Region
  <2>2. i \in Nat /\ 4 * i < n
    BY <1>1, <2>1
  <2> QED
    BY <2>1, <2>2
<1>3. ASSUME NEW a \in Nat, a % 4 = 0, p <= a, a < p + n PROVE a \in Region(p, n)
  <2>1. PICK i \in Nat : a = p + 4 * i
    <3>1. (a - p) \div 4 \in Nat /\ a = p + 4 * ((a - p) \div 4)
      BY <1>3
    <3> QED
      BY <3>1
  <2>2. i \in 0 .. Fields(n) - 1
    BY <1>1, <1>3, <2>1
  <2> QED
    BY <2>1, <2>2 DEF Region
<1> QED
  BY <1>1, <1>2, <1>3

\* Region p lies below the break and behind its size word.
LEMMA RegionBelow ==
  ASSUME NEW m, NEW t, NEW l, Packed(m, t, l), NEW p \in DOMAIN l
  PROVE  /\ p \in Nat /\ p % 8 = 0 /\ 8 <= p /\ l[p] \in Nat /\ p <= t /\ t \in Nat
         /\ p - 8 \in WordsBelow(t) /\ m[p - 8] = l[p]
         /\ \A a \in Region(p, l[p]) :
              a \in Nat /\ a \in WordsBelow(t) /\ p <= a /\ a < p + ALIGN(l[p])
<1>1. /\ t \in Nat /\ t % 8 = 0 /\ p \in Nat /\ p % 8 = 0 /\ 8 <= p /\ l[p] \in Sizes
      /\ p + ALIGN(l[p]) <= t /\ m[p - 8] = l[p]
  BY DEF Packed, Stands
<1>2. l[p] \in Nat /\ ALIGN(l[p]) \in Nat /\ l[p] <= ALIGN(l[p])
  BY <1>1, SizesAreNat, AlignIs
<1>3. p - 8 \in Nat /\ (p - 8) % 4 = 0 /\ p - 8 < t
  BY <1>1, <1>2
<1>4. p - 8 \in WordsBelow(t)
  BY <1>1, <1>3, WordsBelowIs
<1>5. ASSUME NEW a \in Region(p, l[p])
      PROVE  a \in Nat /\ a \in WordsBelow(t) /\ p <= a /\ a < p + ALIGN(l[p])
  <2>1. a \in Nat /\ a % 4 = 0 /\ p <= a /\ a < p + l[p]
    BY <1>1, <1>2, RegionIs
  <2>2. a < t /\ a < p + ALIGN(l[p])
    BY <1>1, <1>2, <2>1
  <2> QED
    BY <1>1, <2>1, <2>2, WordsBelowIs
<1> QED
  BY <1>1, <1>2, <1>3, <1>4, <1>5

LEMMA RegionsApart ==
  ASSUME NEW m, NEW t, NEW l, Packed(m, t, l), NEW p \in DOMAIN l, NEW q \in DOMAIN l,
         p # q, NEW a \in Region(p, l[p])
  PROVE  a \notin Region(q, l[q]) /\ a # q - 8
<1>1. /\ p \in Nat /\ l[p] \in Nat /\ a \in Nat /\ p <= a /\ a < p + ALIGN(l[p])
      /\ q \in Nat /\ l[q] \in Nat
  BY RegionBelow
<1>2. ALIGN(l[p]) \in Nat /\ ALIGN(l[q]) \in Nat
  BY <1>1, AlignIs
<1>3. p + ALIGN(l[p]) <= q - 8 \/ q + ALIGN(l[q]) <= p - 8
  BY DEF Packed, Apart
<1>4. a # q - 8
  BY <1>1, <1>2, <1>3
<1>5. ASSUME a \in Region(q, l[q]) PROVE FALSE
  <2>1. q <= a /\ a < q + ALIGN(l[q])
    BY <1>5, RegionBelow
  <2> QED
    BY <1>1, <1>2, <1>3, <2>1
<1> QED
  BY <1>4, <1>5

\* Whoever writes in one region only leaves the others alone.
LEMMA WritingInside ==
  ASSUME NEW m, NEW t, NEW l, Packed(m, t, l), NEW p \in DOMAIN l, NEW m1,
         DOMAIN m1 = DOMAIN m,
         \A a \in WordsBelow(t) : a \notin Region(p, l[p]) => m1[a] = m[a]
  PROVE  Packed(m1, t, l)
<1>1. ASSUME NEW q \in DOMAIN l PROVE Stands(m1, t, q, l[q])
  <2>1. q - 8 \in WordsBelow(t) /\ m[q - 8] = l[q] /\ Stands(m, t, q, l[q])
    BY RegionBelow DEF Packed
  <2>2. q - 8 \notin Region(p, l[p])
    <3>1. CASE q = p
      <4>1. q \in Nat /\ \A a \in Region(p, l[p]) : a \in Nat /\ p <= a
        BY <3>1, RegionBelow
      <4> QED
        BY <3>1, <4>1
    <3>2. CASE q # p
      BY <3>2, RegionsApart
    <3> QED
      BY <3>1, <3>2
  <2> QED
    BY <2>1, <2>2 DEF Stands
<1> QED
  BY <1>1 DEF Packed

\* The client may forget pointers.
LEMMA Fewer ==
  ASSUME NEW m, NEW t, NEW l, Packed(m, t, l), NEW k, DOMAIN k \subseteq DOMAIN l,
         \A p \in DOMAIN k : k[p] = l[p]
  PROVE  Packed(m, t, k)
BY DEF Packed

\* What malloc grants at the break.
Granted(o, m, t, size) ==
  LET t1 == t + 8 + ALIGN(size)
      m1 == o.heap.mem
  IN  /\ o = [heap |-> [mem |-> m1, brk |-> t1], ptr |-> t + 8]
      /\ t1 <= MaxHeap /\ DOMAIN m1 = WordsBelow(t1) /\ m1[t] = size
      /\ \A a \in WordsBelow(t) : m1[a] = m[a]

LEMMA MallocGrants ==
  ASSUME NEW m, NEW t \in Nat, t % 8 = 0, DOMAIN m = WordsBelow(t), NEW size \in Nat,
         NEW o \in malloc([mem |-> m, brk |-> t], size)
  PROVE  \/ o = [heap |-> [mem |-> m, brk |-> t], ptr |-> NULL]
         \/ Granted(o, m, t, size)
<1> DEFINE h  == [mem |-> m, brk |-> t]
           t1 == t + 8 + ALIGN(size)
           m0 == [a \in WordsBelow(t1) |-> IF a < t THEN m[a] ELSE Junk]
           m1 == [m0 EXCEPT ![t] = size, ![t + 4] = 0]
<1>1. /\ newsize(size) = ALIGN(size) + 8 /\ ALIGN(size) \in Nat /\ ALIGN(size) % 8 = 0
      /\ t1 \in Nat /\ t1 % 8 = 0 /\ t + (ALIGN(size) + 8) = t1 /\ t + 8 <= t1
  <2>1. newsize(size) = ALIGN(size) + 8 /\ ALIGN(size) \in Nat /\ ALIGN(size) % 8 = 0
    BY AlignIs
  <2> QED
    BY <2>1
<1>2. mem_sbrk(h, newsize(size)) = [mem |-> m0, brk |-> t1]
  <2>1. h.mem = m /\ h.brk = t
    OBVIOUS
  <2>2. mem_sbrk(h, newsize(size)) =
          [[h EXCEPT !.mem = [a \in WordsBelow(h.brk + newsize(size)) |->
                                IF a < h.brk THEN h.mem[a] ELSE Junk]]
             EXCEPT !.brk = h.brk + newsize(size)]
    BY DEF mem_sbrk
  <2>3. mem_sbrk(h, newsize(size)) = [[h EXCEPT !.mem = m0] EXCEPT !.brk = t1]
    BY <1>1, <2>1, <2>2
  <2> QED
    BY <2>3
<1>3. CanGrow(h, newsize(size)) <=> t1 <= MaxHeap
  BY <1>1 DEF CanGrow
<1>4. /\ DOMAIN m1 = WordsBelow(t1) /\ t \in WordsBelow(t1) /\ m1[t] = size
      /\ \A a \in WordsBelow(t) : m1[a] = m[a]
  <2>1. t \in WordsBelow(t1) /\ t + 4 # t
    <3>1. t % 4 = 0 /\ t < t1
      BY <1>1
    <3> QED
      BY <1>1, <3>1, WordsBelowIs
  <2>2. ASSUME NEW a \in WordsBelow(t)
        PROVE  a \in WordsBelow(t1) /\ a < t /\ a # t /\ a # t + 4
    <3>1. a \in Nat /\ a % 4 = 0 /\ a < t
      BY WordsBelowIs
    <3>2. a < t1 /\ a # t /\ a # t + 4
      BY <1>1, <3>1
    <3> QED
      BY <1>1, <3>1, <3>2, WordsBelowIs
  <2> QED
    BY <2>1, <2>2
<1>5. malloc(h, size) = {[heap |-> h, ptr |-> NULL]} \cup
        (IF t1 <= MaxHeap
         THEN {[heap |-> [mem |-> m1, brk |-> t1], ptr |-> t + 8]} ELSE {})
  <2> DEFINE taken == mem_sbrk(h, newsize(size))
  <2>1. taken = [mem |-> m0, brk |-> t1] /\ h.brk = t
    BY <1>2
  <2>2. malloc(h, size) = {[heap |-> h, ptr |-> NULL]} \cup
      (IF CanGrow(h, newsize(size))
       THEN {[heap |-> [taken EXCEPT !.mem = [taken.mem EXCEPT ![h.brk] = size, ![h.brk + 4] = 0]],
              ptr  |-> h.brk + 8]}
       ELSE {})
    BY DEF malloc
  <2> HIDE DEF taken
  <2>3. [taken EXCEPT !.mem = [taken.mem EXCEPT ![h.brk] = size, ![h.brk + 4] = 0]]
          = [mem |-> m1, brk |-> t1]
    <3> HIDE DEF m0, t1
    <3> QED
      BY <2>1
  <2> HIDE DEF h, m1, t1
  <2> QED
    BY <1>3, <2>1, <2>2, <2>3
<1> HIDE DEF m1, t1
<1>6. CASE o = [heap |-> [mem |-> m1, brk |-> t1], ptr |-> t + 8] /\ t1 <= MaxHeap
  <2>1. o.heap.mem = m1
    BY <1>6
  <2> QED
    BY <1>4, <1>6, <2>1 DEF Granted, t1
<1> QED
  BY <1>5, <1>6 DEF h

\* The words the client holds through the pointers l.
LiveOf(l) == UNION {Region(p, l[p]) : p \in DOMAIN l}

\* Memory m2 holds a new region at q for size bytes, and the others as m did.
Extends(m2, t2, m, l, q, size) ==
  /\ q \notin DOMAIN l /\ q \in A!Pointers /\ q \notin {NULL, CRASH}
  /\ Packed(m2, t2, With(l, q, size))
  /\ Region(q, size) \cap LiveOf(l) = {}
  /\ \A a \in LiveOf(l) : m2[a] = m[a]

\* A region at the break is a new one, whatever is written into it.
LEMMA GrantedExtends ==
  ASSUME NEW m, NEW t, NEW l, Packed(m, t, l), NEW size \in Sizes, NEW o, Granted(o, m, t, size),
         NEW m2, DOMAIN m2 = DOMAIN o.heap.mem,
         \A a \in DOMAIN m2 : a \notin Region(t + 8, size) => m2[a] = o.heap.mem[a]
  PROVE  Extends(m2, o.heap.brk, m, l, o.ptr, size)
<1> DEFINE q  == t + 8
           t1 == t + 8 + ALIGN(size)
           k  == With(l, q, size)
           m1 == o.heap.mem
<1>1. /\ t \in Nat /\ t % 8 = 0 /\ size \in Nat /\ ALIGN(size) \in Nat /\ ALIGN(size) % 8 = 0
      /\ size <= ALIGN(size) /\ t1 \in Nat /\ t1 % 8 = 0 /\ q \in Nat /\ q % 8 = 0 /\ 8 <= q
      /\ q + ALIGN(size) = t1 /\ t <= t1 /\ q - 8 = t /\ MaxHeap \in Nat /\ q <= t1
  <2>1. t \in Nat /\ t % 8 = 0 /\ size \in Nat /\ MaxHeap \in Nat
    BY SizesAreNat, WordsAssumption DEF Packed
  <2>2. ALIGN(size) \in Nat /\ ALIGN(size) % 8 = 0 /\ size <= ALIGN(size)
    BY <2>1, AlignIs
  <2> QED
    BY <2>1, <2>2
<1>2. /\ o.heap.brk = t1 /\ o.ptr = q /\ t1 <= MaxHeap /\ DOMAIN m1 = WordsBelow(t1)
      /\ m1[t] = size /\ \A a \in WordsBelow(t) : m1[a] = m[a]
  <2>1. o = [heap |-> [mem |-> m1, brk |-> t1], ptr |-> q]
    BY DEF Granted
  <2>2. o.heap.brk = t1 /\ o.ptr = q
    <3> HIDE DEF m1, t1, q
    <3> QED
      BY <2>1
  <2> QED
    BY <2>2 DEF Granted
<1>3. \A p \in DOMAIN l : Apart(p, l[p], q) /\ p # q /\ Stands(m, t, p, l[p])
  <2> SUFFICES ASSUME NEW p \in DOMAIN l
               PROVE  Apart(p, l[p], q) /\ p # q /\ Stands(m, t, p, l[p])
    OBVIOUS
  <2>1. Stands(m, t, p, l[p]) /\ p <= t /\ p \in Nat
    BY RegionBelow DEF Packed
  <2>2. p # q
    BY <1>1, <2>1
  <2> QED
    BY <1>1, <2>1, <2>2 DEF Stands, Apart
<1>4. /\ DOMAIN k = DOMAIN l \cup {q} /\ k[q] = size /\ \A p \in DOMAIN l : k[p] = l[p]
  BY <1>3 DEF With
<1>5. t \in WordsBelow(t1) /\ \A a \in WordsBelow(t) : a \in WordsBelow(t1) /\ a < q /\ a # t
  <2>1. t % 4 = 0 /\ t < t1
    BY <1>1
  <2>2. t \in WordsBelow(t1)
    BY <1>1, <2>1, WordsBelowIs
  <2>3. ASSUME NEW a \in WordsBelow(t) PROVE a \in WordsBelow(t1) /\ a < q /\ a # t
    <3>1. a \in Nat /\ a % 4 = 0 /\ a < t
      BY <1>1, WordsBelowIs
    <3>2. a < t1 /\ a < q /\ a # t
      BY <1>1, <3>1
    <3> QED
      BY <1>1, <3>1, <3>2, WordsBelowIs
  <2> QED
    BY <2>2, <2>3
<1>6. \A a \in Region(q, size) : a \in Nat /\ q <= a
  BY <1>1, RegionIs
<1> HIDE DEF k
<1>7. Packed(m1, t1, k)
  <2>1. ASSUME NEW p \in DOMAIN l PROVE Stands(m1, t1, p, k[p])
    <3>1. p - 8 \in WordsBelow(t) /\ Stands(m, t, p, l[p]) /\ l[p] \in Nat /\ p \in Nat
      BY <1>3, RegionBelow
    <3>2. ALIGN(l[p]) \in Nat
      BY <3>1, AlignIs
    <3> QED
      BY <1>1, <1>2, <1>4, <3>1, <3>2 DEF Stands
  <2>2. Stands(m1, t1, q, k[q])
    BY <1>1, <1>2, <1>4 DEF Stands
  <2>3. ASSUME NEW p \in DOMAIN k, NEW r \in DOMAIN k, p # r
        PROVE  Apart(p, k[p], r) \/ Apart(r, k[r], p)
    <3>1. CASE p \in DOMAIN l /\ r \in DOMAIN l
      BY <1>4, <2>3, <3>1 DEF Packed
    <3>2. CASE p = q \/ r = q
      BY <1>3, <1>4, <2>3, <3>2
    <3> QED
      BY <1>4, <3>1, <3>2
  <2>4. \A p \in DOMAIN k : Stands(m1, t1, p, k[p])
    BY <1>4, <2>1, <2>2
  <2> QED
    BY <1>1, <1>2, <2>3, <2>4 DEF Packed
<1>8. Packed(m2, t1, k)
  <2>1. \A a \in WordsBelow(t1) : a \notin Region(q, k[q]) => m2[a] = m1[a]
    BY <1>2, <1>4
  <2>2. q \in DOMAIN k /\ DOMAIN m2 = DOMAIN m1
    BY <1>4
  <2> HIDE DEF m1, t1, q
  <2> QED
    BY <1>7, <2>1, <2>2, WritingInside
<1>9. ASSUME NEW a \in LiveOf(l) PROVE a \notin Region(q, size) /\ m2[a] = m[a]
  <2>1. PICK p \in DOMAIN l : a \in Region(p, l[p])
    BY DEF LiveOf
  <2>2. a \in WordsBelow(t)
    BY <2>1, RegionBelow
  <2>3. a \in WordsBelow(t1) /\ a \notin Region(q, size)
    <3>1. a \in WordsBelow(t1) /\ a < q /\ a \in Nat
      BY <1>1, <1>5, <2>2, WordsBelowIs
    <3> QED
      BY <1>1, <1>6, <3>1
  <2> QED
    BY <1>2, <2>2, <2>3
<1>10. q \in A!Pointers /\ q \notin {NULL, CRASH}
  <2>1. q <= MaxHeap
    BY <1>1, <1>2
  <2>2. q \div 8 \in 1 .. MaxHeap \div 8 /\ q = 8 * (q \div 8)
    BY <1>1, <2>1
  <2>3. q # 0 /\ q # -1
    BY <1>1
  <2> QED
    BY <2>2, <2>3 DEF A!Pointers, CRASH
<1> QED
  BY <1>2, <1>3, <1>8, <1>9, <1>10 DEF Extends, k

LEMMA FilledIs ==
  ASSUME NEW m, NEW p, NEW n, NEW v
  PROVE  /\ DOMAIN Filled(m, p, n, v) = DOMAIN m
         /\ \A a \in DOMAIN m : Filled(m, p, n, v)[a] = IF a \in Region(p, n) THEN v ELSE m[a]
BY DEF Filled

LEMMA CopiedIs ==
  ASSUME NEW m, NEW to, NEW from, NEW n
  PROVE  /\ DOMAIN Copied(m, to, from, n) = DOMAIN m
         /\ \A a \in DOMAIN m :
              Copied(m, to, from, n)[a] = IF a \in Region(to, n) THEN m[a - to + from] ELSE m[a]
BY DEF Copied

\* The call is refused, or the client holds a new region.
Served(o, size) ==
  \/ o.ptr \in {NULL, CRASH} /\ o.heap = heap
  \/ /\ o.heap = [mem |-> o.heap.mem, brk |-> o.heap.brk]
     /\ Extends(o.heap.mem, o.heap.brk, heap.mem, live, o.ptr, size)

LEMMA MallocServes ==
  ASSUME IInv, NEW size \in Sizes, NEW o \in malloc(heap, size)
  PROVE  Served(o, size)
<1> DEFINE m == heap.mem
           t == heap.brk
<1>1. /\ heap = [mem |-> m, brk |-> t] /\ Packed(m, t, live) /\ size \in Nat
      /\ t \in Nat /\ t % 8 = 0 /\ DOMAIN m = WordsBelow(t)
  BY SizesAreNat DEF IInv, Packed
<1> HIDE DEF m, t
<1>2. CASE o = [heap |-> [mem |-> m, brk |-> t], ptr |-> NULL]
  BY <1>1, <1>2 DEF Served
<1>3. CASE Granted(o, m, t, size)
  <2> DEFINE m2 == o.heap.mem
  <2>1. DOMAIN m2 = DOMAIN o.heap.mem
        /\ \A a \in DOMAIN m2 : a \notin Region(t + 8, size) => m2[a] = o.heap.mem[a]
    OBVIOUS
  <2> HIDE DEF m2
  <2>2. Extends(m2, o.heap.brk, m, live, o.ptr, size)
    BY <1>1, <1>3, <2>1, GrantedExtends
  <2>3. o.heap = [mem |-> m2, brk |-> o.heap.brk]
    BY <1>3 DEF Granted, m2
  <2> QED
    BY <2>2, <2>3 DEF Served, m, m2
<1>4. o \in malloc([mem |-> m, brk |-> t], size)
  BY <1>1
<1> QED
  BY <1>1, <1>2, <1>3, <1>4, MallocGrants

LEMMA CallocServes ==
  ASSUME IInv, NEW size \in CallocSizes, NEW o \in calloc(heap, 1, size)
  PROVE  Served(o, size)
<1> DEFINE m == heap.mem
           t == heap.brk
<1>1. /\ heap = [mem |-> m, brk |-> t] /\ Packed(m, t, live) /\ size \in Nat /\ size \in Sizes
      /\ t \in Nat /\ t % 8 = 0 /\ DOMAIN m = WordsBelow(t) /\ 1 * size = size
  BY SizesAreNat DEF IInv, Packed
<1> HIDE DEF m, t
<1>2. PICK a \in malloc([mem |-> m, brk |-> t], size) :
        o = IF a.ptr = NULL THEN IF size = 0 THEN a ELSE [a EXCEPT !.ptr = CRASH]
            ELSE [a EXCEPT !.heap.mem = Filled(a.heap.mem, a.ptr, size, 0)]
  BY <1>1 DEF calloc
<1>3. CASE a = [heap |-> [mem |-> m, brk |-> t], ptr |-> NULL]
  BY <1>1, <1>2, <1>3 DEF Served
<1>4. CASE Granted(a, m, t, size)
  <2> DEFINE m1 == a.heap.mem
             t1 == a.heap.brk
             m2 == Filled(m1, t + 8, size, 0)
  <2>1. a = [heap |-> [mem |-> m1, brk |-> t1], ptr |-> t + 8]
    BY <1>4 DEF Granted
  <2>2. DOMAIN m2 = DOMAIN m1
        /\ \A w \in DOMAIN m2 : w \notin Region(t + 8, size) => m2[w] = m1[w]
    BY FilledIs
  <2>3. a.ptr = t + 8 /\ a.ptr # NULL
    <3> HIDE DEF m1, t1
    <3>1. a.ptr = t + 8
      BY <2>1
    <3> QED
      BY <1>1, <3>1
  <2>4. o = [heap |-> [mem |-> m2, brk |-> t1], ptr |-> t + 8]
    <3>1. o = [a EXCEPT !.heap.mem = m2]
      BY <1>2, <2>3
    <3> HIDE DEF m1, t1, m2
    <3> QED
      BY <2>1, <3>1
  <2> HIDE DEF m2, t1
  <2>5. Extends(m2, t1, m, live, t + 8, size)
    BY <1>1, <1>4, <2>2, <2>3, GrantedExtends DEF t1
  <2>6. o.heap = [mem |-> m2, brk |-> t1] /\ o.ptr = t + 8 /\ o.heap.mem = m2 /\ o.heap.brk = t1
    BY <2>4
  <2> QED
    BY <2>5, <2>6 DEF Served, m
<1> QED
  BY <1>1, <1>2, <1>3, <1>4, MallocGrants

\* The words common to the old and the new region.
Moved(m1, q, size, m, p, n) ==
  \A i \in Nat : i < Fields(size) /\ i < Fields(n) => m1[q + 4 * i] = m[p + 4 * i]

\* realloc trusts the size word in front of the old region.
LEMMA ReallocServes ==
  ASSUME IInv, NEW p \in DOMAIN live, NEW size \in ReallocSizes, NEW o \in realloc(heap, p, size)
  PROVE  /\ Served(o, size)
         /\ o.ptr \notin {NULL, CRASH} => Moved(o.heap.mem, o.ptr, size, heap.mem, p, live[p])
<1> DEFINE m == heap.mem
           t == heap.brk
           n == IF size < live[p] THEN size ELSE live[p]
<1>1. /\ heap = [mem |-> m, brk |-> t] /\ Packed(m, t, live) /\ size \in Nat /\ size \in Sizes
      /\ t \in Nat /\ t % 8 = 0 /\ DOMAIN m = WordsBelow(t)
  BY SizesAreNat DEF IInv, Packed
<1> HIDE DEF m, t
<1>2. /\ p \in Nat /\ p % 8 = 0 /\ live[p] \in Nat /\ m[p - 8] = live[p] /\ p <= t
      /\ p + ALIGN(live[p]) <= t
  BY <1>1, RegionBelow DEF Packed, Stands
<1>3. PICK a \in malloc([mem |-> m, brk |-> t], size) :
        o = IF a.ptr = NULL THEN a
            ELSE [a EXCEPT !.heap.mem = Copied(a.heap.mem, a.ptr, p, n)]
  BY <1>1, <1>2 DEF realloc
<1>4. n \in Nat /\ n <= size /\ n <= live[p]
  BY <1>1, <1>2
<1> HIDE DEF n
<1>5. CASE a = [heap |-> [mem |-> m, brk |-> t], ptr |-> NULL]
  BY <1>1, <1>3, <1>5 DEF Served
<1>6. CASE Granted(a, m, t, size)
  <2> DEFINE m1 == a.heap.mem
             t1 == a.heap.brk
             q  == t + 8
             m2 == Copied(m1, q, p, n)
  <2>1. /\ a = [heap |-> [mem |-> m1, brk |-> t1], ptr |-> q]
        /\ t1 = t + 8 + ALIGN(size) /\ DOMAIN m1 = WordsBelow(t1)
        /\ \A w \in WordsBelow(t) : m1[w] = m[w]
    <3>1. a = [heap |-> [mem |-> m1, brk |-> t1], ptr |-> q]
      BY <1>6 DEF Granted
    <3>2. t1 = t + 8 + ALIGN(size)
      BY <1>6 DEF Granted
    <3> QED
      BY <1>6, <3>1, <3>2 DEF Granted
  <2>2. /\ ALIGN(size) \in Nat /\ ALIGN(size) % 8 = 0 /\ size <= ALIGN(size)
        /\ ALIGN(live[p]) \in Nat /\ live[p] <= ALIGN(live[p])
    BY <1>1, <1>2, AlignIs
  <2>3. q \in Nat /\ q % 8 = 0 /\ q # NULL /\ q # CRASH /\ t1 \in Nat /\ t1 % 8 = 0
        /\ q + ALIGN(size) = t1
    BY <1>1, <2>1, <2>2 DEF CRASH
  <2>4. a.ptr = q
    <3> HIDE DEF m1, t1, q
    <3> QED
      BY <2>1
  <2>5. o = [heap |-> [mem |-> m2, brk |-> t1], ptr |-> q]
    <3>1. o = [a EXCEPT !.heap.mem = m2]
      BY <1>3, <2>3, <2>4
    <3> HIDE DEF m1, t1, m2, q
    <3> QED
      BY <2>1, <3>1
  <2>6. \A w \in Region(q, n) : w \in Region(q, size) /\ w \in WordsBelow(t1)
    <3> HIDE DEF m1, t1, q
    <3> SUFFICES ASSUME NEW w \in Region(q, n)
                 PROVE  w \in Region(q, size) /\ w \in WordsBelow(t1)
      OBVIOUS
    <3>1. w \in Nat /\ w % 4 = 0 /\ q <= w /\ w < q + n
      BY <1>4, <2>3, RegionIs
    <3>2. w < q + size /\ w < t1
      BY <1>1, <1>4, <2>2, <2>3, <3>1
    <3> QED
      BY <1>1, <2>3, <3>1, <3>2, RegionIs, WordsBelowIs
  <2>7. /\ DOMAIN m2 = DOMAIN m1
        /\ \A w \in DOMAIN m1 : m2[w] = IF w \in Region(q, n) THEN m1[w - q + p] ELSE m1[w]
    BY CopiedIs
  <2> HIDE DEF m2
  <2>8. Extends(m2, t1, m, live, q, size)
    <3>1. DOMAIN m2 = DOMAIN a.heap.mem
          /\ \A w \in DOMAIN m2 : w \notin Region(t + 8, size) => m2[w] = a.heap.mem[w]
      BY <2>6, <2>7
    <3> HIDE DEF m1, t1, q
    <3> QED
      BY <1>1, <1>6, <2>4, <3>1, GrantedExtends DEF t1
  <2>9. Moved(m2, q, size, m, p, live[p])
    <3> SUFFICES ASSUME NEW i \in Nat, i < Fields(size), i < Fields(live[p])
                 PROVE  m2[q + 4 * i] = m[p + 4 * i]
      BY DEF Moved
    <3>1. 4 * i < size /\ 4 * i < live[p]
      BY <1>1, <1>2, <2>3, RegionIs
    <3>2. 4 * i < n
      BY <3>1 DEF n
    <3>3. q + 4 * i \in Nat /\ (q + 4 * i) % 4 = 0 /\ q <= q + 4 * i /\ q + 4 * i < q + n
      BY <1>4, <2>3, <3>2
    <3>4. q + 4 * i \in Region(q, n)
      BY <1>4, <2>3, <3>3, RegionIs
    <3>5. (q + 4 * i) - q + p = p + 4 * i
      BY <1>2, <2>3
    <3>6. p + 4 * i \in Nat /\ (p + 4 * i) % 4 = 0 /\ p + 4 * i < t
      BY <1>1, <1>2, <2>2, <3>1
    <3>7. p + 4 * i \in WordsBelow(t)
      BY <1>1, <3>6, WordsBelowIs
    <3>8. m2[q + 4 * i] = m1[p + 4 * i]
      BY <2>1, <2>6, <2>7, <3>4, <3>5
    <3> QED
      BY <2>1, <3>7, <3>8
  <2> HIDE DEF t1, q
  <2>10. o.heap = [mem |-> m2, brk |-> t1] /\ o.ptr = q /\ o.heap.mem = m2 /\ o.heap.brk = t1
    BY <2>5
  <2> QED
    BY <2>8, <2>9, <2>10 DEF Served, m
<1> QED
  BY <1>1, <1>3, <1>5, <1>6, MallocGrants

-----------------------------------------------------------------------------
LEMMA EmptyHeapIsPacked == Packed(<<>>, 0, <<>>)
<1>1. MaxHeap \in Nat /\ 0 <= MaxHeap
  BY WordsAssumption
<1>2. WordsBelow(0) = {} /\ DOMAIN <<>> = {}
  BY DEF WordsBelow
<1> QED
  BY <1>1, <1>2 DEF Packed

LEMMA LiveWithout ==
  ASSUME NEW l, NEW p \in DOMAIN l
  PROVE  /\ DOMAIN Without(l, p) = DOMAIN l \ {p}
         /\ \A q \in DOMAIN Without(l, p) : Without(l, p)[q] = l[q]
         /\ LiveOf(Without(l, p)) \subseteq LiveOf(l)
<1>1. /\ DOMAIN Without(l, p) = DOMAIN l \ {p}
      /\ \A q \in DOMAIN l \ {p} : Without(l, p)[q] = l[q]
  BY DEF Without
<1> QED
  BY <1>1 DEF LiveOf

\* k holds a region at q, and those of l.
Adds(k, l, q, size) ==
  /\ DOMAIN k = DOMAIN l \cup {q} /\ k[q] = size
  /\ \A p \in DOMAIN l : k[p] = l[p]
  /\ LiveOf(k) = LiveOf(l) \cup Region(q, size)

LEMMA WithIs ==
  ASSUME NEW l, NEW q, q \notin DOMAIN l, NEW size, NEW k, k = With(l, q, size)
  PROVE  Adds(k, l, q, size)
<1>1. /\ DOMAIN k = DOMAIN l \cup {q} /\ k[q] = size
      /\ \A p \in DOMAIN l : k[p] = l[p]
  BY DEF With
<1> QED
  BY <1>1 DEF LiveOf, Adds

LEMMA SameRegions ==
  ASSUME NEW l, NEW p, NEW size
  PROVE  /\ A!Region(p, size) = Region(p, size) /\ A!Fields(size) = Fields(size)
         /\ A!LiveWords(l) = LiveOf(l)
         /\ A!With(l, p, size) = With(l, p, size) /\ A!Without(l, p) = Without(l, p)
<1>1. \A n : A!Fields(n) = Fields(n)
  BY DEF A!Fields, A!FSIZE, Fields
<1>2. \A q, n : A!Region(q, n) = Region(q, n)
  BY <1>1 DEF A!Region, A!FSIZE, Region
<1>3. A!LiveWords(l) = LiveOf(l)
  BY <1>2 DEF A!LiveWords, LiveOf
<1>4. A!With(l, p, size) = With(l, p, size) /\ A!Without(l, p) = Without(l, p)
  BY DEF A!With, With, A!Without, Without
<1> QED
  BY <1>1, <1>2, <1>3, <1>4

\* The words live before and after the step are kept, those of R excepted.
Steady(R) ==
  \A a \in LiveOf(live) : a \in LiveOf(live') => a \in R \/ heap'.mem[a] = heap.mem[a]

LEMMA Kept ==
  ASSUME NEW R, Steady(R)
  PROVE  A!KeepsExcept(R)
BY SameRegions DEF A!KeepsExcept, LiveOf, Steady

LEMMA PointerIs ==
  ASSUME IInv, NEW p \in DOMAIN live
  PROVE  p \in A!Pointers
<1>1. /\ p \in Nat /\ p % 8 = 0 /\ 8 <= p /\ p <= heap.brk /\ heap.brk \in Nat
      /\ heap.brk <= MaxHeap /\ MaxHeap \in Nat
  BY RegionBelow, WordsAssumption DEF IInv, Packed
<1>2. p \div 8 \in 1 .. MaxHeap \div 8 /\ p = 8 * (p \div 8)
  BY <1>1
<1> QED
  BY <1>2 DEF A!Pointers

\* What the actions that allocate have in common.
LEMMA StepServes ==
  ASSUME IInv, NEW size \in Sizes, NEW o, Served(o, size), Returns(o, live, live, size)
  PROVE  IInv' /\ ((\E p \in A!Pointers : A!Malloc(p, size)) \/ UNCHANGED A!vars)
<1>1. CASE o.ptr \in {NULL, CRASH} /\ o.heap = heap
  <2>1. heap' = heap /\ live' = live
    BY <1>1 DEF Returns
  <2> QED
    BY <2>1 DEF IInv, Packed, Stands, A!vars
<1>2. CASE /\ o.heap = [mem |-> o.heap.mem, brk |-> o.heap.brk]
           /\ Extends(o.heap.mem, o.heap.brk, heap.mem, live, o.ptr, size)
  <2> DEFINE q == o.ptr
  <2>1. /\ q \notin DOMAIN live /\ q \in A!Pointers /\ q \notin {NULL, CRASH}
        /\ Packed(o.heap.mem, o.heap.brk, With(live, q, size))
        /\ Region(q, size) \cap LiveOf(live) = {}
        /\ \A a \in LiveOf(live) : o.heap.mem[a] = heap.mem[a]
    BY <1>2 DEF Extends
  <2>2. heap' = o.heap /\ live' = With(live, q, size)
    BY <2>1 DEF Returns
  <2>3. IInv'
    BY <1>2, <2>1, <2>2 DEF IInv
  <2>4. A!KeepsExcept({})
    BY <2>1, <2>2, Kept DEF Steady
  <2> QED
    BY <2>1, <2>2, <2>3, <2>4, SameRegions DEF A!Malloc
<1> QED
  BY <1>1, <1>2 DEF Served

LEMMA StepFrees ==
  ASSUME IInv, NEW p \in DOMAIN live, Free(p)
  PROVE  IInv' /\ A!Free(p)
<1>1. heap' = heap /\ live' = Without(live, p)
  BY DEF Free
<1>2. Packed(heap.mem, heap.brk, Without(live, p))
  <2> DEFINE k == Without(live, p)
  <2>1. DOMAIN k \subseteq DOMAIN live /\ \A q \in DOMAIN k : k[q] = live[q]
    BY LiveWithout
  <2>2. Packed(heap.mem, heap.brk, live)
    BY DEF IInv
  <2> HIDE DEF k
  <2>3. Packed(heap.mem, heap.brk, k)
    BY <2>1, <2>2, Fewer
  <2> QED
    BY <2>3 DEF k
<1>3. IInv'
  BY <1>1, <1>2 DEF IInv
<1>4. A!KeepsExcept({})
  BY <1>1, Kept DEF Steady
<1> QED
  BY <1>1, <1>3, <1>4, SameRegions DEF A!Free

LEMMA StepReallocates ==
  ASSUME IInv, NEW p \in DOMAIN live, NEW size \in ReallocSizes, Realloc(p, size)
  PROVE  IInv' /\ ((\E q \in A!Pointers : A!Realloc(p, q, size)) \/ UNCHANGED A!vars)
<1>1. PICK o \in realloc(heap, p, size) : Returns(o, live, Without(live, p), size)
  BY DEF Realloc
<1>2. /\ Served(o, size)
      /\ o.ptr \notin {NULL, CRASH} => Moved(o.heap.mem, o.ptr, size, heap.mem, p, live[p])
  BY ReallocServes
<1>3. CASE o.ptr \in {NULL, CRASH} /\ o.heap = heap
  <2>1. heap' = heap /\ live' = live
    BY <1>1, <1>3 DEF Returns
  <2> QED
    BY <2>1 DEF IInv, Packed, Stands, A!vars
<1>4. CASE /\ o.heap = [mem |-> o.heap.mem, brk |-> o.heap.brk]
           /\ Extends(o.heap.mem, o.heap.brk, heap.mem, live, o.ptr, size)
  <2> DEFINE q  == o.ptr
             m1 == o.heap.mem
             l0 == Without(live, p)
             k  == With(l0, q, size)
             l1 == With(live, q, size)
  <2>1. /\ q \notin DOMAIN live /\ q \in A!Pointers /\ q \notin {NULL, CRASH}
        /\ Packed(m1, o.heap.brk, l1)
        /\ Region(q, size) \cap LiveOf(live) = {}
        /\ \A a \in LiveOf(live) : m1[a] = heap.mem[a]
    BY <1>4 DEF Extends
  <2>2. heap' = o.heap /\ live' = k
    BY <1>1, <2>1 DEF Returns
  <2>3. /\ DOMAIN l0 = DOMAIN live \ {p} /\ LiveOf(l0) \subseteq LiveOf(live)
        /\ \A r \in DOMAIN l0 : l0[r] = live[r]
    BY LiveWithout
  <2>4. Adds(k, l0, q, size)
    BY <2>1, <2>3, WithIs
  <2>5. Adds(l1, live, q, size)
    BY <2>1, WithIs
  <2>6. DOMAIN k \subseteq DOMAIN l1 /\ \A r \in DOMAIN k : k[r] = l1[r]
    <3> HIDE DEF q, l0, k, l1
    <3> QED
      BY <2>3, <2>4, <2>5 DEF Adds
  <2>7. Packed(m1, o.heap.brk, k)
    <3> HIDE DEF m1, k, l1
    <3> QED
      BY <2>1, <2>6, Fewer
  <2>8. IInv'
    BY <1>4, <2>2, <2>7 DEF IInv
  <2>9. A!KeepsExcept(Region(q, size))
    <3>1. \A a \in LiveOf(live) : heap'.mem[a] = heap.mem[a]
      BY <2>1, <2>2
    <3> QED
      BY <3>1, Kept DEF Steady
  <2>10. \A i \in 0 .. Fields(size) - 1 : i < Fields(live[p]) =>
           [a \in LiveOf(live') |-> heap'.mem[a]][q + 4 * i]
             = [a \in LiveOf(live) |-> heap.mem[a]][p + 4 * i]
    <3> SUFFICES ASSUME NEW i \in 0 .. Fields(size) - 1, i < Fields(live[p])
                 PROVE  /\ heap'.mem[q + 4 * i] = heap.mem[p + 4 * i]
                        /\ q + 4 * i \in LiveOf(live') /\ p + 4 * i \in LiveOf(live)
      OBVIOUS
    <3>1. Fields(size) \in Nat /\ Fields(live[p]) \in Nat
      <4>1. size \in Nat /\ live[p] \in Nat /\ p \in Nat /\ p % 8 = 0
        BY SizesAreNat, RegionBelow DEF IInv
      <4> QED
        BY <4>1, RegionIs
    <3>2. i \in Nat /\ i < Fields(size) /\ i \in 0 .. Fields(live[p]) - 1
      BY <3>1
    <3>3. m1[q + 4 * i] = heap.mem[p + 4 * i]
      BY <1>2, <2>1, <3>2 DEF Moved
    <3>4. q + 4 * i \in Region(q, size) /\ p + 4 * i \in Region(p, live[p])
      BY <3>2 DEF Region
    <3>5. p + 4 * i \in LiveOf(live) /\ q + 4 * i \in LiveOf(k)
      <4> HIDE DEF q, k
      <4> QED
        BY <2>4, <3>4 DEF LiveOf, Adds
    <3> QED
      BY <2>2, <3>3, <3>5
  <2>11. /\ A!Region(q, size) = Region(q, size) /\ A!Without(live, p) = l0
         /\ A!With(l0, q, size) = k /\ A!LiveWords(l0) = LiveOf(l0)
         /\ A!Fields(size) = Fields(size) /\ A!Fields(live[p]) = Fields(live[p])
    BY SameRegions
  <2>12. Region(q, size) \cap LiveOf(l0) = {} /\ q \notin DOMAIN live \ {p}
    BY <2>1, <2>3
  <2> HIDE DEF q, m1, l0, k, l1
  <2>13. A!Realloc(p, q, size)
    BY <2>2, <2>9, <2>10, <2>11, <2>12 DEF A!Realloc, A!FSIZE, LiveOf
  <2> QED
    BY <2>1, <2>8, <2>13
<1> QED
  BY <1>2, <1>3, <1>4 DEF Served

LEMMA StepWrites ==
  ASSUME IInv, NEW p \in DOMAIN live, NEW v \in UserWords, Write(p, v)
  PROVE  IInv' /\ A!Write(p, v)
<1> DEFINE m  == heap.mem
           m1 == Filled(m, p, live[p], v)
           R  == Region(p, live[p])
<1>1. heap' = [mem |-> m1, brk |-> heap.brk] /\ live' = live
  <2>1. heap = [mem |-> m, brk |-> heap.brk]
    BY DEF IInv
  <2>2. heap' = [heap EXCEPT !.mem = m1] /\ live' = live
    BY DEF Write
  <2> DEFINE t == heap.brk
  <2> HIDE DEF m, m1, t
  <2>3. heap = [mem |-> m, brk |-> t]
    BY <2>1 DEF t
  <2>4. heap' = [mem |-> m1, brk |-> t]
    BY <2>2, <2>3
  <2> QED
    BY <2>2, <2>4 DEF t
<1>2. Packed(m, heap.brk, live) /\ DOMAIN m = WordsBelow(heap.brk)
  BY DEF IInv, Packed
<1>3. DOMAIN m1 = DOMAIN m /\ \A a \in DOMAIN m : m1[a] = IF a \in R THEN v ELSE m[a]
  BY FilledIs
<1>4. \A a \in LiveOf(live) : a \in DOMAIN m
  BY <1>2, RegionBelow DEF LiveOf
<1> HIDE DEF m1, m
<1>5. Packed(m1, heap.brk, live)
  BY <1>2, <1>3, WritingInside
<1>6. IInv'
  BY <1>1, <1>5 DEF IInv
<1>7. Steady(R)
  BY <1>1, <1>3, <1>4 DEF m, Steady
<1>8. \A a \in R : [b \in LiveOf(live') |-> heap'.mem[b]][a] = v
  BY <1>1, <1>3, <1>4 DEF LiveOf
<1>9. A!Region(p, live[p]) = R
  BY SameRegions
<1> HIDE DEF R
<1> QED
  BY <1>1, <1>6, <1>7, <1>8, <1>9, SameRegions DEF A!Write, A!KeepsExcept, Steady, LiveOf

LEMMA StepIsRight ==
  ASSUME IInv, [Next]_vars
  PROVE  IInv' /\ [A!Next]_(A!vars)
<1>1. CASE UNCHANGED vars
  BY <1>1 DEF vars, IInv, Packed, Stands, A!vars
<1>2. CASE NewTrace
  <2>1. heap' = [mem |-> <<>>, brk |-> 0] /\ live' = <<>>
    BY <1>2 DEF NewTrace
  <2>2. IInv'
    BY <2>1, EmptyHeapIsPacked DEF IInv
  <2>3. A!NewTrace
    BY <2>1 DEF A!NewTrace
  <2> QED
    BY <2>2, <2>3 DEF A!Next
<1>3. ASSUME NEW size \in MallocSizes, Malloc(size) PROVE IInv' /\ [A!Next]_(A!vars)
  <2>1. PICK o \in malloc(heap, size) : Returns(o, live, live, size)
    BY <1>3 DEF Malloc
  <2>2. size \in Sizes
    BY SizesAreNat
  <2>3. Served(o, size)
    BY <2>2, MallocServes
  <2> QED
    BY <2>1, <2>2, <2>3, StepServes DEF A!Next
<1>4. ASSUME NEW size \in CallocSizes, Calloc(1, size) PROVE IInv' /\ [A!Next]_(A!vars)
  <2>1. size \in Sizes /\ 1 * size = size
    BY SizesAreNat
  <2>2. PICK o \in calloc(heap, 1, size) : Returns(o, live, live, size)
    BY <1>4, <2>1 DEF Calloc
  <2>3. Served(o, size)
    BY CallocServes
  <2> QED
    BY <2>1, <2>2, <2>3, StepServes DEF A!Next
<1>5. ASSUME NEW p \in DOMAIN live, Free(p) PROVE IInv' /\ [A!Next]_(A!vars)
  BY <1>5, StepFrees, PointerIs DEF A!Next
<1>6. ASSUME NEW p \in DOMAIN live, NEW size \in ReallocSizes, Realloc(p, size)
      PROVE  IInv' /\ [A!Next]_(A!vars)
  <2>1. size \in Sizes
    BY SizesAreNat
  <2> QED
    BY <1>6, <2>1, StepReallocates, PointerIs DEF A!Next
<1>7. ASSUME NEW p \in DOMAIN live, NEW v \in UserWords, Write(p, v)
      PROVE  IInv' /\ [A!Next]_(A!vars)
  BY <1>7, StepWrites, PointerIs DEF A!Next
<1>8. CASE Next
  BY <1>2, <1>3, <1>4, <1>5, <1>6, <1>7, <1>8 DEF Next
<1> QED
  BY <1>1, <1>8

\* Whatever is asked for and written, and whenever mem_sbrk refuses, the regions
\* of mm-naive.c are disjoint and keep their contents (malloc, realloc, calloc).
THEOREM NaiveImplementsAllocator == Spec => ImplementsAllocator
<1>1. Init => IInv /\ A!Init
  BY EmptyHeapIsPacked DEF Init, IInv, A!Init
<1>2. IInv /\ [Next]_vars => IInv' /\ [A!Next]_(A!vars)
  BY StepIsRight
<1> QED
  BY <1>1, <1>2, PTL DEF Spec, ImplementsAllocator, A!Spec
=============================================================================
