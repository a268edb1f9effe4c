----------------------------- MODULE CacheProofs -----------------------------
(***************************************************************************)
(* Proofs about Cache, for any finite set of connections: the readers'     *)
(* group lock of read_from_cache excludes writers; the block a reader      *)
(* found stays the newest one under its key until the reader leaves; and   *)
(* read_from_cache and write_to_cache each happen at one instant           *)
(* (ObjectCache).                                                          *)
(*                                                                         *)
(* The argument: mutex lets one thread at a time change the group, so the  *)
(* first reader of a group is the only one counted while it waits for w,   *)
(* and the last one is counted no more when it gives w back.  What is in   *)
(* the cache rests on the lock: a step that links, frees or counts a block *)
(* is a writer's, and no reader is inside then.                            *)
(***************************************************************************)
EXTENDS Cache, FiniteSetTheorems, SequenceTheorems, WellFoundedInduction, TLAPS

Closing == At({"close"})
Opening == At({"open"})

LockTypes ==
  /\ mutex \in {0, 1} /\ w \in {0, 1} /\ readers \in Nat
  /\ pc \in [Threads -> Places]
  /\ size \in [Threads -> Sizes \cup {0}]

LockInv ==
  /\ mutex = 1 <=> Inside = {}
  /\ \A t, u \in Inside : t = u
  /\ readers = Cardinality(Counted)
  /\ w = 1 <=> Writing = {} /\ Counted \ Closing = {} /\ Opening = {}
  /\ \A t, u \in Writing : t = u
  /\ Writing # {} => Counted \ Closing = {} /\ Opening = {}
  /\ \A t \in Closing : Counted = {t}
  /\ Opening # {} => Counted = {}

IInv == LockTypes /\ LockInv

InsidePlaces  == {"count", "close", "enter", "uncount", "open", "leave"}
CountedPlaces == {"find", "copy", "refresh", "stamp", "copied", "close", "enter", "uncount"}
WritingPlaces == {"room", "account", "unlock"}

\* The sets of the invariant are sets of threads at some places.
LEMMA SetsAt ==
  /\ Inside = At(InsidePlaces) /\ Counted = At(CountedPlaces) /\ Writing = At(WritingPlaces)
  /\ \A t \in Threads : /\ t \in Inside  <=> pc[t] \in InsidePlaces
                        /\ t \in Counted <=> pc[t] \in CountedPlaces
                        /\ t \in Writing <=> pc[t] \in WritingPlaces
                        /\ t \in Closing <=> pc[t] = "close"
                        /\ t \in Opening <=> pc[t] = "open"
BY DEF At, Inside, Counted, Reading, Writing, Closing, Opening,
       InsidePlaces, CountedPlaces, WritingPlaces

\* What becomes of A, the set of the threads at S, when t moves there.
Follows(A, S, t, there) ==
  \/ (pc[t] \in S <=> there \in S) /\ A' = A
  \/ pc[t] \notin S /\ there \in S /\ A' = A \cup {t}
  \/ pc[t] \in S /\ there \notin S /\ A' = A \ {t}

LEMMA SetMoves ==
  ASSUME LockTypes, NEW t \in Threads, NEW there \in Places, Goto(t, there), NEW S
  PROVE  Follows(At(S), S, t, there)
<1>1. pc' \in [Threads -> Places] /\ pc' = [pc EXCEPT ![t] = there]
  BY DEF LockTypes, Goto
<1>2. \A u \in Threads : pc'[u] = IF u = t THEN there ELSE pc[u]
  BY <1>1 DEF LockTypes
<1>3. At(S) = {u \in Threads : pc[u] \in S} /\ At(S)' = {u \in Threads : pc'[u] \in S}
  BY DEF At
<1>4. CASE pc[t] \in S <=> there \in S
  BY <1>2, <1>3, <1>4 DEF Follows
<1>5. CASE pc[t] \notin S /\ there \in S
  BY <1>2, <1>3, <1>5 DEF Follows
<1>6. CASE pc[t] \in S /\ there \notin S
  BY <1>2, <1>3, <1>6 DEF Follows
<1> QED
  BY <1>4, <1>5, <1>6

LEMMA SetsMove ==
  ASSUME LockTypes, NEW t \in Threads, NEW there \in Places, Goto(t, there)
  PROVE  /\ pc' \in [Threads -> Places]
         /\ Follows(Inside, InsidePlaces, t, there)
         /\ Follows(Counted, CountedPlaces, t, there)
         /\ Follows(Writing, WritingPlaces, t, there)
         /\ Follows(Closing, {"close"}, t, there)
         /\ Follows(Opening, {"open"}, t, there)
<1>1. /\ Inside' = At(InsidePlaces)' /\ Counted' = At(CountedPlaces)'
      /\ Writing' = At(WritingPlaces)'
  BY DEF At, Inside, Counted, Reading, Writing, InsidePlaces, CountedPlaces, WritingPlaces
<1>2. pc' \in [Threads -> Places]
  BY DEF LockTypes, Goto
<1>3. /\ Follows(Inside, InsidePlaces, t, there)
      /\ Follows(Counted, CountedPlaces, t, there)
      /\ Follows(Writing, WritingPlaces, t, there)
  BY <1>1, SetsAt, SetMoves DEF Follows
<1>4. Follows(Closing, {"close"}, t, there) /\ Follows(Opening, {"open"}, t, there)
  BY SetMoves DEF Follows, Closing, Opening
<1> QED
  BY <1>2, <1>3, <1>4

LEMMA CountedIsFinite ==
  /\ IsFiniteSet(Counted)
  /\ \A t : t \notin Counted => Cardinality(Counted \cup {t}) = Cardinality(Counted) + 1
  /\ \A t \in Counted : Cardinality(Counted \ {t}) = Cardinality(Counted) - 1
  /\ Cardinality(Counted) \in Nat
  /\ Cardinality(Counted) = 0 <=> Counted = {}
<1>1. Counted \subseteq Threads
  BY DEF Counted, Reading, At
<1>2. IsFiniteSet(Counted)
  BY <1>1, FS_Subset, ThreadsAssumption
<1> QED
  BY <1>2, FS_AddElement, FS_RemoveElement, FS_EmptySet, FS_CardinalityType

-----------------------------------------------------------------------------
\* A thread that waits for w, or is about to give it back, is inside.
LEMMA ClosingIsCounted ==
  /\ Closing \subseteq Inside \cap Counted
  /\ Opening \subseteq Inside
BY DEF At, Inside, Counted, Closing, Opening

LEMMA InitInv == Init => IInv
<1> SUFFICES ASSUME Init PROVE IInv
  OBVIOUS
<1>1. LockTypes
  BY DEF Init, LockTypes, Places
<1>2. /\ Inside = {} /\ Counted = {} /\ Writing = {} /\ Closing = {} /\ Opening = {}
  BY DEF Init, At, Inside, Counted, Reading, Writing, Closing, Opening
<1>3. Cardinality(Counted) = 0
  BY <1>2, CountedIsFinite
<1>4. mutex = 1 /\ w = 1 /\ readers = 0
  BY DEF Init
<1>5. LockInv
  BY <1>2, <1>3, <1>4 DEF LockInv
<1> QED
  BY <1>1, <1>5 DEF IInv

\* A thread that stays among the readers, among the writers or outside, and
\* touches no semaphore, disturbs nothing.
LEMMA QuietMove ==
  ASSUME IInv, NEW t \in Threads, NEW there \in Places, Goto(t, there),
         UNCHANGED <<mutex, w, readers>>, size' \in [Threads -> Sizes \cup {0}],
         \/ /\ pc[t] \in {"find", "copy", "refresh", "stamp"}
            /\ there \in {"copy", "refresh", "stamp", "copied"}
         \/ pc[t] \in {"room", "account"} /\ there \in {"account", "unlock"}
         \/ pc[t] = "fetch" /\ there \in {"write", "done"}
  PROVE  IInv'
<1>0. LockTypes /\ LockInv
  BY DEF IInv
<1>1. /\ Inside' = Inside /\ Counted' = Counted /\ Writing' = Writing
      /\ Closing' = Closing /\ Opening' = Opening
  <2>1. CASE /\ pc[t] \in {"find", "copy", "refresh", "stamp"}
             /\ there \in {"copy", "refresh", "stamp", "copied"}
    BY <1>0, <2>1, SetsMove DEF Follows, InsidePlaces, CountedPlaces, WritingPlaces
  <2>2. CASE pc[t] \in {"room", "account"} /\ there \in {"account", "unlock"}
    BY <1>0, <2>2, SetsMove DEF Follows, InsidePlaces, CountedPlaces, WritingPlaces
  <2>3. CASE pc[t] = "fetch" /\ there \in {"write", "done"}
    BY <1>0, <2>3, SetsMove DEF Follows, InsidePlaces, CountedPlaces, WritingPlaces
  <2> QED
    BY <2>1, <2>2, <2>3
<1>2. LockInv'
  BY <1>0, <1>1 DEF LockInv
<1>3. LockTypes'
  BY <1>0, SetsMove DEF Follows, LockTypes
<1> QED
  BY <1>2, <1>3 DEF IInv

\* The mutex was free, so nobody was inside.
LEMMA ReadLockInv ==
  ASSUME IInv, NEW t \in Threads, ReadLock(t)
  PROVE  IInv'
<1>0. LockTypes /\ LockInv
  BY DEF IInv
<1>1. PICK there \in Places : /\ Goto(t, there)
                             /\ \/ pc[t] = "start" /\ there = "count"
                                \/ pc[t] = "copied" /\ there = "uncount"
  BY DEF ReadLock, Places
<1>2. mutex = 1 /\ mutex' = 0 /\ UNCHANGED <<w, readers, size>>
  BY DEF ReadLock, local
<1>3. /\ Inside' = Inside \cup {t} /\ Counted' = Counted /\ Writing' = Writing
      /\ Closing' = Closing /\ Opening' = Opening /\ pc' \in [Threads -> Places]
  BY <1>0, <1>1, SetsMove DEF Follows, InsidePlaces, CountedPlaces, WritingPlaces
<1>4. Inside = {}
  BY <1>0, <1>2 DEF LockInv
<1>5. LockInv'
  BY <1>0, <1>2, <1>3, <1>4 DEF LockInv
<1>6. LockTypes'
  BY <1>0, <1>2, <1>3 DEF LockTypes
<1> QED
  BY <1>5, <1>6 DEF IInv

\* The first reader finds nobody counted; a later one finds w already taken.
LEMMA CountInv ==
  ASSUME IInv, NEW t \in Threads, Count(t)
  PROVE  IInv'
<1>0. LockTypes /\ LockInv
  BY DEF IInv
<1>1. pc[t] = "count" /\ readers' = readers + 1 /\ UNCHANGED <<mutex, w, size>>
  BY DEF Count, local
<1>2. Inside = {t} /\ t \notin Counted /\ Closing = {} /\ Opening = {}
  <2>1. t \in Inside /\ t \notin Counted
    BY <1>1, SetsAt DEF InsidePlaces, CountedPlaces
  <2>2. Inside = {t}
    BY <1>0, <2>1 DEF LockInv
  <2>3. /\ Closing \subseteq Inside /\ t \notin Closing
        /\ Opening \subseteq Inside /\ t \notin Opening
    BY <1>1 DEF Closing, Opening, Inside, At
  <2> QED
    BY <2>1, <2>2, <2>3
<1>3. readers' = Cardinality(Counted \cup {t}) /\ readers \in Nat
  BY <1>0, <1>1, <1>2, CountedIsFinite DEF LockInv
<1>4. CASE readers' = 1
  <2>1. Goto(t, "close") /\ Counted = {}
    BY <1>0, <1>1, <1>4, CountedIsFinite DEF Count, LockInv
  <2>2. /\ Inside' = Inside /\ Counted' = Counted \cup {t} /\ Writing' = Writing
        /\ Closing' = Closing \cup {t} /\ Opening' = Opening /\ pc' \in [Threads -> Places]
    BY <1>0, <1>1, <2>1, SetsMove
       DEF Follows, Places, InsidePlaces, CountedPlaces, WritingPlaces
  <2>3. LockInv'
    BY <1>0, <1>1, <1>2, <1>3, <2>1, <2>2 DEF LockInv
  <2>4. LockTypes'
    BY <1>0, <1>1, <2>2 DEF LockTypes
  <2> QED
    BY <2>3, <2>4 DEF IInv
<1>5. CASE readers' # 1
  <2>1. Goto(t, "enter") /\ Counted # {}
    BY <1>0, <1>1, <1>5, CountedIsFinite DEF Count, LockInv
  <2>2. /\ Inside' = Inside /\ Counted' = Counted \cup {t} /\ Writing' = Writing
        /\ Closing' = Closing /\ Opening' = Opening /\ pc' \in [Threads -> Places]
    BY <1>0, <1>1, <2>1, SetsMove
       DEF Follows, Places, InsidePlaces, CountedPlaces, WritingPlaces
  <2>3. LockInv'
    BY <1>0, <1>1, <1>2, <1>3, <2>1, <2>2 DEF LockInv
  <2>4. LockTypes'
    BY <1>0, <1>1, <2>2 DEF LockTypes
  <2> QED
    BY <2>3, <2>4 DEF IInv
<1> QED
  BY <1>4, <1>5

\* w was free, so no writer is at work, and the thread is the only one counted.
LEMMA CloseToWritersInv ==
  ASSUME IInv, NEW t \in Threads, CloseToWriters(t)
  PROVE  IInv'
<1>0. LockTypes /\ LockInv
  BY DEF IInv
<1>1. pc[t] = "close" /\ Goto(t, "enter") /\ w = 1 /\ w' = 0
      /\ UNCHANGED <<mutex, readers, size>>
  BY DEF CloseToWriters, local
<1>2. /\ Inside' = Inside /\ Counted' = Counted /\ Writing' = Writing
      /\ Closing' = Closing \ {t} /\ Opening' = Opening /\ pc' \in [Threads -> Places]
  BY <1>0, <1>1, SetsMove DEF Follows, Places, InsidePlaces, CountedPlaces, WritingPlaces
<1>3. Counted = {t} /\ Closing = {t} /\ Writing = {} /\ Opening = {}
      /\ \A u \in Closing : u = t
  BY <1>0, <1>1, ClosingIsCounted, SetsAt DEF LockInv, InsidePlaces, CountedPlaces, WritingPlaces
<1>4. LockInv'
  BY <1>0, <1>1, <1>2, <1>3 DEF LockInv
<1>5. LockTypes'
  BY <1>0, <1>1, <1>2, <1>3 DEF LockTypes
<1> QED
  BY <1>4, <1>5 DEF IInv

\* mutex is given back by the only thread inside.
LEMMA EnterInv ==
  ASSUME IInv, NEW t \in Threads, Enter(t)
  PROVE  IInv'
<1>0. LockTypes /\ LockInv
  BY DEF IInv
<1>1. pc[t] = "enter" /\ Goto(t, "find") /\ mutex' = 1
      /\ UNCHANGED <<w, readers, size>>
  BY DEF Enter, local
<1>2. /\ Inside' = Inside \ {t} /\ Counted' = Counted /\ Writing' = Writing
      /\ Closing' = Closing /\ Opening' = Opening /\ pc' \in [Threads -> Places]
  BY <1>0, <1>1, SetsMove DEF Follows, Places, InsidePlaces, CountedPlaces, WritingPlaces
<1>3. Inside = {t}
  BY <1>0, <1>1, SetsAt DEF LockInv, InsidePlaces, CountedPlaces, WritingPlaces
<1>4. LockInv'
  BY <1>0, <1>1, <1>2, <1>3 DEF LockInv
<1>5. LockTypes'
  BY <1>0, <1>1, <1>2, <1>3 DEF LockTypes
<1> QED
  BY <1>4, <1>5 DEF IInv

\* The last reader is counted no more and alone about to give w back.
LEMMA UncountInv ==
  ASSUME IInv, NEW t \in Threads, Uncount(t)
  PROVE  IInv'
<1>0. LockTypes /\ LockInv
  BY DEF IInv
<1>1. pc[t] = "uncount" /\ readers' = readers - 1 /\ UNCHANGED <<mutex, w, size>>
  BY DEF Uncount, local
<1>2. Inside = {t} /\ t \in Counted /\ Closing = {} /\ Opening = {}
  <2>1. t \in Inside /\ t \in Counted
    BY <1>1, SetsAt DEF InsidePlaces, CountedPlaces
  <2>2. Inside = {t}
    BY <1>0, <2>1 DEF LockInv
  <2>3. /\ Closing \subseteq Inside /\ t \notin Closing
        /\ Opening \subseteq Inside /\ t \notin Opening
    BY <1>1 DEF Closing, Opening, Inside, At
  <2> QED
    BY <2>1, <2>2, <2>3
<1>3. readers' = Cardinality(Counted \ {t}) /\ readers' \in Nat
      /\ (readers' = 0 <=> Counted \ {t} = {})
  <2>1. readers = Cardinality(Counted)
    BY <1>0 DEF LockInv
  <2>2. Cardinality(Counted \ {t}) = Cardinality(Counted) - 1
    BY <1>2, CountedIsFinite
  <2>3. IsFiniteSet(Counted \ {t})
    BY CountedIsFinite, FS_RemoveElement
  <2>4. /\ Cardinality(Counted \ {t}) \in Nat
        /\ Cardinality(Counted \ {t}) = 0 <=> Counted \ {t} = {}
    BY <2>3, FS_EmptySet, FS_CardinalityType
  <2> QED
    BY <1>1, <2>1, <2>2, <2>4
<1>4. w = 0 /\ Writing = {}
  BY <1>0, <1>2 DEF LockInv, LockTypes
<1>5. CASE readers' = 0
  <2>1. Goto(t, "open")
    BY <1>5 DEF Uncount
  <2>2. /\ Inside' = Inside /\ Counted' = Counted \ {t} /\ Writing' = Writing
        /\ Closing' = Closing /\ Opening' = Opening \cup {t} /\ pc' \in [Threads -> Places]
    BY <1>0, <1>1, <2>1, SetsMove
       DEF Follows, Places, InsidePlaces, CountedPlaces, WritingPlaces
  <2>3. LockInv'
    BY <1>0, <1>1, <1>2, <1>3, <1>4, <1>5, <2>2 DEF LockInv
  <2>4. LockTypes'
    BY <1>0, <1>1, <1>3, <2>2 DEF LockTypes
  <2> QED
    BY <2>3, <2>4 DEF IInv
<1>6. CASE readers' # 0
  <2>1. Goto(t, "leave")
    BY <1>6 DEF Uncount
  <2>2. /\ Inside' = Inside /\ Counted' = Counted \ {t} /\ Writing' = Writing
        /\ Closing' = Closing /\ Opening' = Opening /\ pc' \in [Threads -> Places]
    BY <1>0, <1>1, <2>1, SetsMove
       DEF Follows, Places, InsidePlaces, CountedPlaces, WritingPlaces
  <2>3. LockInv'
    BY <1>0, <1>1, <1>2, <1>3, <1>4, <1>6, <2>2 DEF LockInv
  <2>4. LockTypes'
    BY <1>0, <1>1, <1>3, <2>2 DEF LockTypes
  <2> QED
    BY <2>3, <2>4 DEF IInv
<1> QED
  BY <1>5, <1>6

\* w is given back by the last reader, when nobody is counted.
LEMMA OpenToWritersInv ==
  ASSUME IInv, NEW t \in Threads, OpenToWriters(t)
  PROVE  IInv'
<1>0. LockTypes /\ LockInv
  BY DEF IInv
<1>1. pc[t] = "open" /\ Goto(t, "leave") /\ w' = 1
      /\ UNCHANGED <<mutex, readers, size>>
  BY DEF OpenToWriters, local
<1>2. /\ Inside' = Inside /\ Counted' = Counted /\ Writing' = Writing
      /\ Closing' = Closing /\ Opening' = Opening \ {t} /\ pc' \in [Threads -> Places]
  BY <1>0, <1>1, SetsMove DEF Follows, Places, InsidePlaces, CountedPlaces, WritingPlaces
<1>3. Counted = {} /\ Writing = {} /\ Closing = {} /\ Opening = {t}
  BY <1>0, <1>1, ClosingIsCounted, SetsAt DEF LockInv, InsidePlaces, CountedPlaces, WritingPlaces
<1>4. LockInv'
  BY <1>0, <1>1, <1>2, <1>3 DEF LockInv
<1>5. LockTypes'
  BY <1>0, <1>1, <1>2, <1>3 DEF LockTypes
<1> QED
  BY <1>4, <1>5 DEF IInv

\* mutex is given back by the only thread inside.
LEMMA LeaveInv ==
  ASSUME IInv, NEW t \in Threads, Leave(t)
  PROVE  IInv'
<1>0. LockTypes /\ LockInv
  BY DEF IInv
<1>1. pc[t] = "leave" /\ mutex' = 1 /\ UNCHANGED <<w, readers, size>>
      /\ (Goto(t, "fetch") \/ Goto(t, "done"))
  BY DEF Leave, local
<1>2. /\ Inside' = Inside \ {t} /\ Counted' = Counted /\ Writing' = Writing
      /\ Closing' = Closing /\ Opening' = Opening /\ pc' \in [Threads -> Places]
  BY <1>0, <1>1, SetsMove DEF Follows, Places, InsidePlaces, CountedPlaces, WritingPlaces
<1>3. Inside = {t}
  BY <1>0, <1>1, SetsAt DEF LockInv, InsidePlaces, CountedPlaces, WritingPlaces
<1>4. LockInv'
  BY <1>0, <1>1, <1>2, <1>3 DEF LockInv
<1>5. LockTypes'
  BY <1>0, <1>1, <1>2, <1>3 DEF LockTypes
<1> QED
  BY <1>4, <1>5 DEF IInv

\* w was free: neither a writer nor a group of readers owns it.  Every size fits,
\* so the writer goes on to make room.
LEMMA WriteLockInv ==
  ASSUME IInv, NEW t \in Threads, WriteLock(t)
  PROVE  IInv'
<1>0. LockTypes /\ LockInv
  BY DEF IInv
<1>1. pc[t] = "write" /\ Goto(t, "room") /\ w = 1 /\ w' = 0
      /\ UNCHANGED <<mutex, readers, size>>
  <2>1. size[t] \in Sizes \cup {0}
    BY <1>0 DEF LockTypes
  <2>2. \A n \in 0 .. MaxSize : ~(n > MaxSize)
    BY SizesAssumption
  <2>3. size[t] \in 0 .. MaxSize
    <3>1. MaxSize \in Nat /\ Sizes \subseteq 0 .. MaxSize
      BY SizesAssumption
    <3>2. 0 \in 0 .. MaxSize
      BY <3>1
    <3> QED
      BY <2>1, <3>1, <3>2, Zenon
  <2>4. ~(size[t] > MaxSize)
    BY <2>2, <2>3, Zenon
  <2> QED
    BY <2>4 DEF WriteLock, local
<1>2. /\ Inside' = Inside /\ Counted' = Counted /\ Writing' = Writing \cup {t}
      /\ Closing' = Closing /\ Opening' = Opening /\ pc' \in [Threads -> Places]
  BY <1>0, <1>1, SetsMove DEF Follows, Places, InsidePlaces, CountedPlaces, WritingPlaces
<1>3. Writing = {} /\ Counted \ Closing = {} /\ Opening = {}
  BY <1>0, <1>1, SetsAt DEF LockInv, InsidePlaces, CountedPlaces, WritingPlaces
<1>4. LockInv'
  BY <1>0, <1>1, <1>2, <1>3 DEF LockInv
<1>5. LockTypes'
  BY <1>0, <1>1, <1>2, <1>3 DEF LockTypes
<1> QED
  BY <1>4, <1>5 DEF IInv

\* w is given back by the only writer.
LEMMA WriteUnlockInv ==
  ASSUME IInv, NEW t \in Threads, WriteUnlock(t)
  PROVE  IInv'
<1>0. LockTypes /\ LockInv
  BY DEF IInv
<1>1. pc[t] = "unlock" /\ Goto(t, "done") /\ w' = 1
      /\ UNCHANGED <<mutex, readers, size>>
  BY DEF WriteUnlock, local
<1>2. /\ Inside' = Inside /\ Counted' = Counted /\ Writing' = Writing \ {t}
      /\ Closing' = Closing /\ Opening' = Opening /\ pc' \in [Threads -> Places]
  BY <1>0, <1>1, SetsMove DEF Follows, Places, InsidePlaces, CountedPlaces, WritingPlaces
<1>3. Writing = {t} /\ Counted \ Closing = {} /\ Opening = {}
  BY <1>0, <1>1, SetsAt DEF LockInv, InsidePlaces, CountedPlaces, WritingPlaces
<1>4. LockInv'
  BY <1>0, <1>1, <1>2, <1>3 DEF LockInv
<1>5. LockTypes'
  BY <1>0, <1>1, <1>2, <1>3 DEF LockTypes
<1> QED
  BY <1>4, <1>5 DEF IInv

-----------------------------------------------------------------------------
LEMMA ThreadInv ==
  ASSUME IInv, NEW t \in Threads, Thread(t)
  PROVE  IInv'
<1>0. /\ size \in [Threads -> Sizes \cup {0}]
      /\ pc \in [Threads -> Places]
  BY DEF IInv, LockTypes
<1>1. CASE Find(t)
  BY <1>0, <1>1, QuietMove DEF Find, cache, Places
<1>2. CASE Copy(t)
  BY <1>0, <1>2, QuietMove DEF Copy, cache, Places
<1>3. CASE RefreshLock(t)
  BY <1>0, <1>3, QuietMove DEF RefreshLock, local, Places
<1>4. CASE Stamp(t)
  BY <1>0, <1>4, QuietMove DEF Stamp, local, Places
<1>5. CASE Fetch(t)
  BY <1>0, <1>5, QuietMove DEF Fetch, cache, Places
<1>6. CASE Evict(t)
  <2>1. UNCHANGED <<mutex, w, readers, pc, size>>
    BY <1>6 DEF Evict, local
  <2> QED
    BY <2>1 DEF IInv, LockTypes, LockInv, Inside, Counted, Reading, Writing, Closing,
                Opening, At
<1>7. CASE Add(t)
  BY <1>0, <1>7, QuietMove DEF Add, local, Places
<1>8. CASE Account(t)
  BY <1>0, <1>8, QuietMove DEF Account, local, Places
<1>9. CASE \/ ReadLock(t) \/ Count(t) \/ CloseToWriters(t) \/ Enter(t)
          \/ Uncount(t) \/ OpenToWriters(t) \/ Leave(t)
          \/ WriteLock(t) \/ WriteUnlock(t)
  BY <1>9, ReadLockInv, CountInv, CloseToWritersInv, EnterInv, UncountInv,
     OpenToWritersInv, LeaveInv, WriteLockInv, WriteUnlockInv
<1> QED
  BY <1>1, <1>2, <1>3, <1>4, <1>5, <1>6, <1>7, <1>8, <1>9
     DEF Thread, read_from_cache, write_to_cache

\* The lock protocol of cache.c keeps its invariant, whatever the number of
\* connections: mutex has one holder, readers is the size of the group, and w
\* is down exactly while a writer or a group owns it.
THEOREM LockIsKept == Spec => []IInv
<1>1. IInv /\ [Next]_vars => IInv'
  <2> SUFFICES ASSUME IInv, [Next]_vars PROVE IInv'
    OBVIOUS
  <2>1. CASE \E t \in Threads : Thread(t)
    BY <2>1, ThreadInv
  <2>2. CASE UNCHANGED <<mutex, w, readers, pc, size>>
    BY <2>2 DEF IInv, LockTypes, LockInv, Inside, Counted, Reading, Writing, Closing,
                Opening, At
  <2> QED
    BY <2>1, <2>2 DEF Next, Tick, cache, local, vars
<1> QED
  BY <1>1, InitInv, PTL DEF Spec

\* While write_to_cache holds w, no other thread writes and no thread searches,
\* copies or stamps inside read_from_cache.
THEOREM WritersStayAlone == Spec => []WritersAreAlone
<1>1. IInv => WritersAreAlone
  <2> SUFFICES ASSUME IInv, NEW t \in Writing PROVE Reading = {} /\ Writing = {t}
    BY DEF WritersAreAlone
  <2>1. Reading \subseteq Counted \ Closing
    BY DEF Counted, Reading, Closing, At
  <2> QED
    BY <2>1 DEF IInv, LockInv
<1> QED
  BY <1>1, LockIsKept, PTL

\* mutex, w and readers count what they guard at every step of every thread.
THEOREM SemaphoresDoAgree == Spec => []SemaphoresAgree
<1>1. IInv => SemaphoresAgree
  BY DEF IInv, LockInv, SemaphoresAgree, Closing, Opening
<1> QED
  BY <1>1, LockIsKept, PTL

-----------------------------------------------------------------------------
\* What is in the cache.
Blocks == [key : Keys, size : Sizes, timestamp : 0 .. MaxClock, mutex : {0, 1}]

DataTypes ==
  /\ list \in Seq(Threads)
  /\ block \in [Threads -> Blocks \cup {NULL}]
  /\ \A i \in DOMAIN list : block[list[i]] \in Blocks
  /\ clock \in 0 .. MaxClock
  /\ available \in 0 .. MaxSize
  /\ key \in [Threads -> Keys]
  /\ ptr \in [Threads -> Threads \cup {NULL}]
  /\ got \in [Threads -> Threads \cup {NULL}]
  /\ crashed \in BOOLEAN

\* What a thread knows at each place.
Searching == {"start", "count", "close", "enter", "find"}
Left      == {"copied", "uncount", "open", "leave", "done"}
Added     == {"account", "unlock", "done"}
Missed    == {"fetch", "write", "room", "account", "unlock"}

Knows(t) ==
  /\ pc[t] \in Searching \cup Missed => ptr[t] = NULL /\ got[t] = NULL
  /\ pc[t] = "copy" => ptr[t] # NULL /\ got[t] = NULL
  /\ pc[t] \in {"refresh", "stamp"} => ptr[t] # NULL /\ got[t] = ptr[t]
  /\ pc[t] \in Left => got[t] = ptr[t]
  /\ pc[t] \in {"write", "room", "account", "unlock"} => size[t] \in Sizes
  /\ pc[t] = "account" => size[t] <= available
  /\ pc[t] \notin Added => \A i \in DOMAIN list : list[i] # t

Stable(t) ==
  pc[t] \in {"copy", "refresh", "stamp", "copied"} => ptr[t] = find_elem(key[t])

DataInv ==
  /\ DataTypes
  /\ \A t \in Threads : Knows(t) /\ Stable(t)

CInv == IInv /\ DataInv

-----------------------------------------------------------------------------
\* A set of naturals that is not empty has a least element.
LEMMA MinIsMember ==
  ASSUME NEW S, S \subseteq Nat, S # {}
  PROVE  Min(S) \in S /\ \A n \in S : Min(S) <= n
<1> DEFINE less == {pair \in Nat \X Nat : pair[1] < pair[2]}
<1>1. less = OpToRel(<, Nat)
  BY DEF OpToRel
<1>2. IsWellFoundedOn(less, Nat)
  BY <1>1, NatLessThanWellFounded
<1>3. PICK m \in S : \A n \in S : ~ (<<n, m>> \in less)
  BY <1>2, WFMin
<1>4. ASSUME NEW n \in S PROVE m <= n
  <2>1. m \in Nat /\ n \in Nat
    OBVIOUS
  <2>2. ~ (n < m)
    BY <1>3, <2>1
  <2> QED
    BY <2>1, <2>2
<1> QED
  BY <1>4 DEF Min

\* find_elem returns a linked block, under the key it was asked for.
LEMMA FindsBlock ==
  ASSUME list \in Seq(Threads), NEW k, find_elem(k) # NULL
  PROVE  \E i \in DOMAIN list : list[i] = find_elem(k) /\ block[list[i]].key = k
<1> DEFINE hits == {i \in DOMAIN list : block[list[i]].key = k}
<1>1. hits # {} /\ find_elem(k) = list[Min(hits)]
  BY DEF find_elem
<1>2. hits \subseteq Nat
  OBVIOUS
<1>3. Min(hits) \in hits
  BY <1>1, <1>2, MinIsMember
<1> QED
  BY <1>1, <1>3

\* A step that leaves the list and the keys of its blocks alone leaves every
\* search as it was.
LEMMA FindFrame ==
  ASSUME UNCHANGED <<list, key>>, NEW t,
         \A i \in DOMAIN list : block'[list[i]].key = block[list[i]].key
  PROVE  find_elem(key[t])' = find_elem(key[t])
<1>1. {i \in DOMAIN list : block[list[i]].key = key[t]}'
        = {i \in DOMAIN list : block[list[i]].key = key[t]}
  OBVIOUS
<1> QED
  BY <1>1 DEF find_elem

\* No timestamp is above INT_MAX: the scan finds nothing.
LEMMA ScanFindsNothing ==
  ASSUME DataTypes
  PROVE  find_least_recent_used = NULL
<1>1. \A i \in DOMAIN list : ~ (block[list[i]].timestamp > INT_MAX)
  BY ClockAssumption DEF DataTypes, Blocks
<1> QED
  BY <1>1 DEF find_least_recent_used

-----------------------------------------------------------------------------
LEMMA DataInit == Init => DataInv
<1> SUFFICES ASSUME Init PROVE DataInv
  OBVIOUS
<1>1. DataTypes
  <2>1. list = <<>> /\ clock = 0 /\ available = MaxSize
    BY DEF Init
  <2>2. clock \in 0 .. MaxClock /\ available \in 0 .. MaxSize
    BY <2>1, ClockAssumption, SizesAssumption
  <2>3. list \in Seq(Threads) /\ \A i \in DOMAIN list : block[list[i]] \in Blocks
    BY <2>1
  <2>4. /\ block \in [Threads -> Blocks \cup {NULL}] /\ key \in [Threads -> Keys]
        /\ ptr \in [Threads -> Threads \cup {NULL}]
        /\ got \in [Threads -> Threads \cup {NULL}] /\ crashed \in BOOLEAN
    BY DEF Init
  <2> QED
    BY <2>2, <2>3, <2>4 DEF DataTypes
<1>2. \A t \in Threads : Knows(t) /\ Stable(t)
  BY DEF Init, Knows, Stable, Searching, Missed, Left, Added
<1> QED
  BY <1>1, <1>2 DEF DataInv

\* A thread that takes or gives a semaphore of the cache learns nothing.
LEMMA LockStep ==
  ASSUME CInv, NEW t \in Threads,
         \/ ReadLock(t) \/ Count(t) \/ CloseToWriters(t) \/ Enter(t)
         \/ Uncount(t) \/ OpenToWriters(t) \/ Leave(t)
         \/ WriteLock(t) \/ WriteUnlock(t)
  PROVE  DataInv'
<1>0. DataInv /\ pc \in [Threads -> Places]
  BY DEF CInv, IInv, LockTypes
<1>1. UNCHANGED <<list, block, available, clock, crashed, key, size, ptr, got>>
  BY DEF local, ReadLock, Count, CloseToWriters, Enter, Uncount, OpenToWriters, Leave,
         WriteLock, WriteUnlock
<1>2. PICK there : /\ Goto(t, there)
                   /\ \/ pc[t] \in Searching /\ there \in Searching
                      \/ pc[t] \in Left \ {"done"} /\ there \in Left \ {"copied"}
                      \/ pc[t] = "leave" /\ there = "fetch" /\ got[t] = NULL
                      \/ pc[t] = "write" /\ there \in {"done", "room"}
                      \/ pc[t] = "unlock" /\ there = "done"
  BY DEF ReadLock, Count, CloseToWriters, Enter, Uncount, OpenToWriters, Leave,
         WriteLock, WriteUnlock, Searching, Left
<1>3. DataTypes'
  BY <1>0, <1>1 DEF DataInv, DataTypes
<1>4. ASSUME NEW u \in Threads PROVE Knows(u)' /\ Stable(u)'
  <2>1. pc'[u] = IF u = t THEN there ELSE pc[u]
    BY <1>0, <1>2 DEF Goto
  <2>2. Knows(u) /\ Stable(u)
    BY <1>0 DEF DataInv
  <2>3. find_elem(key[u])' = find_elem(key[u])
    BY <1>1, FindFrame
  <2> QED
    BY <1>1, <1>2, <2>1, <2>2, <2>3 DEF Knows, Stable, Searching, Left, Added, Missed
<1> QED
  BY <1>3, <1>4 DEF DataInv

LEMMA FindStep ==
  ASSUME CInv, NEW t \in Threads, Find(t) \/ Copy(t)
  PROVE  DataInv'
<1>0. DataInv /\ pc \in [Threads -> Places]
  BY DEF CInv, IInv, LockTypes
<1>1. UNCHANGED <<list, block, available, clock, crashed, key, size>>
  BY DEF Find, Copy, cache
<1>2. \A u \in Threads : find_elem(key[u])' = find_elem(key[u])
  BY <1>1, FindFrame
<1>3. find_elem(key[t]) \in Threads \cup {NULL}
  <2>1. CASE find_elem(key[t]) # NULL
    BY <1>0, <2>1, FindsBlock, ElementOfSeq DEF DataInv, DataTypes
  <2> QED
    BY <2>1
<1>4. DataTypes'
  BY <1>0, <1>1, <1>3 DEF DataInv, DataTypes, Find, Copy
<1>5. ASSUME NEW u \in Threads PROVE Knows(u)' /\ Stable(u)'
  <2>1. Knows(u) /\ Stable(u) /\ Knows(t) /\ Stable(t)
    BY <1>0 DEF DataInv
  <2>2. CASE u # t
    <3>1. pc'[u] = pc[u] /\ ptr'[u] = ptr[u] /\ got'[u] = got[u]
      BY <1>0, <2>2 DEF Find, Copy, Goto, DataInv, DataTypes
    <3> QED
      BY <1>1, <1>2, <2>1, <3>1 DEF Knows, Stable
  <2>3. CASE u = t /\ Find(t)
    <3>1. /\ pc[t] = "find" /\ ptr'[t] = find_elem(key[t]) /\ got'[t] = NULL
          /\ pc'[t] = IF ptr'[t] = NULL THEN "copied" ELSE "copy"
      BY <1>0, <2>1, <2>3 DEF Find, Goto, Knows, Searching, DataInv, DataTypes
    <3> QED
      BY <1>1, <1>2, <2>1, <2>3, <3>1 DEF Knows, Stable, Searching, Left, Added, Missed
  <2>4. CASE u = t /\ Copy(t)
    <3>1. /\ pc[t] = "copy" /\ ptr'[t] = ptr[t] /\ got'[t] = ptr[t] /\ pc'[t] = "refresh"
      BY <1>0, <2>4 DEF Copy, Goto, DataInv, DataTypes
    <3> QED
      BY <1>1, <1>2, <2>1, <2>4, <3>1 DEF Knows, Stable, Searching, Left, Added, Missed
  <2> QED
    BY <2>2, <2>3, <2>4
<1> QED
  BY <1>4, <1>5 DEF DataInv

\* refresh writes the mutex and the timestamp of a linked block.
LEMMA RefreshStep ==
  ASSUME CInv, NEW t \in Threads, RefreshLock(t) \/ Stamp(t)
  PROVE  DataInv'
<1>0. DataInv /\ pc \in [Threads -> Places]
  BY DEF CInv, IInv, LockTypes
<1>1. UNCHANGED <<list, available, clock, crashed, key, size, ptr, got>>
      /\ pc[t] \in {"refresh", "stamp"}
  BY DEF RefreshLock, Stamp, local
<1>2. ptr[t] \in Threads /\ block[ptr[t]] \in Blocks
  <2>1. Knows(t) /\ Stable(t)
    BY <1>0 DEF DataInv
  <2>2. ptr[t] # NULL /\ ptr[t] = find_elem(key[t])
    BY <1>1, <2>1 DEF Knows, Stable
  <2>3. PICK i \in DOMAIN list : list[i] = ptr[t]
    BY <1>0, <2>2, FindsBlock DEF DataInv, DataTypes
  <2> QED
    BY <1>0, <2>2, <2>3 DEF DataInv, DataTypes
<1>3. \E stamp \in 0 .. MaxClock, m \in {0, 1} :
        block' = [block EXCEPT ![ptr[t]] = [@ EXCEPT !.timestamp = stamp, !.mutex = m]]
  <2>1. CASE RefreshLock(t)
    <3>1. block' = [block EXCEPT ![ptr[t]] =
                     [@ EXCEPT !.timestamp = block[ptr[t]].timestamp, !.mutex = 0]]
      BY <1>0, <1>2, <2>1 DEF RefreshLock, Blocks, DataInv, DataTypes
    <3> QED
      BY <1>2, <3>1 DEF Blocks
  <2>2. CASE Stamp(t)
    <3>1. block' = [block EXCEPT ![ptr[t]] = [@ EXCEPT !.timestamp = clock, !.mutex = 1]]
      BY <1>0, <1>2, <2>2 DEF Stamp, Blocks, DataInv, DataTypes
    <3> QED
      BY <1>0, <3>1 DEF DataInv, DataTypes
  <2> QED
    BY <2>1, <2>2
<1>4. /\ block' \in [Threads -> Blocks \cup {NULL}]
      /\ \A b \in Threads : /\ block[b] \in Blocks => block'[b] \in Blocks
                            /\ block[b] \in Blocks => block'[b].key = block[b].key
  <2>1. PICK stamp \in 0 .. MaxClock, m \in {0, 1} :
          block' = [block EXCEPT ![ptr[t]] = [@ EXCEPT !.timestamp = stamp, !.mutex = m]]
    BY <1>3
  <2> DEFINE fresh == [block[ptr[t]] EXCEPT !.timestamp = stamp, !.mutex = m]
  <2>2. fresh \in Blocks /\ fresh.key = block[ptr[t]].key
    BY <1>2 DEF Blocks
  <2>3. block \in [Threads -> Blocks \cup {NULL}] /\ block' = [block EXCEPT ![ptr[t]] = fresh]
    BY <1>0, <2>1 DEF DataInv, DataTypes
  <2> HIDE DEF fresh
  <2> QED
    BY <1>2, <2>2, <2>3
<1>5. DataTypes'
  BY <1>0, <1>1, <1>4, ElementOfSeq DEF DataInv, DataTypes
<1>6. \A i \in DOMAIN list : block'[list[i]].key = block[list[i]].key
  BY <1>0, <1>4, ElementOfSeq DEF DataInv, DataTypes
<1>7. ASSUME NEW u \in Threads PROVE Knows(u)' /\ Stable(u)'
  <2>1. Knows(u) /\ Stable(u)
    BY <1>0 DEF DataInv
  <2>2. find_elem(key[u])' = find_elem(key[u])
    BY <1>1, <1>6, FindFrame
  <2>3. \/ pc'[u] = pc[u]
        \/ pc[u] = "refresh" /\ pc'[u] = "stamp"
        \/ pc[u] = "stamp" /\ pc'[u] = "copied"
    BY <1>0 DEF RefreshLock, Stamp, Goto
  <2> QED
    BY <1>1, <2>1, <2>2, <2>3 DEF Knows, Stable, Searching, Left, Added, Missed
<1> QED
  BY <1>5, <1>7 DEF DataInv

-----------------------------------------------------------------------------
\* The origin's answer touches the size only.
LEMMA FetchStep ==
  ASSUME CInv, NEW t \in Threads, Fetch(t)
  PROVE  DataInv'
<1>0. DataInv /\ LockTypes
  BY DEF CInv, IInv
<1>1. UNCHANGED <<list, block, available, clock, crashed, key, ptr, got>> /\ pc[t] = "fetch"
  BY DEF Fetch, cache
<1>2. DataTypes'
  BY <1>0, <1>1 DEF Fetch, DataInv, DataTypes, cache
<1>3. ASSUME NEW u \in Threads PROVE Knows(u)' /\ Stable(u)'
  <2>1. Knows(u) /\ Stable(u)
    BY <1>0 DEF DataInv
  <2>2. find_elem(key[u])' = find_elem(key[u])
    BY <1>1, FindFrame
  <2>3. \/ pc'[u] = pc[u] /\ size'[u] = size[u]
        \/ pc[u] = "fetch" /\ pc'[u] = "done"
        \/ pc[u] = "fetch" /\ pc'[u] = "write" /\ size'[u] \in Sizes
    BY <1>0 DEF Fetch, Goto, LockTypes
  <2> QED
    BY <1>1, <2>1, <2>2, <2>3 DEF Knows, Stable, Searching, Left, Added, Missed
<1> QED
  BY <1>2, <1>3 DEF DataInv

\* A writer at work finds no reader inside and no other writer.
LEMMA WriterIsAlone ==
  ASSUME CInv, NEW t \in Threads, pc[t] \in WritingPlaces
  PROVE  \A u \in Threads \ {t} :
           pc[u] \notin WritingPlaces \cup {"find", "copy", "refresh", "stamp", "copied"}
<1>1. t \in Writing /\ (\A u \in Writing : u = t) /\ Counted \ Closing = {}
  BY SetsAt DEF CInv, IInv, LockInv
<1> QED
  BY <1>1, SetsAt DEF CountedPlaces, WritingPlaces

\* Every timestamp is in range: the eviction finds nothing and ends the process.
LEMMA EvictStep ==
  ASSUME CInv, NEW t \in Threads, Evict(t)
  PROVE  DataInv' /\ UNCHANGED <<cache, local, pc, clock>>
<1>0. DataInv
  BY DEF CInv
<1>1. UNCHANGED <<cache, local, pc, clock>> /\ crashed' = TRUE
  BY <1>0, ScanFindsNothing DEF Evict, DataInv, cache, local
<1>2. \A u \in Threads : find_elem(key[u])' = find_elem(key[u])
  BY <1>1, FindFrame DEF cache, local
<1>3. DataTypes'
  BY <1>0, <1>1 DEF cache, local, DataInv, DataTypes
<1>4. \A u \in Threads : Knows(u)' /\ Stable(u)'
  BY <1>0, <1>1, <1>2 DEF cache, local, DataInv, Knows, Stable
<1> QED
  BY <1>1, <1>3, <1>4 DEF DataInv

\* add_elem puts a new block in front of the others.
LEMMA Linked ==
  ASSUME DataTypes, NEW t \in Threads, list' = <<t>> \o list
  PROVE  /\ list' \in Seq(Threads)
         /\ Len(list') = Len(list) + 1
         /\ list'[1] = t
         /\ \A i \in 1 .. Len(list) : list'[i + 1] = list[i]
<1>1. <<t>> \in Seq(Threads) /\ list \in Seq(Threads)
  BY DEF DataTypes
<1>2. /\ list' \in Seq(Threads) /\ Len(list') = 1 + Len(list)
      /\ \A i \in 1 .. 1 + Len(list) : list'[i] = IF i <= 1 THEN t ELSE list[i - 1]
  BY <1>1, ConcatProperties
<1> QED
  BY <1>1, <1>2

LEMMA AddStep ==
  ASSUME CInv, NEW t \in Threads, Add(t) \/ Account(t)
  PROVE  DataInv'
<1>0. DataInv /\ LockTypes
  BY DEF CInv, IInv
<1>1. UNCHANGED <<clock, crashed, key, size, ptr, got>> /\ pc[t] \in WritingPlaces
  BY DEF Add, Account, local, WritingPlaces
<1>2. Knows(t) /\ size[t] \in Sizes /\ size[t] \in 0 .. MaxSize
  BY <1>0, SizesAssumption DEF DataInv, Knows, Add, Account
<1>3. DataTypes'
  <2>1. CASE Add(t)
    <3> DEFINE fresh == [key |-> key[t], size |-> size[t], timestamp |-> clock, mutex |-> 1]
    <3>1. fresh \in Blocks
      BY <1>0, <1>2 DEF Blocks, DataInv, DataTypes
    <3>2. block' = [block EXCEPT ![t] = fresh] /\ list' = <<t>> \o list
          /\ available' = available
      BY <2>1 DEF Add
    <3> HIDE DEF fresh
    <3>3. block' \in [Threads -> Blocks \cup {NULL}] /\ block'[t] = fresh
          /\ \A b \in Threads : block[b] \in Blocks => block'[b] \in Blocks
      BY <1>0, <3>1, <3>2 DEF DataInv, DataTypes
    <3>4. \A i \in 1 .. Len(list) : list[i] \in Threads /\ block[list[i]] \in Blocks
      BY <1>0, ElementOfSeq DEF DataInv, DataTypes
    <3>5. ASSUME NEW i \in DOMAIN list' PROVE block'[list'[i]] \in Blocks
      <4>1. CASE i = 1
        BY <1>0, <3>1, <3>2, <3>3, <4>1, Linked DEF DataInv
      <4>2. CASE i # 1
        <5>1. i - 1 \in 1 .. Len(list) /\ list'[(i - 1) + 1] = list[i - 1]
          BY <1>0, <3>2, <4>2, Linked DEF DataInv, DataTypes
        <5>2. (i - 1) + 1 = i
          BY <1>0, <3>2, Linked DEF DataInv
        <5> QED
          BY <3>3, <3>4, <5>1, <5>2
      <4> QED
        BY <4>1, <4>2
    <3> QED
      BY <1>0, <1>1, <3>2, <3>3, <3>5, Linked DEF DataInv, DataTypes
  <2>2. CASE Account(t)
    <3>1. available' \in 0 .. MaxSize
      BY <1>0, <1>2, <2>2, SizesAssumption DEF DataInv, DataTypes, Knows, Account
    <3> QED
      BY <1>0, <1>1, <2>2, <3>1 DEF DataInv, DataTypes, Account
  <2> QED
    BY <2>1, <2>2
<1>4. ASSUME NEW u \in Threads PROVE Knows(u)' /\ Stable(u)'
  <2>1. Knows(u) /\ Stable(u)
    BY <1>0 DEF DataInv
  <2>2. CASE u # t
    <3>1. pc'[u] = pc[u] /\ pc[u] \notin {"account", "copy", "refresh", "stamp", "copied"}
      BY <1>0, <1>1, <2>2, WriterIsAlone DEF Add, Account, Goto, LockTypes, WritingPlaces
    <3>2. pc[u] \notin Added => \A i \in DOMAIN list' : list'[i] # u
      <4> SUFFICES ASSUME pc[u] \notin Added, NEW i \in DOMAIN list'
                   PROVE  list'[i] # u
        OBVIOUS
      <4>1. \A j \in 1 .. Len(list) : list[j] # u
        BY <1>0, <2>1 DEF Knows, DataInv, DataTypes
      <4>2. CASE Account(t)
        BY <4>1, <4>2 DEF Account
      <4>3. CASE Add(t)
        <5>1. /\ i \in 1 .. Len(list) + 1 /\ list'[1] = t
              /\ \A j \in 1 .. Len(list) : list'[j + 1] = list[j]
          BY <1>0, <4>3, Linked DEF Add, DataInv
        <5>2. CASE i # 1
          <6>1. i - 1 \in 1 .. Len(list) /\ (i - 1) + 1 = i
            BY <1>0, <5>1, <5>2 DEF DataInv, DataTypes
          <6> QED
            BY <4>1, <5>1, <6>1
        <5> QED
          BY <2>2, <5>1, <5>2
      <4> QED
        BY <4>2, <4>3
    <3> QED
      BY <1>1, <2>1, <3>1, <3>2 DEF Knows, Stable, Added
  <2>3. CASE u = t
    <3>1. \/ /\ pc[t] = "room" /\ pc'[t] = "account"
             /\ size[t] <= available /\ available' = available
          \/ pc[t] = "account" /\ pc'[t] = "unlock"
      BY <1>0 DEF Add, Account, Goto, LockTypes
    <3> QED
      BY <1>1, <1>2, <2>1, <2>3, <3>1 DEF Knows, Stable, Searching, Left, Added, Missed
  <2> QED
    BY <2>2, <2>3
<1> QED
  BY <1>3, <1>4 DEF DataInv

-----------------------------------------------------------------------------
LEMMA ThreadData ==
  ASSUME CInv, NEW t \in Threads, Thread(t)
  PROVE  DataInv'
BY LockStep, FindStep, RefreshStep, FetchStep, EvictStep, AddStep
   DEF Thread, read_from_cache, write_to_cache

LEMMA TickData ==
  ASSUME CInv, Tick
  PROVE  DataInv'
<1>0. DataInv
  BY DEF CInv
<1>1. UNCHANGED <<cache, local, pc, crashed>> /\ clock' \in 0 .. MaxClock
  BY <1>0, ClockAssumption DEF Tick, DataInv, DataTypes
<1>2. \A u \in Threads : find_elem(key[u])' = find_elem(key[u])
  BY <1>1, FindFrame DEF cache, local
<1> QED
  BY <1>0, <1>1, <1>2 DEF DataInv, DataTypes, Knows, Stable, cache, local

\* Lock and data together: what every thread knows at its place stays true.
THEOREM CacheIsKept == Spec => []CInv
<1>1. Init => CInv
  BY InitInv, DataInit DEF CInv
<1>2. CInv /\ [Next]_vars => CInv'
  <2> SUFFICES ASSUME CInv, [Next]_vars PROVE CInv'
    OBVIOUS
  <2>1. CASE \E t \in Threads : Thread(t)
    BY <2>1, ThreadInv, ThreadData DEF CInv
  <2>2. CASE Tick
    <3>1. IInv'
      BY <2>2 DEF Tick, cache, local, CInv, IInv, LockTypes, LockInv, Inside, Counted,
                  Reading, Writing, Closing, Opening, At
    <3> QED
      BY <2>2, <3>1, TickData DEF CInv
  <2>3. CASE UNCHANGED vars
    <3>1. IInv'
      BY <2>3 DEF vars, CInv, IInv, LockTypes, LockInv, Inside, Counted,
                  Reading, Writing, Closing, Opening, At
    <3>2. \A u \in Threads : find_elem(key[u])' = find_elem(key[u])
      BY <2>3, FindFrame DEF vars
    <3>3. DataInv'
      BY <2>3, <3>2 DEF vars, CInv, DataInv, DataTypes, Knows, Stable
    <3> QED
      BY <3>1, <3>3 DEF CInv
  <2> QED
    BY <2>1, <2>2, <2>3 DEF Next
<1> QED
  BY <1>1, <1>2, PTL DEF Spec

\* Between P and V of its group a reader holds the newest block under its key:
\* no writer links, unlinks or frees a block meanwhile.
THEOREM ReadersDoSeeAStableList == Spec => []ReadersSeeAStableList
<1>1. CInv => ReadersSeeAStableList
  <2> SUFFICES ASSUME CInv, NEW t \in Reading \ At({"find"})
               PROVE  ptr[t] = find_elem(key[t]) /\ (pc[t] = "copied" => got[t] = ptr[t])
    BY DEF ReadersSeeAStableList
  <2>1. t \in Threads /\ pc[t] \in {"copy", "refresh", "stamp", "copied"}
    BY DEF Reading, At
  <2> QED
    BY <2>1 DEF CInv, DataInv, Knows, Stable, Left
<1> QED
  BY <1>1, CacheIsKept, PTL

\* The variables of the cache keep their types; available_size stays between 0
\* and max_size, so no insertion takes more than there is.
THEOREM CacheTypeCorrect == Spec => []TypeOK
<1>1. CInv => TypeOK
  BY DEF CInv, IInv, LockTypes, DataInv, DataTypes, Blocks, TypeOK
<1> QED
  BY <1>1, CacheIsKept, PTL

-----------------------------------------------------------------------------
\* The refinement.  Accounting is the set of the writers that have linked a
\* block and not yet taken its space.
Accounting == At({"account"})

LEMMA RestIs ==
  ASSUME NEW a, NEW sz, NEW S, \A t, u \in S : t = u
  PROVE  /\ S = {} => Rest(a, S, sz) = a
         /\ \A t \in S : Rest(a, S, sz) = a - sz[t]
BY DEF Rest

LEMMA OneAccounts ==
  ASSUME CInv
  PROVE  \A t, u \in Accounting : t = u
BY DEF CInv, IInv, LockInv, Writing, Accounting, At

\* A step that keeps the list, the keys and sizes in it, the space and what
\* each thread found is a stutter.
LEMMA Stutters ==
  ASSUME UNCHANGED <<list, key, got>>, room' = room,
         \A i \in DOMAIN list : /\ block'[list[i]].key = block[list[i]].key
                                /\ block'[list[i]].size = block[list[i]].size,
         \A u \in Threads : got[u] = NULL => Asked(u)' = Asked(u)
  PROVE  UNCHANGED <<entries, room, found>>
<1>1. entries' = entries
  BY DEF entries
<1>2. found' = found
  BY DEF found
<1> QED
  BY <1>1, <1>2

LEMMA LockStutters ==
  ASSUME CInv, NEW t \in Threads,
         \/ ReadLock(t) \/ Count(t) \/ CloseToWriters(t) \/ Enter(t)
         \/ Uncount(t) \/ OpenToWriters(t) \/ Leave(t)
         \/ WriteLock(t) \/ WriteUnlock(t) \/ Fetch(t)
  PROVE  UNCHANGED <<entries, room, found>>
<1>0. DataInv /\ LockTypes
  BY DEF CInv, IInv
<1>1. UNCHANGED <<list, block, available, key, ptr, got>>
  BY DEF local, cache, ReadLock, Count, CloseToWriters, Enter, Uncount, OpenToWriters, Leave,
         WriteLock, WriteUnlock, Fetch
<1>2. PICK there : /\ Goto(t, there) /\ pc[t] # "account" /\ there # "account"
                   /\ pc[t] \in {"start", "count", "close", "enter"}
                      => there \in {"count", "close", "enter", "find"}
                   /\ pc[t] \notin {"start", "count", "close", "enter"}
                      => pc[t] # "find" /\ there \notin Searching
  BY DEF ReadLock, Count, CloseToWriters, Enter, Uncount, OpenToWriters, Leave,
         WriteLock, WriteUnlock, Fetch, Searching
<1>3. \A u \in Threads : pc'[u] = IF u = t THEN there ELSE pc[u]
  BY <1>0, <1>2 DEF Goto, LockTypes
<1>4. \A u \in Threads : Asked(u)' = Asked(u)
  BY <1>1, <1>2, <1>3 DEF Asked, Searching
<1>5. room' = room
  <2>1. Accounting' = Accounting
    BY <1>2, <1>3 DEF Accounting, At
  <2>2. size' = size \/ \E n : size' = [size EXCEPT ![t] = n]
    BY DEF ReadLock, Count, CloseToWriters, Enter, Uncount, OpenToWriters, Leave,
           WriteLock, WriteUnlock, Fetch, local
  <2>3. \A u \in Accounting : u # t /\ u \in Threads /\ size'[u] = size[u]
    BY <1>0, <1>2, <2>2 DEF Accounting, At, LockTypes
  <2>4. Rest(available, Accounting, size') = Rest(available, Accounting, size)
    BY <2>3, OneAccounts, RestIs
  <2> QED
    BY <1>1, <2>1, <2>4 DEF room, Accounting
<1> QED
  BY <1>1, <1>4, <1>5, Stutters

LEMMA RefreshStutters ==
  ASSUME CInv, NEW t \in Threads, RefreshLock(t) \/ Stamp(t)
  PROVE  UNCHANGED <<entries, room, found>>
<1>0. DataInv /\ LockTypes
  BY DEF CInv, IInv
<1>1. UNCHANGED <<list, available, key, size, ptr, got>> /\ pc[t] \in {"refresh", "stamp"}
  BY DEF RefreshLock, Stamp, local
<1>2. ptr[t] \in Threads /\ block[ptr[t]] \in Blocks /\ got[t] # NULL
  <2>1. Knows(t) /\ Stable(t)
    BY <1>0 DEF DataInv
  <2>2. ptr[t] # NULL /\ ptr[t] = find_elem(key[t])
    BY <1>1, <2>1 DEF Knows, Stable
  <2>3. PICK i \in DOMAIN list : list[i] = ptr[t]
    BY <1>0, <2>2, FindsBlock DEF DataInv, DataTypes
  <2> QED
    BY <1>0, <1>1, <2>1, <2>2, <2>3 DEF DataInv, DataTypes, Knows
<1>3. \A b \in Threads : block[b] \in Blocks =>
        block'[b].key = block[b].key /\ block'[b].size = block[b].size
  <2>1. PICK fresh : /\ block' = [block EXCEPT ![ptr[t]] = fresh]
                     /\ fresh.key = block[ptr[t]].key /\ fresh.size = block[ptr[t]].size
    <3>1. CASE RefreshLock(t)
      <4> DEFINE fresh == [block[ptr[t]] EXCEPT !.mutex = 0]
      <4>1. block' = [block EXCEPT ![ptr[t]] = fresh]
        BY <1>0, <1>2, <3>1 DEF RefreshLock, DataInv, DataTypes
      <4>2. fresh.key = block[ptr[t]].key /\ fresh.size = block[ptr[t]].size
        BY <1>2 DEF Blocks
      <4> QED
        BY <4>1, <4>2
    <3>2. CASE Stamp(t)
      <4> DEFINE fresh == [block[ptr[t]] EXCEPT !.timestamp = clock, !.mutex = 1]
      <4>1. block' = [block EXCEPT ![ptr[t]] = fresh]
        BY <1>0, <1>2, <3>2 DEF Stamp, Blocks, DataInv, DataTypes
      <4>2. fresh.key = block[ptr[t]].key /\ fresh.size = block[ptr[t]].size
        BY <1>2 DEF Blocks
      <4> QED
        BY <4>1, <4>2
    <3> QED
      BY <3>1, <3>2
  <2> QED
    BY <1>0, <1>2, <2>1 DEF DataInv, DataTypes
<1>4. \A i \in DOMAIN list : /\ block'[list[i]].key = block[list[i]].key
                             /\ block'[list[i]].size = block[list[i]].size
  BY <1>0, <1>3, ElementOfSeq DEF DataInv, DataTypes
<1>5. \A u \in Threads : got[u] = NULL => Asked(u)' = Asked(u)
  BY <1>0, <1>1, <1>2 DEF RefreshLock, Stamp, Goto, Asked, LockTypes
<1>6. Accounting' = Accounting
  BY <1>0 DEF RefreshLock, Stamp, Goto, Accounting, At, LockTypes
<1>7. room' = room
  BY <1>1, <1>6 DEF room, Accounting
<1> QED
  BY <1>1, <1>4, <1>5, <1>7, Stutters

\* find_elem is the lookup of the promise.
LEMMA NewestIsFound ==
  ASSUME DataTypes, NEW k
  PROVE  Promise!Newest(k) = find_elem(k)
<1> DEFINE hits == {i \in DOMAIN list : block[list[i]].key = k}
<1>1. DOMAIN entries = DOMAIN list
      /\ \A i \in DOMAIN list : entries[i].key = block[list[i]].key /\ entries[i].value = list[i]
  BY DEF entries
<1>2. {i \in DOMAIN entries : entries[i].key = k} = hits
  BY <1>1
<1>3. CASE hits = {}
  BY <1>2, <1>3 DEF Promise!Newest, find_elem
<1>4. CASE hits # {}
  <2>1. hits \subseteq Nat
    BY DEF DataTypes
  <2>2. Min(hits) \in DOMAIN list
    BY <1>4, <2>1, MinIsMember
  <2>3. entries[Min(hits)].value = list[Min(hits)]
    BY <1>1, <2>2
  <2>4. Promise!Newest(k) = entries[Min(hits)].value
    BY <1>2, <1>4 DEF Promise!Newest, Promise!Min, Min
  <2>5. find_elem(k) = list[Min(hits)]
    BY <1>4 DEF find_elem
  <2> QED
    BY <2>3, <2>4, <2>5
<1> QED
  BY <1>3, <1>4

\* A thread's answer: on a miss when Find fails, on a hit when the copy is made.
LEMMA LookupStep ==
  ASSUME CInv, NEW t \in Threads, Find(t) \/ Copy(t)
  PROVE  Promise!Lookup(t, key[t]) \/ UNCHANGED <<entries, room, found>>
<1>0. DataInv /\ LockTypes /\ DataTypes /\ Knows(t) /\ Stable(t)
  BY DEF CInv, IInv, DataInv
<1>1. UNCHANGED <<list, block, available, key, size>>
  BY DEF Find, Copy, cache
<1>2. entries' = entries
  BY <1>1 DEF entries
<1>3. room' = room
  <2>1. Accounting' = Accounting
    BY <1>0 DEF Find, Copy, Goto, Accounting, At, LockTypes
  <2> QED
    BY <1>1, <2>1 DEF room, Accounting
<1>4. \A u \in Threads \ {t} : Asked(u)' = Asked(u) /\ got'[u] = got[u]
  BY <1>0 DEF Find, Copy, Goto, Asked, LockTypes, DataTypes
<1>5. found \in [Threads -> {found[u] : u \in Threads}]
      /\ \A u \in Threads : found[u] = IF got[u] # NULL \/ Asked(u)
                                       THEN [key |-> key[u], value |-> got[u]] ELSE NULL
  BY DEF found
<1>6. \A u \in Threads : found'[u] = IF got'[u] # NULL \/ Asked(u)'
                                     THEN [key |-> key[u], value |-> got'[u]] ELSE NULL
  BY <1>1 DEF found
<1>7. \A u \in Threads \ {t} : found'[u] = found[u]
  BY <1>4, <1>5, <1>6
<1>8. found[t] = NULL
  BY <1>0, <1>5 DEF Find, Copy, Knows, Asked, Searching
<1>9. CASE Find(t) /\ find_elem(key[t]) # NULL
  <2>1. got'[t] = NULL /\ ptr'[t] = find_elem(key[t])
    BY <1>0, <1>9 DEF Find, Knows, Searching, DataTypes
  <2>2. ~ Asked(t)'
    BY <1>9, <2>1 DEF Asked
  <2>3. \A u \in Threads : found'[u] = found[u]
    BY <1>6, <1>7, <1>8, <2>1, <2>2
  <2>4. found' = found
    BY <2>3 DEF found
  <2> QED
    BY <1>2, <1>3, <2>4
<1>10. CASE Copy(t) \/ (Find(t) /\ find_elem(key[t]) = NULL)
  <2>1. got'[t] = find_elem(key[t])
    BY <1>0, <1>10 DEF Find, Copy, Knows, Stable, Searching, DataTypes
  <2>2. got'[t] # NULL \/ Asked(t)'
    BY <1>0, <1>10, <2>1 DEF Find, Copy, Knows, Asked, Goto, LockTypes, DataTypes
  <2>3. found'[t] = [key |-> key[t], value |-> Promise!Newest(key[t])]
    BY <1>0, <1>6, <2>1, <2>2, NewestIsFound
  <2>4. found' = [found EXCEPT ![t] = [key |-> key[t], value |-> Promise!Newest(key[t])]]
    BY <1>7, <2>3 DEF found
  <2> QED
    BY <1>2, <1>3, <1>8, <2>4 DEF Promise!Lookup
<1> QED
  BY <1>9, <1>10

\* What the promise speaks of is read off the cache, the threads and their places.
LEMMA Same ==
  ASSUME UNCHANGED <<cache, local, pc>>
  PROVE  UNCHANGED <<entries, room, found>>
<1>1. UNCHANGED <<list, block, available, key, size, ptr, got>>
  BY DEF cache, local
<1>2. \A u \in Threads : Asked(u)' = Asked(u)
  BY <1>1 DEF Asked
<1>3. Accounting' = Accounting
  BY DEF Accounting, At
<1>4. room' = room
  BY <1>1, <1>3 DEF room, Accounting
<1> QED
  BY <1>1, <1>2, <1>4, Stutters

\* The space of a new block is taken when it is linked, not when it is counted.
LEMMA AccountStutters ==
  ASSUME CInv, NEW t \in Threads, Account(t)
  PROVE  UNCHANGED <<entries, room, found>>
<1>0. DataInv /\ LockTypes /\ DataTypes
  BY DEF CInv, IInv, DataInv
<1>1. UNCHANGED <<list, block, key, size, ptr, got>> /\ pc[t] = "account"
      /\ available' = available - size[t]
  BY DEF Account, local
<1>2. \A u \in Threads : Asked(u)' = Asked(u)
  BY <1>0, <1>1 DEF Account, Goto, Asked, LockTypes
<1>3. t \in Accounting /\ Accounting' = {}
  BY <1>0, <1>1, OneAccounts DEF Account, Goto, Accounting, At, LockTypes
<1>4. Rest(available, Accounting, size) = available - size[t]
  BY <1>3, OneAccounts, RestIs
<1>5. Rest(available', {}, size) = available'
  BY RestIs
<1>6. room' = room
  BY <1>1, <1>3, <1>4, <1>5 DEF room, Accounting
<1> QED
  BY <1>1, <1>2, <1>6, Stutters

\* A block is added, and its space taken, when it is linked.
LEMMA AddIsPromised ==
  ASSUME CInv, NEW t \in Threads, Add(t)
  PROVE  Promise!Add(t, t, size[t])
<1> DEFINE new == [key |-> key[t], size |-> size[t], timestamp |-> clock, mutex |-> 1]
           entry == [key |-> key[t], value |-> t, size |-> size[t]]
<1>0. DataInv /\ LockTypes /\ DataTypes /\ Knows(t)
  BY DEF CInv, IInv, DataInv
<1>1. /\ UNCHANGED <<available, key, size, ptr, got>>
      /\ pc[t] = "room" /\ Goto(t, "account") /\ size[t] <= available
      /\ list' = <<t>> \o list
      /\ block' = [block EXCEPT ![t] = new]
  BY DEF Add, local
<1>2. ptr[t] = NULL /\ got[t] = NULL /\ size[t] \in Sizes
      /\ \A i \in DOMAIN list : list[i] # t
  BY <1>0, <1>1 DEF Knows, Missed, Added
<1>3. found' = found
  <2>1. \A u \in Threads : Asked(u)' = Asked(u)
    BY <1>0, <1>1 DEF Asked, Goto, LockTypes
  <2> QED
    BY <1>1, <2>1 DEF found
<1>4. found[t] = [key |-> key[t], value |-> NULL]
  BY <1>1, <1>2 DEF found, Asked
<1>5. room = available /\ room' = available - size[t]
  <2>1. Accounting = {} /\ Accounting' = {t}
    <3>1. \A u \in Threads \ {t} : pc[u] # "account"
      BY <1>0, <1>1, WriterIsAlone DEF WritingPlaces
    <3> QED
      BY <1>0, <1>1, <3>1 DEF Accounting, At, Goto, LockTypes
  <2>2. Rest(available, {}, size) = available
    BY RestIs
  <2>3. Rest(available, {t}, size) = available - size[t]
    BY RestIs
  <2> QED
    BY <1>1, <2>1, <2>2, <2>3 DEF room, Accounting
<1>6. size[t] \in 0 .. room
  <2>1. MaxSize \in Nat /\ size[t] \in 0 .. MaxSize /\ available \in 0 .. MaxSize
    BY <1>0, <1>2, SizesAssumption DEF DataTypes
  <2> HIDE DEF new, entry
  <2> QED
    BY <1>1, <1>5, <2>1
<1>7. /\ list' \in Seq(Threads)
      /\ Len(list') = Len(list) + 1
      /\ list'[1] = t
      /\ \A i \in DOMAIN list : list'[i + 1] = list[i]
  BY <1>0, <1>1, Linked
<1>8. entries' = <<entry>> \o entries
  <2>1. Len(list) \in Nat /\ DOMAIN list = 1 .. Len(list) /\ DOMAIN list' = 1 .. Len(list) + 1
    BY <1>0, <1>7, LenProperties DEF DataTypes
  <2>2. /\ DOMAIN entries' = 1 .. Len(list) + 1
        /\ \A i \in 1 .. Len(list) + 1 : entries'[i] =
             [key |-> block'[list'[i]].key, value |-> list'[i], size |-> block'[list'[i]].size]
    BY <2>1 DEF entries
  <2>3. block'[t].key = key[t] /\ block'[t].size = size[t]
    <3>1. block'[t] = new
      BY <1>0, <1>1 DEF DataTypes
    <3> QED
      BY <3>1
  <2>4. entries'[1] = entry
    BY <1>7, <2>1, <2>2, <2>3
  <2>5. \A i \in 1 .. Len(list) : entries'[i + 1] = entries[i]
    <3> SUFFICES ASSUME NEW i \in 1 .. Len(list) PROVE entries'[i + 1] = entries[i]
      OBVIOUS
    <3>1. block'[list[i]] = block[list[i]]
      <4>1. list[i] \in Threads /\ list[i] # t
        BY <1>0, <1>2, <2>1, ElementOfSeq DEF DataTypes
      <4> HIDE DEF new, entry
      <4> QED
        BY <1>0, <1>1, <4>1 DEF DataTypes
    <3>2. i + 1 \in 1 .. Len(list) + 1 /\ list'[i + 1] = list[i]
      BY <1>7, <2>1
    <3>3. entries[i] = [key |-> block[list[i]].key, value |-> list[i],
                        size |-> block[list[i]].size]
      BY <2>1 DEF entries
    <3>4. entries'[i + 1] = [key |-> block'[list[i]].key, value |-> list[i],
                             size |-> block'[list[i]].size]
      BY <2>2, <3>2
    <3> HIDE DEF new, entry
    <3> QED
      BY <3>1, <3>3, <3>4
  <2> QED
    <3> HIDE DEF new, entry
    <3> DEFINE R == {entry} \cup {entries[i] : i \in 1 .. Len(list)}
    <3>1. DOMAIN entries = 1 .. Len(list) /\ entries = [i \in 1 .. Len(list) |-> entries[i]]
      BY <2>1 DEF entries
    <3>2. entries \in [1 .. Len(list) -> R]
      BY <3>1
    <3>3. entries \in Seq(R) /\ Len(entries) = Len(list)
      BY <2>1, <3>1, <3>2, SeqDef
    <3>4. entries' = [i \in 1 .. Len(list) + 1 |-> entries'[i]]
      BY <2>2 DEF entries
    <3>5. \A i \in 1 .. Len(list) + 1 : entries'[i] \in R
      <4> SUFFICES ASSUME NEW i \in 1 .. Len(list) + 1 PROVE entries'[i] \in R
        OBVIOUS
      <4>1. CASE i = 1
        BY <2>4, <4>1
      <4>2. CASE i # 1
        <5>1. i - 1 \in 1 .. Len(list) /\ i = (i - 1) + 1
          BY <2>1, <4>2
        <5>2. entries'[i] = entries[i - 1]
          BY <2>5, <5>1
        <5> QED
          BY <5>1, <5>2
      <4> QED
        BY <4>1, <4>2
    <3>6. entries' \in Seq(R) /\ Len(entries') = Len(list) + 1
      BY <2>1, <3>4, <3>5, SeqDef
    <3>7. <<entry>> \in Seq(R) /\ Len(<<entry>>) = 1 /\ <<entry>>[1] = entry
      OBVIOUS
    <3>8. /\ <<entry>> \o entries \in Seq(R) /\ Len(<<entry>> \o entries) = Len(list) + 1
          /\ \A i \in 1 .. Len(list) + 1 :
               (<<entry>> \o entries)[i] = IF i <= 1 THEN <<entry>>[i] ELSE entries[i - 1]
      BY <2>1, <3>3, <3>7, ConcatProperties
    <3>9. \A i \in 1 .. Len(list) + 1 : entries'[i] = (<<entry>> \o entries)[i]
      <4> SUFFICES ASSUME NEW i \in 1 .. Len(list) + 1
                   PROVE  entries'[i] = (<<entry>> \o entries)[i]
        OBVIOUS
      <4>1. CASE i = 1
        BY <2>1, <2>4, <3>7, <3>8, <4>1
      <4>2. CASE i # 1
        <5>1. i - 1 \in 1 .. Len(list) /\ i = (i - 1) + 1 /\ ~(i <= 1)
          BY <2>1, <4>2
        <5>2. entries'[i] = entries[i - 1]
          BY <2>5, <5>1
        <5> QED
          BY <3>8, <5>1, <5>2
      <4> QED
        BY <4>1, <4>2
    <3> QED
      BY <3>6, <3>8, <3>9, SeqEqual
<1>9. found[t] # NULL
  <2>1. found[t] \in [key : Keys, value : Threads \cup {NULL}]
    BY <1>0, <1>4 DEF DataTypes
  <2> QED
    BY <2>1, NullAssumption
<1> QED
  BY <1>3, <1>4, <1>5, <1>6, <1>8, <1>9 DEF Promise!Add

\* A step of a thread is a lookup, an addition, or a stutter of the promise.
LEMMA ThreadImplements ==
  ASSUME CInv, NEW t \in Threads, Thread(t)
  PROVE  Promise!Next \/ UNCHANGED <<entries, room, found>>
<1>0. DataTypes
  BY DEF CInv, DataInv
<1>1. CASE Find(t) \/ Copy(t)
  <2>1. key[t] \in Keys
    BY <1>0 DEF DataTypes
  <2> QED
    BY <1>1, <2>1, LookupStep DEF Promise!Next
<1>2. CASE Add(t)
  <2>1. Promise!Add(t, t, size[t])
    BY <1>2, AddIsPromised
  <2>2. size[t] \in 0 .. room
    BY <2>1 DEF Promise!Add
  <2> QED
    BY <2>1, <2>2 DEF Promise!Next
<1>3. CASE Account(t)
  BY <1>3, AccountStutters
<1>4. CASE Evict(t)
  <2>1. UNCHANGED <<cache, local, pc, clock>>
    BY <1>4, EvictStep
  <2> QED
    BY <2>1, Same
<1>5. CASE RefreshLock(t) \/ Stamp(t)
  BY <1>5, RefreshStutters
<1>6. CASE \/ ReadLock(t) \/ Count(t) \/ CloseToWriters(t) \/ Enter(t)
          \/ Uncount(t) \/ OpenToWriters(t) \/ Leave(t)
          \/ WriteLock(t) \/ WriteUnlock(t) \/ Fetch(t)
  BY <1>6, LockStutters
<1> QED
  BY <1>1, <1>2, <1>3, <1>4, <1>5, <1>6 DEF Thread, read_from_cache, write_to_cache

LEMMA PromiseInit ==
  ASSUME Init
  PROVE  Promise!Init
<1>1. list = <<>> /\ At({"account"}) = {}
  BY DEF Init, At
<1>2. entries = <<>>
  BY <1>1 DEF entries
<1>3. room = MaxSize
  BY <1>1 DEF Init, room, Rest
<1>4. found = [t \in Threads |-> NULL]
  BY DEF Init, found, Asked
<1> QED
  BY <1>2, <1>3, <1>4 DEF Promise!Init

\* For any number of connections, read_from_cache and write_to_cache behave as
\* if each happened at one instant: a lookup answers with the object added last
\* under its key, and what is added never takes more than max_size.
THEOREM CacheImplements == Spec => ImplementsObjectCache
<1>1. Init => Promise!Init
  BY PromiseInit
<1>2. CInv /\ [Next]_vars => [Promise!Next]_<<entries, room, found>>
  <2> SUFFICES ASSUME CInv, [Next]_vars
               PROVE  Promise!Next \/ UNCHANGED <<entries, room, found>>
    OBVIOUS
  <2>1. CASE \E t \in Threads : Thread(t)
    BY <2>1, ThreadImplements
  <2>2. CASE UNCHANGED <<cache, local, pc>>
    BY <2>2, Same
  <2> QED
    BY <2>1, <2>2 DEF Next, Tick, vars, cache, local
<1> QED
  BY <1>1, <1>2, CacheIsKept, PTL DEF Spec, ImplementsObjectCache, Promise!Spec, Promise!cvars

-----------------------------------------------------------------------------
(***************************************************************************)
(* The space of the cache.  Sums says that sum adds up the sizes in list,  *)
(* from the oldest block on; a block that is added is the last of the sum. *)
(***************************************************************************)
Sums(sum) ==
  /\ sum \in [0 .. Len(list) -> Nat]
  /\ sum[0] = 0
  /\ \A n \in 1 .. Len(list) : sum[n] = sum[n - 1] + entries[Len(list) + 1 - n].size

Accounted == \E sum : Sums(sum) /\ room + sum[Len(list)] = MaxSize

LEMMA Inductive ==
  ASSUME NEW S, 0 \in S, \A n \in Nat : n \in S => n + 1 \in S
  PROVE  Nat \subseteq S
<1> DEFINE T == Nat \ S
<1> SUFFICES ASSUME T # {} PROVE FALSE
  OBVIOUS
<1>1. Min(T) \in T /\ \A n \in T : Min(T) <= n
  BY MinIsMember
<1>2. Min(T) # 0 /\ Min(T) - 1 \in Nat
  BY <1>1
<1>3. Min(T) - 1 \in S
  BY <1>1, <1>2
<1> QED
  BY <1>1, <1>2, <1>3

\* There is one such sum: Occupied is its last value.
LEMMA OccupiedIs ==
  ASSUME list \in Seq(Threads), NEW sum, Sums(sum)
  PROVE  Occupied = sum[Len(list)]
<1> DEFINE D == 0 .. Len(list)
           item(n) == block[list[Len(list) + 1 - n]].size
           Total(f) == f = [n \in D |-> IF n = 0 THEN 0 ELSE f[n - 1] + item(n)]
           f == CHOOSE g : Total(g)
<1>0. Len(list) \in Nat /\ DOMAIN list = 1 .. Len(list)
  OBVIOUS
<1>1. Total(sum)
  <2>1. \A n \in 1 .. Len(list) : entries[Len(list) + 1 - n].size = item(n)
    <3> SUFFICES ASSUME NEW n \in 1 .. Len(list)
                 PROVE  entries[Len(list) + 1 - n].size = item(n)
      OBVIOUS
    <3>1. Len(list) + 1 - n \in DOMAIN list
      BY <1>0
    <3> QED
      BY <3>1 DEF entries
  <2> HIDE DEF item
  <2>2. \A n \in D : sum[n] = IF n = 0 THEN 0 ELSE sum[n - 1] + item(n)
    BY <1>0, <2>1 DEF Sums
  <2>3. sum = [n \in D |-> sum[n]]
    BY DEF Sums
  <2> QED
    BY <2>2, <2>3
<1>2. Total(f)
  BY <1>1
<1>3. Occupied = f[Len(list)]
  BY DEF Occupied
<1> HIDE DEF f, item
<1>4. \A n \in D : f[n] = IF n = 0 THEN 0 ELSE f[n - 1] + item(n)
  BY <1>2
<1>5. \A n \in D : sum[n] = IF n = 0 THEN 0 ELSE sum[n - 1] + item(n)
  BY <1>1
<1> HIDE DEF Total
<1> DEFINE S == {n \in Nat : n \in D => f[n] = sum[n]}
<1>6. 0 \in S
  BY <1>0, <1>4, <1>5
<1>7. \A n \in Nat : n \in S => n + 1 \in S
  <2> SUFFICES ASSUME NEW n \in Nat, n \in S, n + 1 \in D PROVE f[n + 1] = sum[n + 1]
    OBVIOUS
  <2>1. n \in D /\ n + 1 # 0 /\ (n + 1) - 1 = n
    BY <1>0
  <2> QED
    BY <1>4, <1>5, <2>1
<1>8. Nat \subseteq S
  <2> HIDE DEF S
  <2> QED
    BY <1>6, <1>7, Inductive
<1> QED
  BY <1>0, <1>3, <1>8

\* The room that is left, before and after the block that is being added counts.
LEMMA RoomIs ==
  ASSUME CInv
  PROVE  /\ room \in Nat
         /\ Accounting = {} => room = available
<1>1. Accounting = {} => room = available
  BY RestIs DEF room, Accounting
<1>2. \A t \in Accounting : room = available - size[t] /\ size[t] \in Sizes
                           /\ size[t] <= available
  BY OneAccounts, RestIs DEF room, Accounting, At, CInv, DataInv, Knows
<1>3. available \in Nat /\ \A n \in Sizes : n \in Nat
  BY SizesAssumption DEF CInv, DataInv, DataTypes
<1> QED
  BY <1>1, <1>2, <1>3

LEMMA AccountedInit == Init => Accounted
<1> SUFFICES ASSUME Init PROVE Accounted
  OBVIOUS
<1> DEFINE sum == [n \in 0 .. 0 |-> 0]
<1>1. Len(list) = 0
  BY DEF Init
<1>2. Sums(sum) /\ sum[Len(list)] = 0
  BY <1>1 DEF Sums
<1>3. room = MaxSize
  BY PromiseInit DEF Promise!Init
<1> QED
  BY <1>2, <1>3, SizesAssumption DEF Accounted

LEMMA AccountedStutters ==
  ASSUME Accounted, UNCHANGED <<list, entries, room>>
  PROVE  Accounted'
BY DEF Accounted, Sums

\* A new block is in front of the old ones: what it takes is added last.
LEMMA AccountedAdd ==
  ASSUME CInv, Accounted, NEW t \in Threads, Add(t)
  PROVE  Accounted'
<1> DEFINE entry == [key |-> found[t].key, value |-> t, size |-> size[t]]
           R == {entries[i] : i \in 1 .. Len(list)} \cup {entry}
<1>1. PICK sum : Sums(sum) /\ room + sum[Len(list)] = MaxSize
  BY DEF Accounted
<1>2. entries' = <<entry>> \o entries /\ room' = room - size[t] /\ size[t] \in 0 .. room
  BY AddIsPromised DEF Promise!Add
<1>3. list \in Seq(Threads) /\ Len(list') = Len(list) + 1
  BY Linked DEF CInv, DataInv, DataTypes, Add
<1>4. Len(list) \in Nat /\ DOMAIN list = 1 .. Len(list)
  BY <1>3
<1>5. entries \in Seq(R) /\ Len(entries) = Len(list)
  <2>1. entries \in [1 .. Len(list) -> R]
    BY <1>4 DEF entries
  <2> QED
    BY <1>4, <2>1, SeqDef
<1>6. <<entry>> \in Seq(R) /\ Len(<<entry>>) = 1 /\ <<entry>>[1].size = size[t]
  OBVIOUS
<1> HIDE DEF entry, R
<1>7. \A i \in 1 .. Len(list) + 1 :
        entries'[i] = IF i <= 1 THEN <<entry>>[i] ELSE entries[i - 1]
  BY <1>2, <1>4, <1>5, <1>6, ConcatProperties
<1> DEFINE more == [n \in 0 .. Len(list) + 1 |->
                      IF n <= Len(list) THEN sum[n] ELSE sum[Len(list)] + size[t]]
<1>8. room \in Int /\ size[t] \in Nat
  BY <1>2, RoomIs
<1>9. more \in [0 .. Len(list') -> Nat] /\ more[0] = 0
      /\ more[Len(list')] = sum[Len(list)] + size[t]
  BY <1>1, <1>3, <1>4, <1>8 DEF Sums
<1>10. ASSUME NEW n \in 1 .. Len(list')
       PROVE  more[n] = more[n - 1] + entries'[Len(list') + 1 - n].size
  <2>1. CASE n <= Len(list)
    <3>1. n \in 1 .. Len(list) /\ n - 1 \in 0 .. Len(list)
          /\ Len(list') + 1 - n \in 1 .. Len(list) + 1 /\ ~ (Len(list') + 1 - n <= 1)
          /\ Len(list') + 1 - n - 1 = Len(list) + 1 - n
      BY <1>3, <1>4, <2>1
    <3>2. entries'[Len(list') + 1 - n] = entries[Len(list) + 1 - n]
      BY <1>7, <3>1
    <3>3. more[n] = sum[n] /\ more[n - 1] = sum[n - 1]
      BY <1>4, <3>1
    <3> QED
      BY <1>1, <3>1, <3>2, <3>3 DEF Sums
  <2>2. CASE n = Len(list) + 1
    <3>1. Len(list') + 1 - n = 1 /\ 1 \in 1 .. Len(list) + 1
      BY <1>3, <1>4, <2>2
    <3>2. entries'[Len(list') + 1 - n].size = size[t]
      BY <1>6, <1>7, <3>1
    <3>3. more[n] = sum[Len(list)] + size[t] /\ more[n - 1] = sum[Len(list)]
      BY <1>4, <2>2
    <3> QED
      BY <3>2, <3>3
  <2> QED
    BY <1>3, <1>4, <2>1, <2>2
<1>11. room' + more[Len(list')] = MaxSize
  <2>1. sum[Len(list)] \in Nat
    BY <1>1, <1>4 DEF Sums
  <2> HIDE DEF more
  <2> QED
    BY <1>1, <1>2, <1>8, <1>9, <2>1
<1> HIDE DEF more
<1> QED
  BY <1>9, <1>10, <1>11 DEF Accounted, Sums

LEMMA AccountedStep ==
  ASSUME CInv, Accounted, [Next]_vars
  PROVE  Accounted'
<1>1. ASSUME NEW t \in Threads, Thread(t) PROVE Accounted'
  <2>1. CASE Add(t)
    BY <2>1, AccountedAdd
  <2>2. CASE Account(t)
    BY <2>2, AccountStutters, AccountedStutters DEF Account
  <2>3. CASE Evict(t)
    BY <2>3, EvictStep, Same, AccountedStutters DEF cache
  <2>4. CASE RefreshLock(t) \/ Stamp(t)
    BY <2>4, RefreshStutters, AccountedStutters DEF RefreshLock, Stamp
  <2>5. CASE \/ ReadLock(t) \/ Count(t) \/ CloseToWriters(t) \/ Enter(t)
            \/ Uncount(t) \/ OpenToWriters(t) \/ Leave(t)
            \/ WriteLock(t) \/ WriteUnlock(t) \/ Fetch(t)
    <3>1. UNCHANGED list
      BY <2>5 DEF ReadLock, Count, CloseToWriters, Enter, Uncount, OpenToWriters, Leave,
                  WriteLock, WriteUnlock, Fetch, cache
    <3> QED
      BY <2>5, <3>1, LockStutters, AccountedStutters
  <2>6. CASE Find(t) \/ Copy(t)
    <3>1. UNCHANGED <<list, block, available, size>>
          /\ Accounting' = Accounting
      BY <2>6 DEF Find, Copy, cache, Goto, Accounting, At, CInv, IInv, LockTypes
    <3>2. UNCHANGED <<entries, room>>
      BY <3>1 DEF entries, room, Accounting
    <3> QED
      BY <3>1, <3>2, AccountedStutters
  <2> QED
    BY <1>1, <2>1, <2>2, <2>3, <2>4, <2>5, <2>6 DEF Thread, read_from_cache, write_to_cache
<1>2. CASE UNCHANGED <<cache, local, pc>>
  BY <1>2, Same, AccountedStutters DEF cache
<1> QED
  BY <1>1, <1>2 DEF Next, Tick, vars, cache, local

\* write_to_cache: however many connections add, and whatever they add twice,
\* available_size is what the blocks leave of max_size, except for the one
\* block that is linked and not yet counted; the blocks never take more.
THEOREM SpaceIsKept == Spec => []SpaceIsAccounted
<1>1. Init => CInv /\ Accounted
  BY InitInv, DataInit, AccountedInit DEF CInv
<1>2. CInv /\ CInv' /\ Accounted /\ [Next]_vars => Accounted'
  BY AccountedStep
<1>3. CInv /\ Accounted => SpaceIsAccounted
  <2> SUFFICES ASSUME CInv, Accounted PROVE SpaceIsAccounted
    OBVIOUS
  <2>1. PICK sum : Sums(sum) /\ room + sum[Len(list)] = MaxSize
    BY DEF Accounted
  <2>2. DataInv /\ DataTypes /\ list \in Seq(Threads) /\ Len(list) \in Nat
    BY DEF CInv, DataInv, DataTypes
  <2>3. Occupied = sum[Len(list)] /\ Occupied \in Nat
    BY <2>1, <2>2, OccupiedIs DEF Sums
  <2> QED
    BY <2>1, <2>3, RoomIs, SizesAssumption DEF SpaceIsAccounted, Accounting
<1> QED
  BY <1>1, <1>2, <1>3, CacheIsKept, PTL DEF Spec
=============================================================================
