----------------------------- MODULE ObjectCache ------------------------------
(***************************************************************************)
(* What cache.h promises the threads of the proxy: read_from_cache and     *)
(* write_to_cache each happen at one instant.  A lookup returns the object *)
(* that was added last under the key, whole, or nothing; the objects never *)
(* take more than the cache's size.  Which entry goes when space is short, *)
(* and when, is left open.                                                 *)
(***************************************************************************)
EXTENDS Integers, Sequences, SequencesExt

CONSTANTS Threads, Keys, Values, MaxSize, NULL

VARIABLES
  entries,    \* [key, value, size], the one added last first
  room,       \* what the entries leave of MaxSize
  found       \* thread -> NULL before its lookup, then [key, value];
              \* the value is NULL on a miss

cvars == <<entries, room, found>>

\* The entry for k that was added last.
Newest(k) ==
  LET hits == {i \in DOMAIN entries : entries[i].key = k}
  IN  IF hits = {} THEN NULL ELSE entries[Min(hits)].value

Init ==
  /\ entries = <<>>
  /\ room = MaxSize
  /\ found = [t \in Threads |-> NULL]

Lookup(t, k) ==
  /\ found[t] = NULL
  /\ found' = [found EXCEPT ![t] = [key |-> k, value |-> Newest(k)]]
  /\ UNCHANGED <<entries, room>>

\* A thread that missed adds what it fetched under the key it missed.
Add(t, v, n) ==
  /\ found[t] # NULL /\ found[t].value = NULL
  /\ n \in 0 .. room
  /\ entries' = <<[key |-> found[t].key, value |-> v, size |-> n]>> \o entries
  /\ room' = room - n
  /\ UNCHANGED found

Evict(i) ==
  /\ entries' = RemoveAt(entries, i)
  /\ room' = room + entries[i].size
  /\ UNCHANGED found

Next ==
  \/ \E t \in Threads :
       \/ \E k \in Keys : Lookup(t, k)
       \/ \E v \in Values, n \in 0 .. room : Add(t, v, n)
  \/ \E i \in DOMAIN entries : Evict(i)

Spec == Init /\ [][Next]_cvars
=============================================================================
