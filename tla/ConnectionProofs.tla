--------------------------- MODULE ConnectionProofs ---------------------------
(***************************************************************************)
(* Proofs about Connection: how a request is rewritten and where it is     *)
(* sent, for requests of any length and any header lines, and what the     *)
(* walk along the address list holds and returns, for any list.            *)
(*                                                                         *)
(* A header line that is passed on has its place in the new request by the *)
(* number of lines kept before it, so the invariant of the loop (ReadInv)  *)
(* counts those.  The walk (WalkInv) has passed no address that works and  *)
(* holds at most the descriptor of the one it is at.                       *)
(***************************************************************************)
EXTENDS Connection, FiniteSetTheorems, SequenceTheorems, TLAPS

Lines == Headers \cup {End}
Words == {l.urn : l \in RequestLines} \cup {l.id : l \in Lines} \cup {Added[i] : i \in 1 .. 6}

ReadPlaces == {"request line", "parse", "first header", "loop", "next header",
               "content", "ended", "refused", "overrun"}

ReadTypes ==
  /\ pc \in ReadPlaces
  /\ first \in RequestLines \cup {NULL}
  /\ lines \in Seq(Lines)
  /\ \A i \in 1 .. Len(lines) : i < Len(lines) => lines[i] \in Headers
  /\ next \in 1 .. Len(lines) + 1
  /\ pc = "parse" => line \in RequestLines
  /\ pc \in {"loop", "next header"} => buf \in Lines
  /\ request \in Seq(Words)
  /\ host \in Seq(Chars) /\ port \in Seq(Chars)

\* The lines that are passed on, of the first n.
Kept(n) == {i \in 1 .. n : ~ lines[i].drop}

\* The new request when n header lines have gone into it.
Rewritten(n) ==
  /\ Len(request) = 1 + Cardinality(Kept(n))
  /\ request[1] = first.urn
  /\ \A i \in Kept(n) : request[1 + Cardinality(Kept(i))] = lines[i].id

\* What the first n lines name, and the destination when they have been read.
Hosts(n) == [i \in 1 .. n |-> HostOf(lines[i])]
Ports(n) == [i \in 1 .. n |-> PortOf(lines[i])]
Named(n) == Overlaid(host, Hosts(n)) /\ Overlaid(port, Ports(n))

\* Between two lines buf holds the last one read, at end of file too; only a
\* request that is complete comes to its empty line.
LineInv ==
  /\ first # NULL
  /\ pc \in {"request line", "parse", "first header"} => next = 1
  /\ pc \in {"loop", "next header"} => next >= 2 /\ buf = lines[next - 1]
  /\ pc = "content" => Complete

ReadInv ==
  /\ ReadTypes
  /\ first # NULL /\ pc = "parse" => line = first
  /\ lines # <<>> => LineInv
  /\ Complete =>
       /\ pc = "first header" => Rewritten(0) /\ Named(0)
       /\ pc = "loop" => Rewritten(next - 2) /\ Named(next - 2)
       /\ pc = "next header" => /\ next <= Len(lines)
                                /\ Rewritten(next - 1) /\ Named(next - 1)
       /\ RequestIsRewritten /\ DestinationIsNamed

-----------------------------------------------------------------------------
LEMMA KeptIsFinite ==
  ASSUME NEW n \in Nat
  PROVE  IsFiniteSet(Kept(n)) /\ Cardinality(Kept(n)) \in Nat
<1>1. IsFiniteSet(1 .. n)
  BY FS_Interval
<1>2. Kept(n) \in SUBSET (1 .. n)
  BY DEF Kept
<1>3. IsFiniteSet(Kept(n))
  BY <1>1, <1>2, FS_Subset
<1> QED
  BY <1>3, FS_CardinalityType

LEMMA KeptGrows ==
  ASSUME NEW n \in Nat
  PROVE  /\ Kept(0) = {} /\ Cardinality(Kept(0)) = 0
         /\ lines[n + 1].drop => Kept(n + 1) = Kept(n)
         /\ ~ lines[n + 1].drop =>
              /\ Kept(n + 1) = Kept(n) \cup {n + 1} /\ n + 1 \notin Kept(n)
              /\ Cardinality(Kept(n + 1)) = Cardinality(Kept(n)) + 1
<1>1. Kept(0) = {}
  BY DEF Kept
<1>2. lines[n + 1].drop => Kept(n + 1) = Kept(n)
  BY DEF Kept
<1>3. ~ lines[n + 1].drop => Kept(n + 1) = Kept(n) \cup {n + 1} /\ n + 1 \notin Kept(n)
  BY DEF Kept
<1>4. ~ lines[n + 1].drop => Cardinality(Kept(n + 1)) = Cardinality(Kept(n)) + 1
  <2>1. IsFiniteSet(Kept(n))
    BY KeptIsFinite
  <2>2. n + 1 \notin Kept(n) =>
          Cardinality(Kept(n) \cup {n + 1}) = Cardinality(Kept(n)) + 1
    BY <2>1, FS_AddElement
  <2> QED
    BY <1>3, <2>2
<1> QED
  BY <1>1, <1>2, <1>3, <1>4, FS_EmptySet

\* Later lines have later places.
LEMMA KeptIsMonotone ==
  ASSUME NEW n \in Nat, NEW m \in Nat, m <= n
  PROVE  Cardinality(Kept(m)) <= Cardinality(Kept(n))
<1>1. IsFiniteSet(Kept(n)) /\ Kept(m) \in SUBSET Kept(n)
  BY KeptIsFinite DEF Kept
<1> QED
  BY <1>1, FS_Subset

\* A kept line has a place after the request line.
LEMMA KeptHasAPlace ==
  ASSUME NEW n \in Nat, NEW i \in Kept(n)
  PROVE  /\ i \in 1 .. n
         /\ Cardinality(Kept(i)) \in 1 .. Cardinality(Kept(n))
<1>1. i \in 1 .. n /\ ~ lines[i].drop /\ i - 1 \in Nat /\ i = (i - 1) + 1
  BY DEF Kept
<1>2. Cardinality(Kept(i)) = Cardinality(Kept(i - 1)) + 1
  BY <1>1, KeptGrows
<1>3. Cardinality(Kept(i - 1)) \in Nat /\ Cardinality(Kept(i)) <= Cardinality(Kept(n))
  BY <1>1, KeptIsFinite, KeptIsMonotone
<1>4. Cardinality(Kept(n)) \in Nat
  BY KeptIsFinite
<1> QED
  BY <1>1, <1>2, <1>3, <1>4

-----------------------------------------------------------------------------
\* One more line goes into the request, or is left out.
LEMMA LineIsKept ==
  ASSUME NEW n \in Nat, n + 1 \in 1 .. Len(lines), ReadTypes, Rewritten(n),
         lines' = lines, first' = first,
         request' = IF lines[n + 1].drop THEN request ELSE Append(request, lines[n + 1].id),
         lines[n + 1].id \in Words
  PROVE  Rewritten(n + 1)'
<1> DEFINE k == Cardinality(Kept(n))
<1>1. k \in Nat
  BY KeptIsFinite
<1>2. /\ request \in Seq(Words) /\ Len(request) = 1 + k /\ request[1] = first.urn
      /\ \A i \in Kept(n) : request[1 + Cardinality(Kept(i))] = lines[i].id
  BY DEF ReadTypes, Rewritten
<1>3. \A m : Kept(m)' = Kept(m)
  BY DEF Kept
<1>4. ASSUME NEW i \in Kept(n) PROVE Cardinality(Kept(i)) \in 1 .. k
  BY KeptHasAPlace
<1> SUFFICES /\ Len(request') = 1 + Cardinality(Kept(n + 1))
             /\ request'[1] = first.urn
             /\ \A i \in Kept(n + 1) : request'[1 + Cardinality(Kept(i))] = lines[i].id
  BY <1>3 DEF Rewritten
<1>5. CASE lines[n + 1].drop
  BY <1>2, <1>5, KeptGrows
<1>6. CASE ~ lines[n + 1].drop
  <2>1. /\ Kept(n + 1) = Kept(n) \cup {n + 1}
        /\ Cardinality(Kept(n + 1)) = k + 1
    BY <1>6, KeptGrows
  <2>2. request' = Append(request, lines[n + 1].id)
    BY <1>6
  <2> HIDE DEF k
  <2>3. /\ Len(request') = k + 2 /\ request'[k + 2] = lines[n + 1].id
        /\ \A j \in 1 .. k + 1 : request'[j] = request[j]
    BY <1>1, <1>2, <2>2
  <2>4. ASSUME NEW i \in Kept(n + 1)
        PROVE  request'[1 + Cardinality(Kept(i))] = lines[i].id
    <3>1. CASE i \in Kept(n)
      <4>1. Cardinality(Kept(i)) \in 1 .. k
        BY <1>4, <3>1
      <4>2. 1 + Cardinality(Kept(i)) \in 1 .. k + 1
        BY <4>1, <1>1
      <4> QED
        BY <3>1, <1>2, <2>3, <4>2
    <3>2. CASE i = n + 1
      BY <3>2, <2>1, <2>3, <1>1
    <3> QED
      BY <2>1, <3>1, <3>2
  <2>5. Len(request') = 1 + Cardinality(Kept(n + 1))
    BY <1>1, <2>1, <2>3
  <2>6. request'[1] = first.urn
    BY <1>1, <1>2, <2>3
  <2> QED
    BY <2>4, <2>5, <2>6
<1> QED
  BY <1>5, <1>6

LEMMA OverlayIsAString ==
  ASSUME NEW s \in Seq(Chars), NEW t \in Seq(Chars)
  PROVE  Overlay(s, t) \in Seq(Chars)
<1>1. [i \in 1 .. Len(s) |-> s[i]] = s
  OBVIOUS
<1>2. SubSeq(t, Len(s) + 1, Len(t)) \in Seq(Chars)
  <2>1. \A i \in Len(s) + 1 .. Len(t) : i \in 1 .. Len(t)
    OBVIOUS
  <2> QED
    BY <2>1
<1> QED
  BY <1>1, <1>2 DEF Overlay

\* strncpy writes the new name over the start of the old one.
LEMMA OverlayIs ==
  ASSUME NEW s \in Seq(Chars), NEW t \in Seq(Chars)
  PROVE  /\ Len(Overlay(s, t)) = IF Len(s) < Len(t) THEN Len(t) ELSE Len(s)
         /\ \A k \in 1 .. Len(s) : Overlay(s, t)[k] = s[k]
         /\ \A k \in Len(s) + 1 .. Len(t) : Overlay(s, t)[k] = t[k]
<1> DEFINE m == Len(s)
           n == Len(t)
           r == SubSeq(t, m + 1, n)
<1>1. [i \in 1 .. Len(s) |-> s[i]] = s /\ m \in Nat /\ n \in Nat
  OBVIOUS
<1>2. Overlay(s, t) = s \o r
  BY <1>1 DEF Overlay
<1>3. /\ r \in Seq(Chars)
      /\ Len(r) = IF m + 1 <= n THEN n - (m + 1) + 1 ELSE 0
      /\ \A i \in 1 .. n - (m + 1) + 1 : r[i] = t[m + 1 + i - 1]
  <2>1. m + 1 \in Int /\ n \in Int /\ \A i \in m + 1 .. n : t[i] \in Chars
    BY <1>1
  <2> HIDE DEF m, n
  <2> QED
    BY <2>1, SubSeqProperties
<1> HIDE DEF r
<1>4. /\ Len(s \o r) = m + Len(r)
      /\ \A i \in 1 .. m + Len(r) : (s \o r)[i] = IF i <= m THEN s[i] ELSE r[i - m]
  BY <1>3, ConcatProperties
<1> HIDE DEF m, n
<1>5. Len(s \o r) = IF m < n THEN n ELSE m
  BY <1>1, <1>3, <1>4
<1>6. ASSUME NEW k \in 1 .. m PROVE (s \o r)[k] = s[k]
  <2>1. k \in 1 .. m + Len(r) /\ k <= m
    BY <1>1, <1>3
  <2> QED
    BY <1>4, <2>1
<1>7. ASSUME NEW k \in m + 1 .. n PROVE (s \o r)[k] = t[k]
  <2>1. k \in Nat /\ m + 1 <= k /\ k <= n
    BY <1>1
  <2>2. m \in Nat /\ n \in Nat
    BY <1>1
  <2>3. Len(r) = n - m
    BY <1>3, <2>1, <2>2
  <2>4. /\ k \in 1 .. m + Len(r) /\ ~ (k <= m)
        /\ k - m \in 1 .. n - (m + 1) + 1 /\ m + 1 + (k - m) - 1 = k
    <3> DEFINE q == Len(r)
    <3>1. q = n - m
      BY <2>3
    <3> HIDE DEF q
    <3>2. k \in 1 .. m + q
      BY <2>1, <2>2, <3>1
    <3>3. ~ (k <= m) /\ k - m \in 1 .. n - (m + 1) + 1 /\ m + 1 + (k - m) - 1 = k
      BY <2>1, <2>2
    <3> QED
      BY <3>2, <3>3 DEF q
  <2> QED
    BY <1>3, <1>4, <2>4
<1> QED
  BY <1>2, <1>5, <1>6, <1>7 DEF m, n

\* One more name is written over what the names before it left.
LEMMA OverlaidMore ==
  ASSUME NEW n \in Nat, NEW names, NEW more, DOMAIN names = 1 .. n, DOMAIN more = 1 .. n + 1,
         \A i \in 1 .. n : names[i] \in Seq(Chars) /\ more[i] = names[i],
         more[n + 1] \in Seq(Chars), NEW t \in Seq(Chars), Overlaid(t, names)
  PROVE  Overlaid(Overlay(more[n + 1], t), more)
<1> DEFINE s == more[n + 1]
           u == Overlay(s, t)
<1>1. /\ Len(u) = IF Len(s) < Len(t) THEN Len(t) ELSE Len(s)
      /\ \A k \in 1 .. Len(s) : u[k] = s[k]
      /\ \A k \in Len(s) + 1 .. Len(t) : u[k] = t[k]
  BY OverlayIs
<1>2. Len(s) \in Nat /\ Len(t) \in Nat /\ \A i \in 1 .. n : Len(names[i]) \in Nat
  OBVIOUS
<1>3. /\ \A i \in 1 .. n : Len(names[i]) <= Len(t)
      /\ \A k \in 1 .. Len(t) : \E i \in 1 .. n :
           /\ k <= Len(names[i]) /\ t[k] = names[i][k]
           /\ \A j \in 1 .. n : j > i => Len(names[j]) < k
  BY DEF Overlaid
<1> HIDE DEF s, u
<1>4. ASSUME NEW i \in 1 .. n + 1 PROVE Len(more[i]) <= Len(u)
  <2>1. CASE i = n + 1
    BY <1>1, <1>2, <2>1 DEF s
  <2>2. CASE i \in 1 .. n
    BY <1>1, <1>2, <1>3, <2>2
  <2> QED
    BY <2>1, <2>2
<1>5. ASSUME NEW k \in 1 .. Len(u)
      PROVE  \E i \in 1 .. n + 1 :
               /\ k <= Len(more[i]) /\ u[k] = more[i][k]
               /\ \A j \in 1 .. n + 1 : j > i => Len(more[j]) < k
  <2>1. CASE k <= Len(s)
    <3>1. n + 1 \in 1 .. n + 1 /\ \A j \in 1 .. n + 1 : ~ (j > n + 1)
      OBVIOUS
    <3>2. k <= Len(more[n + 1]) /\ u[k] = more[n + 1][k]
      BY <1>1, <1>2, <2>1 DEF s
    <3> QED
      BY <3>1, <3>2
  <2>2. CASE Len(s) < k
    <3>1. k \in Len(s) + 1 .. Len(t)
      BY <1>1, <1>2, <2>2
    <3>2. PICK i \in 1 .. n : /\ k <= Len(names[i]) /\ t[k] = names[i][k]
                              /\ \A j \in 1 .. n : j > i => Len(names[j]) < k
      BY <1>2, <1>3, <3>1
    <3>3. i \in 1 .. n + 1 /\ k <= Len(more[i]) /\ u[k] = more[i][k]
      BY <1>1, <3>1, <3>2
    <3>4. ASSUME NEW j \in 1 .. n + 1, j > i PROVE Len(more[j]) < k
      <4>1. CASE j = n + 1
        BY <2>2, <4>1 DEF s
      <4>2. CASE j \in 1 .. n
        BY <3>2, <3>4, <4>2
      <4> QED
        BY <4>1, <4>2
    <3> QED
      BY <3>3, <3>4
  <2> QED
    BY <1>2, <2>1, <2>2, <1>1
<1> QED
  BY <1>4, <1>5 DEF Overlaid, u, s

\* A line that names nothing changes nothing.
LEMMA OverlaidSame ==
  ASSUME NEW n \in Nat, NEW names, NEW more, DOMAIN names = 1 .. n, DOMAIN more = 1 .. n + 1,
         \A i \in 1 .. n : names[i] \in Seq(Chars) /\ more[i] = names[i],
         more[n + 1] = <<>>, NEW t \in Seq(Chars), Overlaid(t, names)
  PROVE  Overlaid(t, more)
<1>1. Len(more[n + 1]) = 0 /\ Len(t) \in Nat /\ \A i \in 1 .. n : Len(names[i]) \in Nat
  OBVIOUS
<1>2. /\ \A i \in 1 .. n : Len(names[i]) <= Len(t)
      /\ \A k \in 1 .. Len(t) : \E i \in 1 .. n :
           /\ k <= Len(names[i]) /\ t[k] = names[i][k]
           /\ \A j \in 1 .. n : j > i => Len(names[j]) < k
  BY DEF Overlaid
<1>3. \A i \in 1 .. n + 1 : i \in 1 .. n \/ i = n + 1
  OBVIOUS
<1>4. \A i \in 1 .. n + 1 : Len(more[i]) <= Len(t)
  BY <1>1, <1>2, <1>3
<1>5. ASSUME NEW k \in 1 .. Len(t)
      PROVE  \E i \in 1 .. n + 1 :
               /\ k <= Len(more[i]) /\ t[k] = more[i][k]
               /\ \A j \in 1 .. n + 1 : j > i => Len(more[j]) < k
  <2>1. PICK i \in 1 .. n : /\ k <= Len(names[i]) /\ t[k] = names[i][k]
                            /\ \A j \in 1 .. n : j > i => Len(names[j]) < k
    BY <1>2
  <2>2. ASSUME NEW j \in 1 .. n + 1, j > i PROVE Len(more[j]) < k
    <3>1. CASE j = n + 1
      <4>1. 0 < k
        OBVIOUS
      <4> QED
        BY <1>1, <3>1, <4>1
    <3>2. CASE j \in 1 .. n
      <4>1. more[j] = names[j]
        BY <3>2
      <4> QED
        BY <2>1, <2>2, <3>2, <4>1
    <3> QED
      BY <1>3, <3>1, <3>2
  <2>3. i \in 1 .. n + 1 /\ k <= Len(more[i]) /\ t[k] = more[i][k]
    BY <2>1
  <2> QED
    BY <2>2, <2>3
<1> QED
  BY <1>4, <1>5 DEF Overlaid

LEMMA NamesAreStrings ==
  ASSUME NEW l \in Lines
  PROVE  HostOf(l) \in Seq(Chars) /\ PortOf(l) \in Seq(Chars)
<1>1. <<"8", "0">> \in Seq(Chars) /\ <<>> \in Seq(Chars)
  BY CharsAssumption
<1>2. CASE l \in Headers
  BY <1>1, <1>2, HeaderAssumption DEF HostOf, PortOf
<1>3. CASE l = End
  BY <1>1, <1>3 DEF HostOf, PortOf, End
<1> QED
  BY <1>2, <1>3 DEF Lines

\* One more line names a host and a port, or does not.
LEMMA LineIsNamed ==
  ASSUME NEW n \in Nat, n + 1 \in 1 .. Len(lines), ReadTypes, Named(n), lines' = lines,
         IF lines[n + 1].named
         THEN /\ host' = IF lines[n + 1].host = NULL THEN host
                         ELSE Overlay(lines[n + 1].host, host)
              /\ port' = Overlay(PortOf(lines[n + 1]), port)
         ELSE UNCHANGED <<host, port>>
  PROVE  Named(n + 1)'
<1> DEFINE l == lines[n + 1]
<1>1. host \in Seq(Chars) /\ port \in Seq(Chars) /\ lines \in Seq(Lines)
  BY DEF ReadTypes
<1>2. \A i \in 1 .. n + 1 : HostOf(lines[i]) \in Seq(Chars) /\ PortOf(lines[i]) \in Seq(Chars)
  <2>1. \A i \in 1 .. n + 1 : lines[i] \in Lines
    BY <1>1
  <2> QED
    BY <2>1, NamesAreStrings
<1>3. /\ DOMAIN Hosts(n) = 1 .. n /\ DOMAIN Hosts(n + 1) = 1 .. n + 1
      /\ \A i \in 1 .. n : /\ Hosts(n)[i] \in Seq(Chars)
                            /\ Hosts(n + 1)[i] = Hosts(n)[i]
      /\ Hosts(n + 1)[n + 1] = HostOf(l)
  BY <1>2 DEF Hosts
<1>4. /\ DOMAIN Ports(n) = 1 .. n /\ DOMAIN Ports(n + 1) = 1 .. n + 1
      /\ \A i \in 1 .. n : /\ Ports(n)[i] \in Seq(Chars)
                            /\ Ports(n + 1)[i] = Ports(n)[i]
      /\ Ports(n + 1)[n + 1] = PortOf(l)
  BY <1>2 DEF Ports
<1>5. Overlaid(host, Hosts(n)) /\ Overlaid(port, Ports(n))
  BY DEF Named
<1>6. HostOf(l) \in Seq(Chars) /\ PortOf(l) \in Seq(Chars)
  BY <1>2
<1>7. Overlaid(host', Hosts(n + 1))
  <2>1. CASE l.named /\ l.host # NULL
    <3>1. host' = Overlay(HostOf(l), host)
      BY <2>1 DEF HostOf
    <3> HIDE DEF l
    <3> QED
      BY <1>1, <1>3, <1>5, <1>6, <3>1, OverlaidMore
  <2>2. CASE ~ (l.named /\ l.host # NULL)
    <3>1. host' = host /\ HostOf(l) = <<>>
      BY <2>2 DEF HostOf
    <3> HIDE DEF l
    <3> QED
      BY <1>1, <1>3, <1>5, <3>1, OverlaidSame
  <2> QED
    BY <2>1, <2>2
<1>8. Overlaid(port', Ports(n + 1))
  <2>1. CASE l.named
    <3>1. port' = Overlay(PortOf(l), port)
      BY <2>1
    <3> HIDE DEF l
    <3> QED
      BY <1>1, <1>4, <1>5, <1>6, <3>1, OverlaidMore
  <2>2. CASE ~ l.named
    <3>1. port' = port /\ PortOf(l) = <<>>
      BY <2>2 DEF PortOf
    <3> HIDE DEF l
    <3> QED
      BY <1>1, <1>4, <1>5, <3>1, OverlaidSame
  <2> QED
    BY <2>1, <2>2
<1>9. Hosts(n + 1)' = Hosts(n + 1) /\ Ports(n + 1)' = Ports(n + 1)
  BY DEF Hosts, Ports
<1> QED
  BY <1>7, <1>8, <1>9 DEF Named

\* A complete request has its empty line last and nowhere else.
LEMMA EndIsLast ==
  ASSUME ReadTypes, Complete
  PROVE  /\ Len(lines) >= 1
         /\ \A i \in 1 .. Len(lines) : lines[i] = End <=> i = Len(lines)
<1>1. lines \in Seq(Lines) /\ lines # <<>> /\ lines[Len(lines)] = End
  BY DEF ReadTypes, Complete, Last
<1>2. \A i \in 1 .. Len(lines) : i < Len(lines) => lines[i] # End
  BY LinesAssumption DEF ReadTypes
<1>3. Len(lines) >= 1
  BY <1>1
<1> QED
  BY <1>1, <1>2, <1>3

-----------------------------------------------------------------------------
LEMMA ReadInit == Init => ReadInv
<1> SUFFICES ASSUME Init PROVE ReadInv
  OBVIOUS
<1>1. /\ lines \in Seq(Lines)
      /\ \A i \in 1 .. Len(lines) : i < Len(lines) => lines[i] \in Headers
  <2>1. CASE lines = <<>>
    BY <2>1
  <2>2. ASSUME NEW s \in SeqOf(Headers, MaxHeaders), lines \in {s, Append(s, End)}
        PROVE  /\ lines \in Seq(Lines)
               /\ \A i \in 1 .. Len(lines) : i < Len(lines) => lines[i] \in Headers
    <3>1. PICK m \in 0 .. MaxHeaders : s \in [1 .. m -> Headers]
      BY DEF SeqOf
    <3>2. s \in Seq(Headers) /\ s \in Seq(Lines) /\ End \in Lines
      BY <3>1, BoundAssumption DEF Lines
    <3>3. CASE lines = s
      BY <3>2, <3>3
    <3>4. CASE lines = Append(s, End)
      <4>1. lines \in Seq(Lines) /\ Len(lines) = Len(s) + 1
        BY <3>2, <3>4
      <4>2. \A i \in 1 .. Len(s) : lines[i] = s[i] /\ s[i] \in Headers
        BY <3>2, <3>4
      <4> QED
        BY <3>2, <4>1, <4>2
    <3> QED
      BY <2>2, <3>3, <3>4
  <2> QED
    BY <2>1, <2>2 DEF Init
<1>2. ReadTypes
  <2>1. <<>> \in Seq(Words) /\ <<>> \in Seq(Chars)
    OBVIOUS
  <2>2. next \in 1 .. Len(lines) + 1
    <3>1. Len(lines) \in Nat
      BY <1>1
    <3>2. next = 1
      BY DEF Init
    <3> QED
      BY <3>1, <3>2
  <2> QED
    BY <1>1, <2>1, <2>2 DEF Init, ReadTypes, ReadPlaces
<1>3. RequestIsRewritten /\ DestinationIsNamed
  BY DEF Init, RequestIsRewritten, DestinationIsNamed
<1>4. lines # <<>> => LineInv
  BY LinesAssumption DEF Init, LineInv
<1> QED
  BY <1>2, <1>3, <1>4 DEF Init, ReadInv

LEMMA ReadTypesStep == ReadTypes /\ Next => ReadTypes'
<1> SUFFICES ASSUME ReadTypes, Next PROVE ReadTypes'
  OBVIOUS
<1>1. /\ first' = first /\ lines' = lines
      /\ first \in RequestLines \cup {NULL} /\ lines \in Seq(Lines)
      /\ \A i \in 1 .. Len(lines) : i < Len(lines) => lines[i] \in Headers
      /\ \A i \in 1 .. Len(lines) : lines[i] \in Lines
      /\ Len(lines) \in Nat /\ next \in 1 .. Len(lines) + 1
      /\ request \in Seq(Words) /\ host \in Seq(Chars) /\ port \in Seq(Chars)
  <2>1. first' = first /\ lines' = lines
    BY DEF Next, ReadRequestLine, NoRequestLine, Refuse, Parse, FirstHeader, Header,
           NextHeader, HeaderFails, Finish, sent
  <2>2. lines \in Seq(Lines)
    BY DEF ReadTypes
  <2>3. Len(lines) \in Nat /\ \A i \in 1 .. Len(lines) : lines[i] \in Lines
    BY <2>2
  <2> QED
    BY <2>1, <2>2, <2>3 DEF ReadTypes
<1>2. CASE ReadRequestLine
  BY <1>1, <1>2 DEF ReadRequestLine, ReadTypes, ReadPlaces, sent
<1>3. CASE NoRequestLine
  BY <1>1, <1>3 DEF NoRequestLine, ReadTypes, ReadPlaces, sent
<1>4. CASE Refuse
  BY <1>1, <1>4 DEF Refuse, ReadTypes, ReadPlaces, sent
<1>5. CASE Parse
  <2>1. line \in RequestLines
    BY <1>5 DEF Parse, ReadTypes
  <2>2. <<line.urn>> \in Seq(Words) /\ <<>> \in Seq(Chars)
    BY <2>1 DEF Words
  <2> QED
    BY <1>1, <1>5, <2>2 DEF Parse, ReadTypes, ReadPlaces, sent
<1>6. CASE FirstHeader
  <2>1. next' \in 1 .. Len(lines) + 1 /\ buf' \in Lines
    <3>1. CASE ~ AtEnd /\ buf' = lines[next] /\ next' = next + 1
      BY <1>1, <3>1 DEF AtEnd
    <3>2. CASE next' = next /\ buf' \in Lines
      BY <1>1, <3>2
    <3> QED
      BY <1>6, <3>1, <3>2 DEF FirstHeader, Lines
  <2> QED
    BY <1>1, <1>6, <2>1 DEF FirstHeader, ReadTypes, ReadPlaces, sent
<1>7. CASE Header
  <2>1. buf \in Headers /\ buf.id \in Words
    BY <1>7 DEF Header, ReadTypes, Lines, Words
  <2>2. request' \in Seq(Words)
    <3>1. Append(request, buf.id) \in Seq(Words)
      BY <1>1, <2>1
    <3> QED
      BY <1>1, <1>7, <3>1 DEF Header
  <2>3. buf.host = NULL \/ buf.host \in Seq(Chars)
    BY <2>1, HeaderAssumption
  <2>4. (IF buf.port = NULL THEN <<"8", "0">> ELSE buf.port) \in Seq(Chars)
    BY <2>1, HeaderAssumption, CharsAssumption
  <2>5. host' \in Seq(Chars) /\ port' \in Seq(Chars)
    BY <1>1, <1>7, <2>3, <2>4, OverlayIsAString DEF Header
  <2>6. pc' \in {"overrun", "next header"} /\ buf' = buf /\ next' = next
    BY <1>7 DEF Header
  <2> QED
    BY <1>1, <2>1, <2>2, <2>5, <2>6 DEF ReadTypes, ReadPlaces, Lines
<1>8. CASE NextHeader
  <2>1. next' \in 1 .. Len(lines) + 1 /\ buf' \in Lines
    <3>1. CASE ~ AtEnd /\ buf' = lines[next] /\ next' = next + 1
      BY <1>1, <3>1 DEF AtEnd
    <3>2. CASE next' = next /\ buf' = buf
      BY <1>1, <1>8, <3>2 DEF NextHeader, ReadTypes
    <3> QED
      BY <1>8, <3>1, <3>2 DEF NextHeader
  <2> QED
    BY <1>1, <1>8, <2>1 DEF NextHeader, ReadTypes, ReadPlaces, sent
<1>9. CASE HeaderFails
  BY <1>1, <1>9 DEF HeaderFails, ReadTypes, ReadPlaces, sent
<1>10. CASE Finish
  <2>1. Added \in Seq(Words)
    <3>1. Added = [i \in 1 .. 6 |-> Added[i]] /\ Len(Added) = 6
      BY DEF Added
    <3>2. \A i \in 1 .. 6 : Added[i] \in Words
      BY DEF Words
    <3> QED
      BY <3>1, <3>2
  <2>2. request' \in Seq(Words)
    BY <1>1, <1>10, <2>1 DEF Finish
  <2>3. pc' \in {"overrun", "content"} /\ buf' = buf /\ next' = next
        /\ host' = host /\ port' = port
    BY <1>10 DEF Finish
  <2> QED
    BY <1>1, <2>2, <2>3 DEF ReadTypes, ReadPlaces
<1> QED
  BY <1>2, <1>3, <1>4, <1>5, <1>6, <1>7, <1>8, <1>9, <1>10 DEF Next

\* At the empty line the request is what the loop has made of it, and the rest.
LEMMA FinishStep ==
  ASSUME ReadInv, Complete, Finish
  PROVE  (RequestIsRewritten /\ DestinationIsNamed)'
<1> DEFINE n == Len(lines) - 1
<1>1. /\ lines' = lines /\ first' = first /\ host' = host /\ port' = port
      /\ pc = "loop" /\ buf = End /\ request' = request \o Added
      /\ lines \in Seq(Lines) /\ request \in Seq(Words)
  BY DEF Finish, sent, ReadInv, ReadTypes
<1>2. /\ next \in 1 .. Len(lines) + 1 /\ next >= 2 /\ buf = lines[next - 1]
      /\ Rewritten(next - 2) /\ Named(next - 2)
  BY <1>1 DEF ReadInv, ReadTypes, Complete, LineInv
<1>3. n \in Nat /\ next - 2 = n
  <2>1. Len(lines) >= 1 /\ \A i \in 1 .. Len(lines) : lines[i] = End <=> i = Len(lines)
    BY EndIsLast DEF ReadInv
  <2>2. next - 1 \in 1 .. Len(lines)
    BY <1>2
  <2> QED
    BY <1>1, <1>2, <2>1, <2>2
<1>4. Rewritten(n) /\ Named(n)
  BY <1>2, <1>3
<1>5. DestinationIsNamed'
  <2>1. n + 1 = Len(lines) /\ lines[n + 1] = End
    BY <1>1, <1>2, <1>3
  <2>2. HostOf(lines[n + 1]) = <<>> /\ PortOf(lines[n + 1]) = <<>>
    BY <2>1 DEF HostOf, PortOf, End
  <2>3. \A i \in 1 .. n : HostOf(lines[i]) \in Seq(Chars) /\ PortOf(lines[i]) \in Seq(Chars)
    <3>1. \A i \in 1 .. n : lines[i] \in Lines
      BY <1>1, <1>3
    <3> QED
      BY <3>1, NamesAreStrings
  <2> HIDE DEF n
  <2>4. /\ DOMAIN Hosts(n) = 1 .. n /\ DOMAIN Hosts(n + 1) = 1 .. n + 1
        /\ \A i \in 1 .. n : Hosts(n)[i] \in Seq(Chars) /\ Hosts(n + 1)[i] = Hosts(n)[i]
        /\ Hosts(n + 1)[n + 1] = <<>>
    BY <1>3, <2>2, <2>3 DEF Hosts
  <2>5. /\ DOMAIN Ports(n) = 1 .. n /\ DOMAIN Ports(n + 1) = 1 .. n + 1
        /\ \A i \in 1 .. n : Ports(n)[i] \in Seq(Chars) /\ Ports(n + 1)[i] = Ports(n)[i]
        /\ Ports(n + 1)[n + 1] = <<>>
    BY <1>3, <2>2, <2>3 DEF Ports
  <2>6. /\ Overlaid(host, Hosts(n)) /\ Overlaid(port, Ports(n))
        /\ host \in Seq(Chars) /\ port \in Seq(Chars)
    BY <1>4 DEF Named, ReadInv, ReadTypes
  <2>7. Overlaid(host, Hosts(n + 1))
    BY <1>3, <2>4, <2>6, OverlaidSame
  <2>8. Overlaid(port, Ports(n + 1))
    BY <1>3, <2>5, <2>6, OverlaidSame
  <2>9. /\ Hosts(n + 1) = [i \in DOMAIN lines |-> HostOf(lines[i])]
        /\ Ports(n + 1) = [i \in DOMAIN lines |-> PortOf(lines[i])]
    <3>1. DOMAIN lines = 1 .. n + 1
      BY <1>1, <2>1
    <3> QED
      BY <3>1 DEF Hosts, Ports
  <2> QED
    BY <1>1, <2>7, <2>8, <2>9 DEF DestinationIsNamed
<1>6. Complete'
  BY <1>1 DEF Complete
<1>7. RequestIsRewritten'
  <2> DEFINE k == Cardinality(Kept(n))
  <2>1. k \in Nat
    BY <1>3, KeptIsFinite
  <2>2. /\ Len(request) = 1 + k /\ request[1] = first.urn
        /\ \A i \in Kept(n) : request[1 + Cardinality(Kept(i))] = lines[i].id
    BY <1>4 DEF Rewritten
  <2>3. \A i \in Kept(n) : /\ Cardinality(Kept(i)) \in 1 .. k
                           /\ {j \in Kept(n) : j <= i} = Kept(i)
    <3> SUFFICES ASSUME NEW i \in Kept(n)
                 PROVE  /\ Cardinality(Kept(i)) \in 1 .. k
                        /\ {j \in Kept(n) : j <= i} = Kept(i)
      OBVIOUS
    <3>1. i \in 1 .. n /\ Cardinality(Kept(i)) \in 1 .. k
      BY <1>3, KeptHasAPlace
    <3>2. {j \in Kept(n) : j <= i} = Kept(i)
      BY <1>3, <3>1 DEF Kept
    <3> QED
      BY <3>1, <3>2
  <2>4. Kept(n) = {i \in 1 .. Len(lines') - 1 : ~ lines'[i].drop}
    BY <1>1 DEF Kept
  <2> HIDE DEF k
  <2>5. Len(Added) = 6 /\ DOMAIN Added = 1 .. 6 /\ Added \in Seq(Words)
    <3>1. \A i \in 1 .. 6 : Added[i] \in Words
      BY DEF Words
    <3>2. Len(Added) = 6 /\ DOMAIN Added = 1 .. 6 /\ Added = [i \in 1 .. 6 |-> Added[i]]
      BY DEF Added
    <3> QED
      BY <3>1, <3>2
  <2>6. /\ Len(request') = 1 + k + 6
        /\ \A j \in 1 .. 1 + k : request'[j] = request[j]
        /\ \A i \in 1 .. 6 : request'[1 + k + i] = Added[i]
    <3>1. /\ Len(request') = Len(request) + 6
          /\ \A j \in 1 .. Len(request) : request'[j] = request[j]
          /\ \A i \in 1 .. 6 : request'[Len(request) + i] = Added[i]
      <4>1. request' = request \o Added /\ request \in Seq(Words) /\ Added \in Seq(Words)
            /\ Len(Added) = 6
        BY <1>1, <2>5
      <4>2. Len(request) \in Nat
        BY <4>1
      <4>3. /\ Len(request \o Added) = Len(request) + Len(Added)
            /\ \A i \in 1 .. Len(request) + Len(Added) :
                 (request \o Added)[i] = IF i <= Len(request) THEN request[i]
                                         ELSE Added[i - Len(request)]
        BY <4>1, ConcatProperties
      <4>4. \A j \in 1 .. Len(request) : request'[j] = request[j]
        BY <4>1, <4>2, <4>3
      <4>5. ASSUME NEW i \in 1 .. 6 PROVE request'[Len(request) + i] = Added[i]
        <5>1. /\ Len(request) + i \in 1 .. Len(request) + Len(Added)
              /\ ~ (Len(request) + i <= Len(request))
              /\ Len(request) + i - Len(request) = i
          BY <4>1, <4>2
        <5> QED
          BY <4>1, <4>3, <5>1
      <4> QED
        BY <4>1, <4>3, <4>4, <4>5
    <3> QED
      BY <3>1, <2>1, <2>2
  <2>7. request'[1] = first.urn
    BY <2>1, <2>2, <2>6
  <2>8. ASSUME NEW i \in Kept(n)
        PROVE  request'[1 + Cardinality({j \in Kept(n) : j <= i})] = lines[i].id
    <3>1. Cardinality(Kept(i)) \in 1 .. k /\ {j \in Kept(n) : j <= i} = Kept(i)
      BY <2>3
    <3>2. 1 + Cardinality(Kept(i)) \in 1 .. 1 + k
      BY <3>1, <2>1
    <3> QED
      BY <3>1, <3>2, <2>2, <2>6
  <2> QED
    BY <1>1, <1>6, <2>4, <2>5, <2>6, <2>7, <2>8 DEF RequestIsRewritten, k
<1> QED
  BY <1>5, <1>7

\* A request that has a header line and breaks off never comes to an empty one.
LEMMA LineStep ==
  ASSUME ReadInv, Next, lines # <<>>
  PROVE  LineInv'
<1>1. ReadTypes /\ LineInv
  BY DEF ReadInv
<1>2. first' = first /\ lines' = lines
  BY DEF Next, ReadRequestLine, NoRequestLine, Refuse, Parse, FirstHeader, Header,
         NextHeader, HeaderFails, Finish, sent
<1>3. Complete' = Complete
  BY <1>2 DEF Complete
<1>4. /\ lines \in Seq(Lines) /\ Len(lines) \in Nat /\ Len(lines) >= 1
      /\ next \in Nat /\ next >= 1 /\ next <= Len(lines) + 1
      /\ \A i \in 1 .. Len(lines) : i < Len(lines) => lines[i] \in Headers
  <2>1. lines \in Seq(Lines) /\ next \in 1 .. Len(lines) + 1
    BY <1>1 DEF ReadTypes
  <2>2. Len(lines) \in Nat /\ Len(lines) >= 1
    BY <2>1
  <2>3. \A i \in 1 .. Len(lines) : i < Len(lines) => lines[i] \in Headers
    BY <1>1 DEF ReadTypes
  <2>4. next \in Nat /\ next >= 1 /\ next <= Len(lines) + 1
    BY <2>1, <2>2
  <2> QED
    BY <2>1, <2>2, <2>3, <2>4
<1>5. first # NULL
  BY <1>1 DEF LineInv
<1>6. CASE ReadRequestLine \/ Parse
  BY <1>1, <1>2, <1>6 DEF ReadRequestLine, Parse, LineInv
<1>7. CASE NoRequestLine \/ Refuse \/ HeaderFails
  BY <1>2, <1>5, <1>7 DEF NoRequestLine, Refuse, HeaderFails, LineInv
<1>8. CASE FirstHeader
  <2>1. next = 1 /\ pc' = "loop"
    BY <1>1, <1>8 DEF FirstHeader, LineInv
  <2>2. ~ AtEnd
    BY <1>4, <2>1 DEF AtEnd
  <2>3. next' = next + 1 /\ buf' = lines[next]
    BY <1>8, <2>2 DEF FirstHeader, ReadsEOF
  <2>4. next' = 2 /\ next' - 1 = next
    BY <2>1, <2>3
  <2> QED
    BY <1>2, <1>5, <2>1, <2>3, <2>4 DEF LineInv
<1>9. CASE Header
  BY <1>1, <1>2, <1>5, <1>9 DEF Header, LineInv
<1>10. CASE NextHeader
  <2>1. next >= 2 /\ buf = lines[next - 1] /\ pc' = "loop"
    BY <1>1, <1>10 DEF NextHeader, LineInv
  <2>2. next' >= 2 /\ buf' = lines[next' - 1]
    <3>1. CASE buf' = lines[next] /\ next' = next + 1
      BY <1>4, <2>1, <3>1
    <3>2. CASE UNCHANGED <<buf, next>>
      BY <2>1, <3>2
    <3> QED
      BY <1>10, <3>1, <3>2 DEF NextHeader
  <2> QED
    BY <1>2, <1>5, <2>1, <2>2 DEF LineInv
<1>11. CASE Finish
  <2>1. /\ next >= 2 /\ buf = lines[next - 1] /\ buf = End
        /\ pc' \in {"overrun", "content"}
    BY <1>1, <1>11 DEF Finish, LineInv
  <2>2. next - 1 \in 1 .. Len(lines) /\ lines[next - 1] = End
    BY <1>4, <2>1
  <2>3. next - 1 = Len(lines)
    BY <1>4, <2>2, LinesAssumption
  <2>4. Complete
    BY <1>5, <2>2, <2>3 DEF Complete, Last
  <2> QED
    BY <1>2, <1>3, <1>5, <2>1, <2>4 DEF LineInv
<1> QED
  BY <1>6, <1>7, <1>8, <1>9, <1>10, <1>11 DEF Next

LEMMA ReadStep == ReadInv /\ Next => ReadInv'
<1> SUFFICES ASSUME ReadInv, Next PROVE ReadInv'
  OBVIOUS
<1>1. ReadTypes /\ ReadTypes'
  BY ReadTypesStep DEF ReadInv
<1>2. first' = first /\ lines' = lines
  BY DEF Next, ReadRequestLine, NoRequestLine, Refuse, Parse, FirstHeader, Header,
         NextHeader, HeaderFails, Finish, sent
<1>3. Complete' = Complete
  BY <1>2 DEF Complete
<1>4. first # NULL /\ pc' = "parse" => line' = first
  BY <1>1 DEF ReadInv, Next, ReadRequestLine, NoRequestLine, Refuse, Parse, FirstHeader, Header,
         NextHeader, HeaderFails, Finish, sent
<1>5. lines' # <<>> => LineInv'
  BY <1>2, LineStep
<1> SUFFICES ASSUME Complete
             PROVE  /\ pc' = "first header" => Rewritten(0)' /\ Named(0)'
                    /\ pc' = "loop" => Rewritten(next - 2)' /\ Named(next - 2)'
                    /\ pc' = "next header" => /\ next' <= Len(lines)
                                              /\ Rewritten(next - 1)' /\ Named(next - 1)'
                    /\ RequestIsRewritten' /\ DestinationIsNamed'
  BY <1>1, <1>2, <1>3, <1>4, <1>5 DEF ReadInv
<1>6. LineInv
  BY DEF ReadInv, Complete
<1>7. first # NULL /\ Len(lines) >= 1
      /\ \A i \in 1 .. Len(lines) : lines[i] = End <=> i = Len(lines)
  BY <1>1, EndIsLast DEF Complete
<1>8. Len(lines) \in Nat /\ next \in Nat /\ next >= 1 /\ next <= Len(lines) + 1
  <2>1. lines \in Seq(Lines) /\ next \in 1 .. Len(lines) + 1
    BY <1>1 DEF ReadTypes
  <2>2. Len(lines) \in Nat
    BY <2>1
  <2> QED
    BY <2>1, <2>2
<1>9. pc' # "content" => RequestIsRewritten' /\ DestinationIsNamed'
  BY DEF RequestIsRewritten, DestinationIsNamed
<1>10. CASE ReadRequestLine
  BY <1>9, <1>10 DEF ReadRequestLine, ReadInv
<1>11. CASE NoRequestLine \/ Refuse \/ HeaderFails
  BY <1>7, <1>9, <1>11 DEF NoRequestLine, Refuse, HeaderFails
<1>12. CASE Parse
  <2>1. request' = <<first.urn>> /\ host' = <<>> /\ port' = <<>> /\ next' = 1
        /\ pc' = "first header"
    BY <1>7, <1>12, <1>6 DEF Parse, ReadInv, LineInv
  <2>2. Kept(0)' = {}
    BY DEF Kept
  <2>3. Rewritten(0)'
    <3>1. Cardinality({}) = 0
      BY FS_EmptySet
    <3>2. Len(request') = 1 /\ request'[1] = first.urn
      BY <2>1
    <3> QED
      BY <1>2, <2>2, <3>1, <3>2 DEF Rewritten
  <2>4. Named(0)'
    <3>1. ASSUME NEW names, DOMAIN names = {} PROVE Overlaid(<<>>, names)
      BY <3>1 DEF Overlaid
    <3>2. DOMAIN Hosts(0)' = {} /\ DOMAIN Ports(0)' = {}
      BY DEF Hosts, Ports
    <3>3. Overlaid(host', Hosts(0)') /\ Overlaid(port', Ports(0)')
      BY <2>1, <3>1, <3>2
    <3> QED
      BY <3>3, Zenon DEF Named, Overlaid
  <2> QED
    BY <1>9, <2>1, <2>3, <2>4
<1>13. CASE FirstHeader
  <2>1. next = 1 /\ Rewritten(0) /\ Named(0) /\ pc' = "loop"
    BY <1>13, <1>6 DEF FirstHeader, ReadInv, LineInv
  <2>2. next' = 2 /\ buf' = lines[1] /\ request' = request /\ host' = host /\ port' = port
    <3>1. ~ AtEnd
      BY <1>7, <1>8, <2>1 DEF AtEnd
    <3> QED
      <4>1. next' = next + 1 /\ buf' = lines[next]
            /\ request' = request /\ host' = host /\ port' = port
        BY <1>13, <3>1 DEF FirstHeader, ReadsEOF
      <4>2. next' = 2 /\ buf' = lines[1]
        BY <2>1, <4>1
      <4> QED
        BY <4>1, <4>2
  <2>3. Rewritten(0)' /\ Named(0)'
    BY <1>2, <2>1, <2>2 DEF Rewritten, Named, Hosts, Ports, Kept
  <2> QED
    BY <1>9, <2>1, <2>2, <2>3
<1>14. CASE Header
  <2>1. /\ next >= 2 /\ buf = lines[next - 1] /\ buf # End
        /\ Rewritten(next - 2) /\ Named(next - 2) /\ next' = next
    BY <1>14, <1>6 DEF Header, ReadInv, LineInv
  <2> DEFINE n == next - 2
  <2>2. n \in Nat /\ n + 1 = next - 1 /\ n + 1 \in 1 .. Len(lines)
    BY <1>8, <2>1
  <2>3. n + 1 < Len(lines) /\ lines[n + 1] \in Headers
    <3>1. n + 1 # Len(lines)
      BY <1>7, <2>1, <2>2
    <3>2. n + 1 < Len(lines)
      BY <1>8, <2>2, <3>1
    <3> QED
      BY <1>1, <2>2, <3>2 DEF ReadTypes
  <2>4. Rewritten(n + 1)'
    <3>1. lines[n + 1].id \in Words
      BY <2>3 DEF Words, Lines
    <3>2. request' = IF lines[n + 1].drop THEN request ELSE Append(request, lines[n + 1].id)
      BY <1>14, <2>1, <2>2 DEF Header
    <3> QED
      BY <1>1, <1>2, <2>1, <2>2, <3>1, <3>2, LineIsKept
  <2>5. Named(n + 1)'
    <3>1. IF lines[n + 1].named
          THEN /\ host' = IF lines[n + 1].host = NULL THEN host
                          ELSE Overlay(lines[n + 1].host, host)
               /\ port' = Overlay(PortOf(lines[n + 1]), port)
          ELSE UNCHANGED <<host, port>>
      BY <1>14, <2>1, <2>2 DEF Header, PortOf
    <3> QED
      BY <1>1, <1>2, <2>1, <2>2, <3>1, LineIsNamed
  <2>6. pc' \in {"next header", "overrun"}
    BY <1>14 DEF Header
  <2>7. Rewritten(next - 1)' /\ Named(next - 1)'
    BY <2>1, <2>2, <2>4, <2>5
  <2>8. next <= Len(lines)
    BY <1>8, <2>2, <2>3
  <2> QED
    BY <1>9, <2>1, <2>6, <2>7, <2>8
<1>15. CASE NextHeader
  <2>1. /\ next >= 2 /\ next <= Len(lines) /\ Rewritten(next - 1) /\ Named(next - 1)
        /\ pc' = "loop"
    BY <1>15, <1>6 DEF NextHeader, ReadInv, LineInv
  <2>2. next' = next + 1 /\ buf' = lines[next]
        /\ request' = request /\ host' = host /\ port' = port
    <3>1. ~ AtEnd
      BY <1>8, <2>1 DEF AtEnd
    <3> QED
      BY <1>15, <3>1 DEF NextHeader, ReadsEOF
  <2>3. next' - 2 = next - 1 /\ next' - 1 = next
    BY <1>8, <2>2
  <2>4. Rewritten(next - 2)' /\ Named(next - 2)'
    BY <1>2, <2>1, <2>2, <2>3 DEF Rewritten, Named, Hosts, Ports, Kept
  <2> QED
    BY <1>9, <1>8, <2>1, <2>2, <2>3, <2>4
<1>16. CASE Finish
  BY <1>16, FinishStep DEF Finish
<1> QED
  BY <1>10, <1>11, <1>12, <1>13, <1>14, <1>15, <1>16 DEF Next

-----------------------------------------------------------------------------
SocketStates == {"none", "new", "connected", "bound", "listening"}

WalkTypes ==
  /\ fn \in {"open_clientfd", "open_listenfd"} /\ addrs \in Nat
  /\ sockets \subseteq 1 .. addrs /\ accepts \subseteq 1 .. addrs
  /\ at \in {"resolve", "exited", "walk", "attach", "listen", "returned"}
  /\ open \subseteq Fds
  /\ socket \in [Fds -> [addr : Nat, state : SocketStates]]

\* No address that works is before the one the walk is at, and the socket that
\* is open is of that address.
AtFirst  == p \in 1 .. addrs /\ \A q \in S!Working : p <= q
HoldsFor == fd \in Fds /\ open = {fd} /\ socket[fd].addr = p

WalkInv ==
  /\ WalkTypes
  /\ at \in {"resolve", "exited"} => open = {}
  /\ at = "walk" => /\ open = {} /\ p \in 1 .. addrs + 1
                    /\ \A q \in S!Working : p <= q
  /\ at = "attach" => AtFirst /\ HoldsFor /\ p \in sockets
  /\ at = "listen" => /\ AtFirst /\ HoldsFor /\ p \in S!Working
                      /\ fn = "open_listenfd" /\ listp = "freed"
  /\ at = "returned" => /\ listp = "freed"
                        /\ open = (IF result = -1 THEN {} ELSE {result})
                        /\ S!FirstThatWorks

LEMMA WalkInit == S!Init => WalkInv
BY SocketsAssumption DEF S!Init, WalkInv, WalkTypes, SocketStates

\* The least of the addresses that work is the one the walk stopped at.
LEMMA FirstIsLeast ==
  ASSUME WalkTypes, AtFirst, p \in S!Working
  PROVE  S!Min(S!Working) = p
<1>1. \A q \in S!Working : q \in Nat /\ p <= q
  BY DEF WalkTypes, AtFirst, S!Working
<1>2. \A q \in S!Working : q <= p => q = p
  BY <1>1
<1> QED
  BY <1>1, <1>2 DEF S!Min

\* Setting the state of a socket leaves its address.
LEMMA StateIsSet ==
  ASSUME NEW f \in Fds, NEW state \in SocketStates,
         socket \in [Fds -> [addr : Nat, state : SocketStates]],
         socket' = [socket EXCEPT ![f].state = state]
  PROVE  /\ socket' \in [Fds -> [addr : Nat, state : SocketStates]]
         /\ socket'[f] = [addr |-> socket[f].addr, state |-> state]
<1>1. socket[f] \in [addr : Nat, state : SocketStates]
  OBVIOUS
<1>2. socket[f] = [addr |-> socket[f].addr, state |-> socket[f].state]
      /\ socket[f].addr \in Nat
  BY <1>1
<1>3. [socket[f] EXCEPT !.state = state] = [addr |-> socket[f].addr, state |-> state]
  BY <1>2
<1>4. socket' = [socket EXCEPT ![f] = [addr |-> socket[f].addr, state |-> state]]
  BY <1>3
<1>5. [addr |-> socket[f].addr, state |-> state] \in [addr : Nat, state : SocketStates]
  BY <1>2
<1> QED
  BY <1>4, <1>5

LEMMA WalkStep == WalkInv /\ S!Next => WalkInv'
<1> SUFFICES ASSUME WalkInv, S!Next PROVE WalkInv'
  OBVIOUS
<1> USE SocketsAssumption
<1>1. WalkTypes
  BY DEF WalkInv
<1>2. S!setting' = S!setting
  BY DEF S!Next, S!Resolve, S!EndOfList, S!SocketFails, S!Socket, S!Attach, S!AttachFails,
         S!Listen
<1>3. /\ fn' = fn /\ addrs' = addrs /\ sockets' = sockets /\ accepts' = accepts
      /\ listens' = listens /\ S!Working' = S!Working
  BY <1>2 DEF S!setting, S!Working
<1>4. CASE S!Resolve
  <2>1. open' = open /\ socket' = socket /\ open = {}
        /\ \/ at' = "exited"
           \/ at' = "walk" /\ p' = 1
    BY <1>4 DEF S!Resolve, WalkInv
  <2>2. \A q \in S!Working : 1 <= q
    BY <1>1 DEF WalkTypes, S!Working
  <2> QED
    BY <1>1, <1>3, <2>1, <2>2 DEF WalkInv, WalkTypes
<1>5. CASE S!EndOfList
  <2>1. at = "walk" /\ p > addrs /\ listp' = "freed" /\ result' = -1 /\ at' = "returned"
        /\ open' = open /\ socket' = socket
    BY <1>5 DEF S!EndOfList
  <2>2. open = {} /\ p \in Nat /\ \A q \in S!Working : p <= q /\ q \in 1 .. addrs
    BY <1>1, <2>1 DEF WalkInv, WalkTypes, S!Working
  <2>3. S!Working = {}
    BY <1>1, <2>1, <2>2 DEF WalkTypes
  <2>4. S!FirstThatWorks'
    BY <1>3, <2>1, <2>3 DEF S!FirstThatWorks
  <2> QED
    BY <1>1, <1>3, <2>1, <2>2, <2>4 DEF WalkInv, WalkTypes
<1>6. CASE S!SocketFails
  <2>1. at = "walk" /\ at' = at /\ p <= addrs /\ p \notin sockets /\ p' = p + 1
        /\ open' = open /\ socket' = socket
    BY <1>6 DEF S!SocketFails
  <2>2. open = {} /\ p \in 1 .. addrs + 1 /\ \A q \in S!Working : p <= q /\ q \in Nat /\ q # p
    BY <1>1, <2>1 DEF WalkInv, WalkTypes, S!Working
  <2>3. \A q \in S!Working : p + 1 <= q
    BY <2>2
  <2>4. p' \in 1 .. addrs + 1
    BY <1>1, <2>1, <2>2 DEF WalkTypes
  <2> QED
    BY <1>1, <1>3, <2>1, <2>2, <2>3, <2>4 DEF WalkInv, WalkTypes
<1>7. CASE S!Socket
  <2>1. PICK f \in Fds \ open :
          /\ fd' = f /\ open' = open \cup {f} /\ p' = p /\ at' = "attach"
          /\ socket' = [socket EXCEPT ![f] = [addr |-> p, state |-> "new"]]
    BY <1>7 DEF S!Socket
  <2>2. at = "walk" /\ p \in sockets
    BY <1>7 DEF S!Socket
  <2>3. open = {} /\ p \in 1 .. addrs /\ \A q \in S!Working : p <= q
    BY <1>1, <2>2 DEF WalkInv, WalkTypes
  <2>4. socket' \in [Fds -> [addr : Nat, state : SocketStates]] /\ socket'[f].addr = p
    BY <1>1, <2>1, <2>3 DEF WalkTypes, SocketStates
  <2> QED
    BY <1>1, <1>3, <2>1, <2>2, <2>3, <2>4 DEF WalkInv, WalkTypes, AtFirst, HoldsFor
<1>8. CASE S!Attach
  <2>1. /\ at = "attach" /\ p \in accepts /\ listp' = "freed"
        /\ p' = p /\ fd' = fd /\ open' = open
    BY <1>8 DEF S!Attach
  <2>2. AtFirst /\ HoldsFor /\ p \in S!Working
    BY <2>1 DEF WalkInv, S!Working
  <2>3. fd \in Fds /\ fd # -1 /\ socket[fd].addr = p /\ open = {fd}
    BY <2>2 DEF HoldsFor
  <2>4. CASE fn = "open_clientfd"
    <3>1. /\ socket' = [socket EXCEPT ![fd].state = "connected"]
          /\ result' = fd /\ at' = "returned"
      BY <1>8, <2>4 DEF S!Attach
    <3>2. /\ socket' \in [Fds -> [addr : Nat, state : SocketStates]]
          /\ socket'[fd] = [addr |-> p, state |-> "connected"]
      <4>1. "connected" \in SocketStates /\ socket \in [Fds -> [addr : Nat, state : SocketStates]]
        BY <1>1 DEF WalkTypes, SocketStates
      <4>2. /\ socket' \in [Fds -> [addr : Nat, state : SocketStates]]
            /\ socket'[fd] = [addr |-> socket[fd].addr, state |-> "connected"]
        BY <2>3, <3>1, <4>1, StateIsSet
      <4> QED
        BY <2>3, <4>2
    <3>3. S!FirstThatWorks'
      BY <1>1, <1>3, <2>2, <2>3, <2>4, <3>1, <3>2, FirstIsLeast DEF S!FirstThatWorks
    <3> QED
      BY <1>1, <1>3, <2>1, <2>3, <3>1, <3>2, <3>3 DEF WalkInv, WalkTypes
  <2>5. CASE fn # "open_clientfd"
    <3>1. /\ socket' = [socket EXCEPT ![fd].state = "bound"] /\ at' = "listen"
          /\ fn = "open_listenfd"
      BY <1>1, <1>8, <2>5 DEF S!Attach, WalkTypes
    <3>2. /\ socket' \in [Fds -> [addr : Nat, state : SocketStates]]
          /\ socket'[fd].addr = p
      <4>1. "bound" \in SocketStates /\ socket \in [Fds -> [addr : Nat, state : SocketStates]]
        BY <1>1 DEF WalkTypes, SocketStates
      <4>2. /\ socket' \in [Fds -> [addr : Nat, state : SocketStates]]
            /\ socket'[fd] = [addr |-> socket[fd].addr, state |-> "bound"]
        BY <2>3, <3>1, <4>1, StateIsSet
      <4> QED
        BY <2>3, <4>2
    <3> QED
      BY <1>1, <1>3, <2>1, <2>2, <2>3, <3>1, <3>2 DEF WalkInv, WalkTypes, AtFirst, HoldsFor
  <2> QED
    BY <2>4, <2>5
<1>9. CASE S!AttachFails
  <2>1. at = "attach" /\ p \notin accepts /\ open' = open \ {fd} /\ p' = p + 1
        /\ at' = "walk" /\ socket' = socket
    BY <1>9 DEF S!AttachFails
  <2>2. open' = {} /\ p \in 1 .. addrs
        /\ \A q \in S!Working : p <= q /\ q \in Nat /\ q # p
    BY <1>1, <2>1 DEF WalkInv, WalkTypes, S!Working, AtFirst, HoldsFor
  <2>3. p' \in 1 .. addrs + 1 /\ \A q \in S!Working : p + 1 <= q
    BY <1>1, <2>1, <2>2 DEF WalkTypes
  <2> QED
    BY <1>1, <1>3, <2>1, <2>2, <2>3 DEF WalkInv, WalkTypes
<1>10. CASE S!Listen
  <2>1. at = "listen" /\ at' = "returned" /\ listp' = listp
    BY <1>10 DEF S!Listen
  <2>2. AtFirst /\ HoldsFor /\ p \in S!Working /\ fn = "open_listenfd" /\ listp = "freed"
    BY <2>1 DEF WalkInv
  <2>3. fd \in Fds /\ fd # -1 /\ socket[fd].addr = p /\ open = {fd}
    BY <2>2 DEF HoldsFor
  <2>4. CASE listens
    <3>1. socket' = [socket EXCEPT ![fd].state = "listening"] /\ result' = fd /\ open' = open
      BY <1>10, <2>4 DEF S!Listen
    <3>2. /\ socket' \in [Fds -> [addr : Nat, state : SocketStates]]
          /\ socket'[fd] = [addr |-> p, state |-> "listening"]
      <4>1. "listening" \in SocketStates /\ socket \in [Fds -> [addr : Nat, state : SocketStates]]
        BY <1>1 DEF WalkTypes, SocketStates
      <4>2. /\ socket' \in [Fds -> [addr : Nat, state : SocketStates]]
            /\ socket'[fd] = [addr |-> socket[fd].addr, state |-> "listening"]
        BY <2>3, <3>1, <4>1, StateIsSet
      <4> QED
        BY <2>3, <4>2
    <3>3. S!FirstThatWorks'
      BY <1>1, <1>3, <2>2, <2>3, <2>4, <3>1, <3>2, FirstIsLeast DEF S!FirstThatWorks
    <3> QED
      BY <1>1, <1>3, <2>1, <2>2, <2>3, <3>1, <3>2, <3>3 DEF WalkInv, WalkTypes
  <2>5. CASE ~ listens
    <3>1. open' = open \ {fd} /\ result' = -1 /\ socket' = socket
      BY <1>10, <2>5 DEF S!Listen
    <3>2. S!FirstThatWorks'
      BY <1>3, <2>2, <2>5, <3>1 DEF S!FirstThatWorks
    <3> QED
      BY <1>1, <1>3, <2>1, <2>2, <2>3, <3>1, <3>2 DEF WalkInv, WalkTypes
  <2> QED
    BY <2>4, <2>5
<1> QED
  BY <1>4, <1>5, <1>6, <1>7, <1>8, <1>9, <1>10 DEF S!Next

-----------------------------------------------------------------------------
(***************************************************************************)
(* The two together: main opens its socket without a request, and a thread *)
(* that has not read the whole of its request has opened nothing.          *)
(***************************************************************************)
ConnectionInv ==
  /\ ReadInv /\ WalkInv
  /\ fn = "open_listenfd" => pc = "request line"
  /\ fn = "open_clientfd" /\ pc # "content" => at = "resolve"

LEMMA ConnectionInvInit == ConnectionInit => ConnectionInv
<1> SUFFICES ASSUME ConnectionInit PROVE ConnectionInv
  OBVIOUS
<1>1. ReadInv /\ WalkInv
  BY ReadInit, WalkInit DEF ConnectionInit
<1>2. pc = "request line" /\ at = "resolve"
  BY DEF ConnectionInit, Init, S!Init
<1> QED
  BY <1>1, <1>2 DEF ConnectionInv

LEMMA ReadUnchanged == ReadInv /\ UNCHANGED vars => ReadInv'
<1> SUFFICES ASSUME ReadInv, UNCHANGED vars PROVE ReadInv'
  OBVIOUS
<1>1. /\ first' = first /\ lines' = lines /\ next' = next /\ pc' = pc /\ line' = line
      /\ buf' = buf /\ request' = request /\ host' = host /\ port' = port
  BY DEF vars
<1>2. ReadTypes'
  BY <1>1 DEF ReadInv, ReadTypes
<1>3. Complete' = Complete /\ \A n : Rewritten(n)' = Rewritten(n) /\ Named(n)' = Named(n)
  BY <1>1 DEF Complete, Rewritten, Named, Hosts, Ports, Kept
<1>4. RequestIsRewritten' = RequestIsRewritten /\ DestinationIsNamed' = DestinationIsNamed
  BY <1>1 DEF Complete, RequestIsRewritten, DestinationIsNamed
<1>5. LineInv' = LineInv
  BY <1>1, <1>3 DEF LineInv
<1> QED
  BY <1>1, <1>2, <1>3, <1>4, <1>5, Zenon DEF ReadInv

LEMMA WalkUnchanged == WalkInv /\ UNCHANGED opening => WalkInv'
BY DEF opening, WalkInv, WalkTypes, AtFirst, HoldsFor, S!FirstThatWorks, S!Working

LEMMA ConnectionInvStep ==
  ConnectionInv /\ [ConnectionNext]_<<vars, opening>> => ConnectionInv'
<1> SUFFICES ASSUME ConnectionInv, [ConnectionNext]_<<vars, opening>> PROVE ConnectionInv'
  OBVIOUS
<1>1. CASE Read
  <2>1. ReadInv' /\ WalkInv'
    BY <1>1, ReadStep, WalkUnchanged DEF Read, ConnectionInv
  <2>2. fn = "open_clientfd" /\ fn' = fn /\ at' = at /\ pc # "content"
    BY <1>1 DEF Read, opening, Next, ReadRequestLine, NoRequestLine, Refuse, Parse,
                FirstHeader, Header, NextHeader, HeaderFails, Finish
  <2> QED
    BY <2>1, <2>2 DEF ConnectionInv
<1>2. CASE Open
  <2>1. ReadInv' /\ WalkInv'
    BY <1>2, ReadUnchanged, WalkStep DEF Open, ConnectionInv
  <2>2. pc' = pc /\ fn' = fn /\ (fn = "open_listenfd" \/ pc = "content")
    BY <1>2 DEF Open, vars, S!Next, S!setting, S!Resolve, S!EndOfList, S!SocketFails,
                S!Socket, S!Attach, S!AttachFails, S!Listen
  <2> QED
    BY <2>1, <2>2 DEF ConnectionInv
<1>3. CASE UNCHANGED <<vars, opening>>
  <2>1. ReadInv' /\ WalkInv'
    BY <1>3, ReadUnchanged, WalkUnchanged DEF ConnectionInv
  <2>2. pc' = pc /\ fn' = fn /\ at' = at
    BY <1>3 DEF vars, opening
  <2> QED
    BY <2>1, <2>2 DEF ConnectionInv
<1> QED
  BY <1>1, <1>2, <1>3 DEF ConnectionNext

LEMMA ConnectionInvariant == ConnectionSpec => []ConnectionInv
BY ConnectionInvInit, ConnectionInvStep, PTL DEF ConnectionSpec, Running

\* read_requesthdrs: the request that goes to the server is the request line in
\* its new form, every line the client sent that is not replaced, in its order
\* and once, and the replacements, whatever the lines and however many; and a
\* request that breaks off after a header line never goes there.
THEOREM RequestRewritten == ConnectionSpec => []RequestIsRewritten
<1>1. ConnectionInv => RequestIsRewritten
  <2> SUFFICES ASSUME ConnectionInv PROVE RequestIsRewritten
    OBVIOUS
  <2>1. ReadInv
    BY DEF ConnectionInv
  <2>2. Complete => RequestIsRewritten
    BY <2>1 DEF ReadInv
  <2>3. pc = "content" /\ lines # <<>> => Complete
    BY <2>1 DEF ReadInv, LineInv
  <2> QED
    BY <2>2, <2>3 DEF RequestIsRewritten
<1> QED
  BY <1>1, ConnectionInvariant, PTL

\* read_requesthdrs: of any request that is complete, the host and the port are
\* what its lines with "Host:" leave when each is written over the start of the
\* one before.  Where one line names them they are those it names, port 80 if it
\* gives none; where several do, each character is that of the last long enough.
THEOREM DestinationNamed == ConnectionSpec => []DestinationIsNamed
<1>1. ConnectionInv => DestinationIsNamed
  <2> SUFFICES ASSUME ConnectionInv PROVE DestinationIsNamed
    OBVIOUS
  <2>1. Complete => DestinationIsNamed
    BY DEF ConnectionInv, ReadInv
  <2> QED
    BY <2>1 DEF DestinationIsNamed
<1> QED
  BY <1>1, ConnectionInvariant, PTL

\* open_clientfd and open_listenfd hold one descriptor at most, return none but
\* the one they report and free the list, for any list and any failures in it;
\* and a thread whose request is refused or breaks off holds none.
THEOREM NoDescriptorLeaks == ConnectionSpec => []NothingLeaks
<1>1. ConnectionInv => NothingLeaks
  <2> SUFFICES ASSUME ConnectionInv PROVE NothingLeaks
    OBVIOUS
  <2>1. WalkInv
    BY DEF ConnectionInv
  <2>2. open = {} \/ \E f \in Fds : open = {f}
    <3>1. at = "returned" /\ open # {} => open = {result} /\ result \in Fds
      BY <2>1 DEF WalkInv, WalkTypes
    <3> QED
      BY <2>1, <3>1 DEF WalkInv, WalkTypes, HoldsFor
  <2>3. S!Cardinality(open) <= 1
    <3>1. open = {} => Cardinality(open) = 0
      BY FS_EmptySet
    <3>2. \A f \in Fds : open = {f} => Cardinality(open) = 1
      BY FS_Singleton
    <3>3. Cardinality(open) <= 1
      BY <2>2, <3>1, <3>2
    <3> QED
      BY <3>3 DEF S!Cardinality, Cardinality
  <2>4. /\ at \in {"attach", "listen"} => open = {fd}
        /\ at = "returned" => open = (IF result = -1 THEN {} ELSE {result}) /\ listp = "freed"
    BY <2>1 DEF WalkInv, HoldsFor
  <2>5. pc \in {"ended", "refused"} => open = {}
    BY <2>1 DEF ConnectionInv, WalkInv, WalkTypes
  <2> QED
    BY <2>3, <2>4, <2>5 DEF NothingLeaks, S!NothingLeaks
<1> QED
  BY <1>1, ConnectionInvariant, PTL

\* The walk stops at the first address that can be opened and connected, or
\* bound, and gives up only when there is none, or listen fails.
THEOREM FirstAddressThatWorks == ConnectionSpec => []FirstThatWorks
<1>1. ConnectionInv => FirstThatWorks
  BY DEF ConnectionInv, WalkInv, FirstThatWorks, S!FirstThatWorks
<1> QED
  BY <1>1, ConnectionInvariant, PTL
=============================================================================
