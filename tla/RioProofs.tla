------------------------------ MODULE RioProofs -------------------------------
(***************************************************************************)
(* Proofs about the Rio package, for every buffer size, stream and length  *)
(* of the calls: it implements ByteStream.                                 *)
(*                                                                         *)
(* The invariant says where every byte is between the kernel and the       *)
(* caller.  A call commits when it returns; the steps before leave the     *)
(* place in the stream and the last result alone.                          *)
(***************************************************************************)
EXTENDS Rio, SequenceTheorems, TLAPS

\* What the calls know of the bytes they have moved.
CallInv ==
  /\ pos \in 0 .. Len(text)
  /\ op = "none" => usr = <<>>
  /\ op = "rio_readn" => cnt <= 0
  /\ op = "rio_writen" => \A i \in 1 .. Len(usr) : usr[i] = i
  /\ op = "rio_readlineb" => \A i \in 1 .. Len(usr) - 1 : ~ text[usr[i]]

IInv == TypeOK /\ BufferIsNext /\ CallInv

USE BufferAssumption, RioSizesAssumption, TextAssumption

-----------------------------------------------------------------------------
LEMMA TextIsSeq == UNION {[1 .. k -> BOOLEAN] : k \in 0 .. MaxText} \subseteq Seq(BOOLEAN)
BY SeqDef

LEMMA InitInv == Init => IInv
<1> SUFFICES ASSUME Init PROVE IInv
  OBVIOUS
<1>1. text \in Seq(BOOLEAN) /\ Len(text) <= MaxText /\ Len(text) \in Nat
  <2>1. PICK k \in 0 .. MaxText : text \in [1 .. k -> BOOLEAN]
    BY DEF Init
  <2>2. text \in Seq(BOOLEAN)
    BY TextIsSeq DEF Init
  <2>3. Len(text) = k
    BY <2>1, <2>2, LenProperties
  <2> QED
    BY <2>1, <2>2, <2>3
<1>2. usr = <<>> /\ Len(usr) = 0 /\ usr \in Seq(Nat)
  BY DEF Init
<1>3. TypeOK
  BY <1>1, <1>2 DEF Init, TypeOK
<1>4. pos = 0 /\ op = "none" /\ cnt = 0
  <2>1. op = "none" /\ op \notin Reads /\ cnt = 0 /\ fetched = 0
    BY DEF Init, Reads, Buffered
  <2>2. Held = 0 /\ Taken = 0
    BY <2>1 DEF Held, Taken
  <2> QED
    BY <2>1, <2>2 DEF pos
<1> QED
  BY <1>1, <1>2, <1>3, <1>4 DEF IInv, BufferIsNext, CallInv, Reads, Buffered

\* What follows k, appended to a run of positions that ends at k, continues it.
LEMMA RunGrows ==
  ASSUME NEW s \in Seq(Nat), NEW e \in Seq(Nat), NEW k \in Nat,
         \A i \in 1 .. Len(s) : s[i] = k + i,
         \A i \in 1 .. Len(e) : e[i] = k + Len(s) + i
  PROVE  /\ s \o e \in Seq(Nat) /\ Len(s \o e) = Len(s) + Len(e)
         /\ \A i \in 1 .. Len(s \o e) : (s \o e)[i] = k + i
         /\ \A i \in 1 .. Len(s) : (s \o e)[i] = s[i]
BY ConcatProperties

LEMMA FollowingIs ==
  ASSUME NEW k \in Nat, NEW c \in Nat
  PROVE  /\ Following(k, c) \in Seq(Nat) /\ Len(Following(k, c)) = c
         /\ \A i \in 1 .. c : Following(k, c)[i] = k + i
<1>1. Following(k, c) \in [1 .. c -> Nat]
  BY DEF Following
<1>2. Following(k, c) \in Seq(Nat)
  BY <1>1, SeqDef
<1>3. Len(Following(k, c)) = c
  BY <1>1, <1>2, LenProperties
<1> QED
  BY <1>2, <1>3 DEF Following

-----------------------------------------------------------------------------
LEMMA OpsAre ==
  /\ Buffered = {"rio_readnb", "rio_readlineb"}
  /\ Reads = {"rio_readnb", "rio_readlineb", "rio_readn"}
  /\ Ops = {"rio_readnb", "rio_readlineb", "rio_readn", "rio_writen"}
BY DEF Ops, Reads, Buffered

LEMMA CallStep ==
  ASSUME IInv, NEW o \in Ops, NEW k \in Sizes, Call(o, k)
  PROVE  IInv' /\ pos' = pos
<1>1. /\ UNCHANGED <<text, fetched, buf, bufptr, cnt, usr, ret>>
      /\ op = "none" /\ usr = <<>> /\ op' = o /\ n' = k /\ (o = "rio_readn" => cnt <= 0)
  BY DEF Call, rp, IInv, CallInv
<1>2. Len(usr) = 0 /\ Len(usr') = 0 /\ k \in Nat \ {0}
  BY <1>1
<1>3. pos = fetched - Held /\ pos' = fetched - Held /\ Held' = Held
  <2>1. Held' = Held /\ op \notin Reads
    BY <1>1, OpsAre DEF Held
  <2>2. fetched - Held \in Int
    BY DEF IInv, TypeOK, Held
  <2>3. Taken = 0 /\ Taken' = 0
    BY <1>1, <1>2, <2>1 DEF Taken
  <2> QED
    BY <1>1, <2>1, <2>2, <2>3 DEF pos
<1>4. TypeOK'
  BY <1>1, <1>2, OpsAre DEF IInv, TypeOK
<1>5. BufferIsNext'
  BY <1>1, <1>2, <1>3 DEF IInv, BufferIsNext
<1>6. CallInv'
  BY <1>1, <1>2, <1>3, OpsAre DEF IInv, CallInv
<1> QED
  BY <1>3, <1>4, <1>5, <1>6 DEF IInv

\* A call that returns leaves the buffer in order and the caller without bytes.
LEMMA ReturnInv ==
  ASSUME IInv, op # "none", NEW code, NEW bytes, Return(code, bytes),
         UNCHANGED <<text, fetched, buf, bufptr, n>>,
         cnt' = cnt \/ (cnt <= 0 /\ cnt' \in {-1, 0})
  PROVE  IInv' /\ pos' = fetched - Held /\ pos' \in pos .. Len(text)
<1>1. op' = "none" /\ usr' = <<>> /\ Len(usr') = 0 /\ usr' \in Seq(Nat)
  BY DEF Return
<1>2. Held' = Held /\ Held \in Nat
  BY DEF Held, IInv, TypeOK
<1>3. pos' = fetched - Held
  <2>1. Taken' = 0
    BY <1>1, OpsAre DEF Taken
  <2>2. fetched - Held \in Int
    BY <1>2 DEF IInv, TypeOK
  <2> QED
    BY <1>2, <2>1, <2>2 DEF pos
<1>4. pos' \in pos .. Len(text)
  <2>1. Taken \in Nat /\ Len(text) \in Nat /\ fetched \in 0 .. Len(text)
    BY LenProperties DEF Taken, IInv, TypeOK
  <2> QED
    BY <1>2, <1>3, <2>1 DEF IInv, CallInv, pos
<1>5. TypeOK'
  BY <1>1 DEF IInv, TypeOK
<1>6. BufferIsNext'
  <2>1. op' \notin Reads
    BY <1>1, OpsAre
  <2>2. cnt' > 0 => cnt' = cnt
    BY DEF IInv, TypeOK
  <2> QED
    BY <2>1, <2>2 DEF IInv, BufferIsNext
<1>7. CallInv'
  BY <1>1, <1>4, LenProperties DEF IInv, CallInv, TypeOK
<1> QED
  BY <1>3, <1>4, <1>5, <1>6, <1>7 DEF IInv

LEMMA RefillStep ==
  ASSUME IInv, NEW c \in 1 .. Least(RIO_BUFSIZE, Len(text) - fetched), Refill(c)
  PROVE  IInv' /\ pos' = pos
<1>1. /\ UNCHANGED <<text, op, n, usr, ret>> /\ op \in Buffered /\ cnt <= 0
      /\ bufptr' = 1 /\ cnt' = c /\ fetched' = fetched + c /\ buf' = Fill(c)
  BY DEF Refill, Refilling
<1>2. /\ c \in Nat \ {0} /\ c <= RIO_BUFSIZE /\ fetched + c \in 0 .. Len(text)
      /\ Len(text) \in Nat /\ Len(usr) \in Nat
  BY LenProperties DEF Least, IInv, TypeOK
<1>3. buf' \in [1 .. RIO_BUFSIZE -> 0 .. Len(text)]
      /\ \A i \in 1 .. c : buf'[i] = fetched + i
  <2>1. \A i \in 1 .. RIO_BUFSIZE :
          Fill(c)[i] \in 0 .. Len(text) /\ (i <= c => Fill(c)[i] = fetched + i)
    BY <1>2 DEF Fill, IInv, TypeOK
  <2> QED
    BY <1>1, <1>2, <2>1 DEF Fill
<1>4. Held = 0 /\ Held' = c
  <2>1. ~(cnt > 0) /\ c > 0
    BY <1>1, <1>2 DEF IInv, TypeOK
  <2> QED
    BY <1>1, <2>1 DEF Held
<1>5. pos = fetched - Len(usr) /\ pos' = pos
  <2>1. Taken = Len(usr) /\ Taken' = Len(usr)
    BY <1>1, OpsAre DEF Taken
  <2> QED
    BY <1>1, <1>2, <1>4, <2>1 DEF pos, IInv, TypeOK
<1>6. TypeOK'
  BY <1>1, <1>2, <1>3 DEF IInv, TypeOK
<1>7. BufferIsNext'
  <2>1. \A i \in 0 .. c - 1 : buf'[1 + i] = (fetched + c) - c + 1 + i
    BY <1>2, <1>3 DEF IInv, TypeOK
  <2> QED
    BY <1>1, <1>2, <1>5, <2>1 DEF IInv, BufferIsNext
<1>8. CallInv'
  BY <1>1, <1>5, OpsAre DEF IInv, CallInv
<1> QED
  BY <1>5, <1>6, <1>7, <1>8 DEF IInv

LEMMA InterruptStep ==
  ASSUME IInv, RefillInterrupted
  PROVE  IInv' /\ pos' = pos
<1>1. UNCHANGED <<text, fetched, buf, bufptr, op, n, usr, ret>>
      /\ op \in Buffered /\ cnt <= 0 /\ cnt' = -1
  BY DEF RefillInterrupted, Refilling
<1>2. Held' = Held /\ pos' = pos
  <2>1. Held' = Held
    BY <1>1 DEF Held, IInv, TypeOK
  <2>2. Taken' = Taken
    BY <1>1 DEF Taken
  <2> QED
    BY <1>1, <2>1, <2>2 DEF pos
<1> QED
  BY <1>1, <1>2, OpsAre DEF IInv, TypeOK, BufferIsNext, CallInv

\* A line goes on only while no byte of it ends it.
LEMMA LineGoesOn ==
  ASSUME IInv, op = "rio_readlineb", More
  PROVE  Len(usr) + 1 < n /\ \A i \in 1 .. Len(usr) : ~ text[usr[i]]
<1>1. Len(usr) \in Nat /\ (Len(usr) = 0 <=> usr = <<>>)
  BY LenProperties, EmptySeq DEF IInv, TypeOK
<1>2. \A i \in 1 .. Len(usr) - 1 : ~ text[usr[i]]
  BY DEF IInv, CallInv
<1>3. Len(usr) + 1 < n /\ (usr # <<>> => ~ text[usr[Len(usr)]])
  BY DEF More
<1> QED
  BY <1>1, <1>2, <1>3

\* The bytes copied are the next, whichever way the call asked for them.
LEMMA TakeStep ==
  ASSUME IInv, Take
  PROVE  IInv' /\ pos' = pos
<1> DEFINE c == Least(Asks, cnt)
           e == SubSeq(buf, bufptr, bufptr + c - 1)
<1>1. /\ UNCHANGED <<text, fetched, buf, op, n, ret>>
      /\ op \in Buffered /\ More /\ cnt > 0
      /\ usr' = usr \o e /\ bufptr' = bufptr + c /\ cnt' = cnt - c
  BY DEF Take
<1>2. /\ Len(usr) \in Nat /\ usr \in Seq(Nat) /\ Len(text) \in Nat /\ n \in Nat
      /\ cnt \in Nat /\ bufptr \in Nat \ {0} /\ fetched \in Nat
  BY <1>1, LenProperties DEF IInv, TypeOK
<1>3. c \in 1 .. cnt /\ Len(usr) + c <= n
      /\ (op = "rio_readlineb" => c = 1 /\ Len(usr) + c < n)
  BY <1>1, <1>2 DEF More, Asks, Least
<1>4. buf \in Seq(0 .. Len(text)) /\ Len(buf) = RIO_BUFSIZE
  <2>1. buf \in [1 .. RIO_BUFSIZE -> 0 .. Len(text)]
    BY DEF IInv, TypeOK
  <2>2. buf \in Seq(0 .. Len(text))
    BY <2>1, SeqDef
  <2> QED
    BY <2>1, <2>2, LenProperties
<1>5. bufptr + cnt - 1 <= RIO_BUFSIZE
      /\ \A i \in 0 .. cnt - 1 : buf[bufptr + i] = fetched - cnt + 1 + i
  BY <1>1 DEF IInv, BufferIsNext
<1>6. e \in Seq(0 .. Len(text)) /\ Len(e) = c
      /\ \A i \in 1 .. c : e[i] = buf[bufptr + i - 1]
  <2>1. bufptr \in 1 .. Len(buf) /\ bufptr + c - 1 \in bufptr - 1 .. Len(buf)
    BY <1>2, <1>3, <1>4, <1>5
  <2>2. bufptr + c - 1 \in Int /\ bufptr + c - 1 >= bufptr
        /\ (bufptr + c - 1) - bufptr + 1 = c
    BY <1>2, <1>3
  <2>3. /\ e \in Seq(0 .. Len(text)) /\ Len(e) = (bufptr + c - 1) - bufptr + 1
        /\ \A i \in 1 .. (bufptr + c - 1) - bufptr + 1 : e[i] = buf[bufptr + i - 1]
    <3> HIDE DEF c
    <3> QED
      BY <1>4, <2>1, <2>2, SubSeqProperties
  <2> HIDE DEF c, e
  <2> QED
    BY <2>2, <2>3
<1> HIDE DEF c, e
<1>7. Held = cnt /\ Held' = cnt - c
  BY <1>1, <1>2, <1>3 DEF Held
<1>8. pos = fetched - cnt - Len(usr) /\ pos \in 0 .. Len(text)
      /\ \A i \in 1 .. Len(usr) : usr[i] = pos + i
  <2>1. op \in Reads
    BY <1>1, OpsAre
  <2> QED
    BY <1>7, <2>1 DEF pos, Taken, IInv, CallInv, BufferIsNext
<1>9. \A i \in 1 .. c : e[i] = pos + Len(usr) + i
  <2> SUFFICES ASSUME NEW i \in 1 .. c PROVE e[i] = pos + Len(usr) + i
    OBVIOUS
  <2>1. i - 1 \in 0 .. cnt - 1 /\ bufptr + i - 1 = bufptr + (i - 1)
    BY <1>2, <1>3
  <2>2. e[i] = fetched - cnt + 1 + (i - 1)
    BY <1>5, <1>6, <2>1
  <2> QED
    BY <1>2, <1>3, <1>8, <2>2
<1>10. e \in Seq(Nat)
  BY <1>2, <1>6, SeqMonotonic
<1>11. /\ usr' \in Seq(Nat) /\ Len(usr') = Len(usr) + c
       /\ \A i \in 1 .. Len(usr') : usr'[i] = pos + i
       /\ \A i \in 1 .. Len(usr) : usr'[i] = usr[i]
  <2>1. pos \in Nat /\ \A i \in 1 .. Len(e) : e[i] = pos + Len(usr) + i
    BY <1>2, <1>6, <1>8, <1>9
  <2> HIDE DEF pos
  <2>2. /\ usr \o e \in Seq(Nat) /\ Len(usr \o e) = Len(usr) + Len(e)
        /\ \A i \in 1 .. Len(usr \o e) : (usr \o e)[i] = pos + i
        /\ \A i \in 1 .. Len(usr) : (usr \o e)[i] = usr[i]
    BY <1>2, <1>8, <1>10, <2>1, RunGrows
  <2> QED
    BY <1>1, <1>6, <2>2
<1>12. pos' = pos
  <2>1. op' \in Reads
    BY <1>1, OpsAre
  <2>2. fetched - (cnt - c) - (Len(usr) + c) = fetched - cnt - Len(usr)
    BY <1>2, <1>3
  <2> QED
    BY <1>1, <1>7, <1>8, <1>11, <2>1, <2>2 DEF pos, Taken
<1>13. TypeOK'
  BY <1>1, <1>2, <1>3, <1>5, <1>11 DEF IInv, TypeOK
<1>14. BufferIsNext'
  <2>1. ASSUME cnt' > 0
        PROVE  /\ bufptr' + cnt' - 1 <= RIO_BUFSIZE
               /\ \A i \in 0 .. cnt' - 1 : buf[bufptr' + i] = fetched - cnt' + 1 + i
    <3>1. bufptr' + cnt' - 1 = bufptr + cnt - 1
      BY <1>1, <1>2, <1>3
    <3>2. ASSUME NEW i \in 0 .. cnt' - 1
          PROVE  buf[bufptr' + i] = fetched - cnt' + 1 + i
      <4>1. c + i \in 0 .. cnt - 1 /\ bufptr' + i = bufptr + (c + i)
        BY <1>1, <1>2, <1>3, <3>2
      <4>2. buf[bufptr + (c + i)] = fetched - cnt + 1 + (c + i)
        BY <1>5, <4>1
      <4> QED
        BY <1>1, <1>2, <1>3, <4>1, <4>2
    <3> QED
      BY <1>5, <3>1, <3>2
  <2> QED
    BY <1>1, <1>11, <1>12, <2>1 DEF BufferIsNext
<1>15. CallInv'
  <2>1. op = "rio_readlineb" => \A i \in 1 .. Len(usr') - 1 : ~ text[usr'[i]]
    <3> SUFFICES ASSUME op = "rio_readlineb", NEW i \in 1 .. Len(usr') - 1
                 PROVE  ~ text[usr'[i]]
      OBVIOUS
    <3>1. i \in 1 .. Len(usr)
      BY <1>2, <1>3, <1>11
    <3> QED
      BY <1>1, <1>11, <3>1, LineGoesOn
  <2> QED
    BY <1>1, <1>8, <1>12, <2>1, OpsAre DEF CallInv
<1> QED
  BY <1>12, <1>13, <1>14, <1>15 DEF IInv

\* rio_readn appends what the kernel hands over, and rio_writen counts it.
LEMMA DirectStep ==
  ASSUME IInv, NEW c \in 1 .. Least(Asks, Len(text) - fetched), ReadDirect(c)
  PROVE  IInv' /\ pos' = pos
<1>1. /\ UNCHANGED <<text, buf, bufptr, cnt, op, n, ret>>
      /\ op = "rio_readn" /\ More /\ cnt <= 0
      /\ usr' = usr \o Following(fetched, c) /\ fetched' = fetched + c
  BY DEF ReadDirect, rp, IInv, CallInv
<1>2. /\ Len(usr) \in Nat /\ usr \in Seq(Nat) /\ Len(text) \in Nat /\ n \in Nat
      /\ fetched \in Nat /\ fetched <= Len(text)
  BY LenProperties DEF IInv, TypeOK
<1>3. c \in Nat \ {0} /\ Len(usr) + c <= n /\ fetched + c \in 0 .. Len(text)
  BY <1>1, <1>2 DEF More, Asks, Least
<1>4. Held = 0 /\ Held' = 0
  BY <1>1 DEF Held, IInv, TypeOK
<1>5. pos = fetched - Len(usr) /\ pos \in Nat
      /\ \A i \in 1 .. Len(usr) : usr[i] = pos + i
  <2>1. op \in Reads
    BY <1>1, OpsAre
  <2>2. pos = fetched - Len(usr)
    BY <1>2, <1>4, <2>1 DEF pos, Taken
  <2> QED
    BY <1>2, <2>1, <2>2 DEF IInv, CallInv, BufferIsNext
<1> DEFINE e == Following(fetched, c)
<1>6. e \in Seq(Nat) /\ Len(e) = c /\ \A i \in 1 .. Len(e) : e[i] = pos + Len(usr) + i
  BY <1>2, <1>3, <1>5, FollowingIs
<1> HIDE DEF e, pos
<1>7. /\ usr \o e \in Seq(Nat) /\ Len(usr \o e) = Len(usr) + Len(e)
      /\ \A i \in 1 .. Len(usr \o e) : (usr \o e)[i] = pos + i
  BY <1>2, <1>5, <1>6, RunGrows
<1>8. usr' = usr \o e
  BY <1>1 DEF e
<1>9. pos' = pos
  <2>1. Taken' = Len(usr) + c
    BY <1>1, <1>6, <1>7, <1>8, OpsAre DEF Taken
  <2> QED
    BY <1>1, <1>2, <1>3, <1>4, <1>5, <2>1 DEF pos
<1>10. TypeOK'
  BY <1>1, <1>2, <1>3, <1>6, <1>7, <1>8 DEF IInv, TypeOK
<1>11. BufferIsNext'
  <2>1. ~(cnt > 0)
    BY <1>1 DEF IInv, TypeOK
  <2> QED
    BY <1>1, <1>7, <1>8, <1>9, <2>1 DEF BufferIsNext
<1>12. CallInv'
  BY <1>1, <1>2, <1>3, <1>9 DEF IInv, CallInv
<1> QED
  BY <1>9, <1>10, <1>11, <1>12 DEF IInv

LEMMA WriteStep ==
  ASSUME IInv, NEW c \in 1 .. Asks, WriteSome(c)
  PROVE  IInv' /\ pos' = pos
<1>1. /\ UNCHANGED <<text, fetched, buf, bufptr, cnt, op, n, ret>>
      /\ op = "rio_writen" /\ More /\ usr' = usr \o Following(Len(usr), c)
  BY DEF WriteSome, rp
<1>2. Len(usr) \in Nat /\ usr \in Seq(Nat) /\ n \in Nat
  BY LenProperties DEF IInv, TypeOK
<1>3. c \in Nat \ {0} /\ Len(usr) + c <= n
  BY <1>1, <1>2 DEF More, Asks
<1> DEFINE e == Following(Len(usr), c)
<1>4. e \in Seq(Nat) /\ Len(e) = c /\ \A i \in 1 .. Len(e) : e[i] = Len(usr) + i
  BY <1>2, <1>3, FollowingIs
<1>5. \A i \in 1 .. Len(usr) : usr[i] = i
  BY <1>1, <1>2 DEF IInv, CallInv
<1> HIDE DEF e
<1>6. /\ usr \o e \in Seq(Nat) /\ Len(usr \o e) = Len(usr) + Len(e)
      /\ \A i \in 1 .. Len(usr \o e) : (usr \o e)[i] = i
  <2>1. PICK k \in Nat : k = 0
    OBVIOUS
  <2>2. /\ \A i \in 1 .. Len(usr) : usr[i] = k + i
        /\ \A i \in 1 .. Len(e) : e[i] = k + Len(usr) + i
    BY <1>2, <1>4, <1>5, <2>1
  <2>3. /\ usr \o e \in Seq(Nat) /\ Len(usr \o e) = Len(usr) + Len(e)
        /\ \A i \in 1 .. Len(usr \o e) : (usr \o e)[i] = k + i
    BY <1>2, <1>4, <2>2, RunGrows
  <2> QED
    BY <1>2, <1>4, <2>1, <2>3
<1>7. usr' = usr \o e
  BY <1>1 DEF e
<1>8. op \notin Reads /\ op # "none"
  BY <1>1, OpsAre
<1>9. pos' = pos
  BY <1>1, <1>8 DEF pos, Held, Taken
<1>10. TypeOK'
  BY <1>1, <1>2, <1>3, <1>4, <1>6, <1>7 DEF IInv, TypeOK
<1>11. BufferIsNext'
  BY <1>1, <1>8 DEF IInv, BufferIsNext
<1>12. CallInv'
  BY <1>1, <1>2, <1>3, <1>4, <1>6, <1>7, <1>9 DEF IInv, CallInv
<1> QED
  BY <1>9, <1>10, <1>11, <1>12 DEF IInv

-----------------------------------------------------------------------------
\* A sequence of positions that follow k is what the promise returns from k.
LEMMA RunIsBytes ==
  ASSUME NEW s \in Seq(Nat), NEW k \in Nat, \A i \in 1 .. Len(s) : s[i] = k + i
  PROVE  s = Promise!Bytes(k, Len(s))
<1>1. Len(s) \in Nat /\ s = [i \in 1 .. Len(s) |-> s[i]]
  BY LenProperties
<1> QED
  BY <1>1 DEF Promise!Bytes

\* A read returns at the end of the stream: what it has is all there is.
LEMMA EndImplements ==
  ASSUME IInv, op \in Reads, More, cnt <= 0, fetched = Len(text),
         Return(Len(usr), usr), UNCHANGED text, pos' = fetched
  PROVE  Promise!Read(n) \/ Promise!ReadLine(n)
<1>1. /\ Len(usr) \in Nat /\ usr \in Seq(Nat) /\ Len(text) \in Nat /\ n \in Nat
  BY LenProperties DEF IInv, TypeOK
<1>2. Held = 0 /\ Taken = Len(usr)
  BY DEF Held, Taken, IInv, TypeOK
<1>3. pos = Len(text) - Len(usr) /\ pos \in Nat
      /\ \A i \in 1 .. Len(usr) : usr[i] = pos + i
  BY <1>1, <1>2 DEF pos, IInv, CallInv, BufferIsNext
<1> HIDE DEF pos
<1>4. Promise!Left = Len(usr) /\ pos' = pos + Len(usr)
  BY <1>1, <1>3 DEF Promise!Left
<1>5. Promise!Return(op, n, Len(usr), Promise!Bytes(pos, Len(usr)))
  <2>1. usr = Promise!Bytes(pos, Len(usr))
    BY <1>1, <1>3, RunIsBytes
  <2> QED
    BY <2>1 DEF Promise!Return, Return
<1>6. CASE op = "rio_readlineb"
  <2>1. Len(usr) <= n - 1 /\ \A i \in 1 .. Len(usr) : ~ text[usr[i]]
    BY <1>1, <1>6, LineGoesOn
  <2>2. \A i \in 1 .. Len(usr) - 1 : ~ text[pos + i]
    <3> SUFFICES ASSUME NEW i \in 1 .. Len(usr) - 1 PROVE ~ text[pos + i]
      OBVIOUS
    <3>1. i \in 1 .. Len(usr)
      BY <1>1
    <3>2. usr[i] = pos + i
      BY <1>3, <3>1
    <3> QED
      BY <2>1, <3>1, <3>2, Zenon
  <2>3. Promise!ReadLine(n)
    BY <1>1, <1>4, <1>5, <1>6, <2>1, <2>2 DEF Promise!ReadLine
  <2> QED
    BY <2>3
<1>7. CASE op # "rio_readlineb"
  <2>1. Len(usr) \in 0 .. n
    BY <1>1, <1>7 DEF More
  <2>2. Promise!Read(n)
    <3>1. op \in {"rio_readn", "rio_readnb"}
      BY <1>7 DEF Reads, Buffered
    <3> QED
      BY <1>1, <1>4, <1>5, <2>1, <3>1 DEF Promise!Read
  <2> QED
    BY <2>2
<1> QED
  BY <1>6, <1>7

\* A call whose loop has ended: it has all it was asked for, or a whole line.
LEMMA DoneImplements ==
  ASSUME IInv, Done
  PROVE  Promise!Read(n) \/ Promise!ReadLine(n) \/ Promise!Write(n)
<1>1. /\ UNCHANGED <<text, fetched, buf, bufptr, cnt, n>>
      /\ op # "none" /\ ~ More /\ Return(Len(usr), usr)
  BY DEF Done, rp
<1>2. /\ Len(usr) \in Nat /\ usr \in Seq(Nat) /\ Len(text) \in Nat /\ n \in Nat \ {0}
      /\ Len(usr) <= n /\ (op = "rio_readlineb" => Len(usr) < n) /\ op \in Ops
      /\ fetched \in 0 .. Len(text) /\ Held \in Nat
      /\ (Len(usr) = 0 <=> usr = <<>>)
  BY <1>1, LenProperties, EmptySeq DEF IInv, TypeOK, Held
<1>3. pos' = fetched - Held
  BY <1>1, ReturnInv
<1>4. CASE op = "rio_writen"
  <2>1. Taken = 0
    BY <1>4, OpsAre DEF Taken
  <2>2. pos' = pos
    BY <1>2, <1>3, <2>1 DEF pos
  <2>3. Len(usr) = n
    BY <1>1, <1>2, <1>4 DEF More
  <2>4. usr = Promise!Bytes(0, n)
    <3>1. \A i \in 1 .. Len(usr) : usr[i] = i
      BY <1>4 DEF IInv, CallInv
    <3>2. usr = [i \in 1 .. Len(usr) |-> usr[i]]
      BY <1>2, LenProperties
    <3>3. usr = [i \in 1 .. n |-> 0 + i]
      BY <1>2, <2>3, <3>1, <3>2
    <3> QED
      BY <3>3 DEF Promise!Bytes
  <2>5. Promise!Write(n)
    BY <1>1, <1>4, <2>2, <2>3, <2>4 DEF Promise!Write, Promise!Return, Return
  <2> QED
    BY <2>5
<1>5. CASE op \in Reads
  <2>1. Taken = Len(usr)
    BY <1>5 DEF Taken
  <2>2. pos = fetched - Held - Len(usr) /\ pos' = pos + Len(usr) /\ pos \in Nat
        /\ pos + Len(usr) <= Len(text)
        /\ \A i \in 1 .. Len(usr) : usr[i] = pos + i
    BY <1>2, <1>3, <1>5, <2>1 DEF pos, IInv, CallInv, BufferIsNext
  <2> HIDE DEF pos
  <2>3. Len(usr) <= Promise!Left /\ Promise!Left \in Nat
    BY <1>2, <2>2 DEF Promise!Left
  <2>4. Promise!Return(op, n, Len(usr), Promise!Bytes(pos, Len(usr)))
    <3>1. usr = Promise!Bytes(pos, Len(usr))
      BY <1>2, <2>2, RunIsBytes
    <3> QED
      BY <1>1, <3>1 DEF Promise!Return, Return
  <2>5. CASE op = "rio_readlineb"
    <3>1. Len(usr) = n - 1 \/ (Len(usr) > 0 /\ text[pos + Len(usr)])
      <4>1. Len(usr) + 1 >= n \/ (usr # <<>> /\ text[usr[Len(usr)]])
        BY <1>1, <1>2, <2>5 DEF More
      <4>2. CASE Len(usr) + 1 >= n
        BY <1>2, <2>5, <4>2
      <4>3. CASE usr # <<>> /\ text[usr[Len(usr)]]
        <5>1. Len(usr) > 0 /\ usr[Len(usr)] = pos + Len(usr)
          BY <1>2, <2>2, <4>3
        <5> QED
          BY <4>3, <5>1
      <4> QED
        BY <4>1, <4>2, <4>3
    <3>2. \A i \in 1 .. Len(usr) - 1 : ~ text[pos + i]
      <4> SUFFICES ASSUME NEW i \in 1 .. Len(usr) - 1 PROVE ~ text[pos + i]
        OBVIOUS
      <4>1. i \in 1 .. Len(usr)
        BY <1>2
      <4>2. usr[i] = pos + i
        BY <2>2, <4>1
      <4>3. ~ text[usr[i]]
        BY <2>5 DEF IInv, CallInv
      <4> QED
        BY <4>2, <4>3, Zenon
    <3>3. Promise!ReadLine(n)
      <4>1. Len(usr) \in 0 .. Promise!Left /\ Len(usr) <= n - 1
        BY <1>2, <2>3, <2>5
      <4>2. pos' = pos + Len(usr) /\ UNCHANGED text
        BY <1>1, <2>2
      <4> QED
        BY <2>4, <2>5, <3>1, <3>2, <4>1, <4>2, Zenon DEF Promise!ReadLine
    <3> QED
      BY <3>3
  <2>6. CASE op # "rio_readlineb"
    <3>1. Len(usr) = n
      BY <1>1, <1>2, <2>6 DEF More
    <3>2. op \in {"rio_readn", "rio_readnb"}
      BY <1>5, <2>6 DEF Reads, Buffered
    <3>3. Promise!Read(n)
      BY <1>1, <1>2, <2>2, <2>3, <2>4, <3>1, <3>2 DEF Promise!Read
    <3> QED
      BY <3>3
  <2> QED
    BY <2>5, <2>6
<1> QED
  BY <1>2, <1>4, <1>5, OpsAre

\* A call that fails forfeits what it read, or has written a part.
LEMMA FailImplements ==
  ASSUME IInv, RefillFails \/ ReadDirectFails \/ WriteFails
  PROVE  IInv' /\ (Promise!ReadFails(n) \/ Promise!WriteFails(n))
<1>1. /\ UNCHANGED <<text, fetched, buf, bufptr, n>> /\ op # "none" /\ More
      /\ cnt' = cnt \/ (cnt <= 0 /\ cnt' \in {-1, 0})
  BY DEF RefillFails, Refilling, Buffered, ReadDirectFails, WriteFails, rp
<1>2. PICK bytes : Return(-1, bytes) /\ (WriteFails => bytes = usr)
                   /\ (~ WriteFails => bytes = <<>>)
  BY DEF RefillFails, ReadDirectFails, WriteFails, Refilling, Buffered
<1>3. IInv' /\ pos' = fetched - Held /\ pos' \in pos .. Len(text)
  BY <1>1, <1>2, ReturnInv
<1>4. CASE WriteFails
  <2>1. op = "rio_writen" /\ bytes = usr /\ Taken = 0
    BY <1>2, <1>4, OpsAre DEF WriteFails, Taken
  <2>2. Len(usr) \in Nat /\ usr \in Seq(Nat) /\ fetched - Held \in Int
        /\ n \in Nat /\ Len(usr) < n
    BY <1>1, <2>1, LenProperties DEF IInv, TypeOK, Held, More
  <2>3. pos' = pos
    BY <1>3, <2>1, <2>2 DEF pos
  <2>4. usr = Promise!Bytes(0, Len(usr))
    <3>1. \A i \in 1 .. Len(usr) : usr[i] = i
      BY <2>1 DEF IInv, CallInv
    <3>2. usr = [i \in 1 .. Len(usr) |-> usr[i]]
      BY <2>2, LenProperties
    <3>3. usr = [i \in 1 .. Len(usr) |-> 0 + i]
      BY <2>2, <3>1, <3>2
    <3> QED
      BY <3>3 DEF Promise!Bytes
  <2>5. Promise!Return("rio_writen", n, -1, Promise!Bytes(0, Len(usr)))
    BY <1>2, <2>1, <2>4 DEF Return, Promise!Return
  <2>6. Len(usr) \in 0 .. n - 1
    BY <2>2
  <2>7. Promise!WriteFails(n)
    BY <1>1, <2>3, <2>5, <2>6 DEF Promise!WriteFails
  <2> QED
    BY <1>3, <2>7
<1>5. CASE ~ WriteFails
  <2>1. /\ Promise!Return(op, n, -1, <<>>)
        /\ op \in {"rio_readn", "rio_readnb", "rio_readlineb"}
    BY <1>2, <1>5 DEF Return, Promise!Return, RefillFails, Refilling, Buffered, ReadDirectFails
  <2>2. Promise!ReadFails(n)
    BY <1>1, <1>3, <2>1 DEF Promise!ReadFails
  <2> QED
    BY <1>3, <2>2
<1> QED
  BY <1>4, <1>5

-----------------------------------------------------------------------------
\* Every step keeps the invariant and is a whole call of the promise, or none.
LEMMA StepImplements ==
  ASSUME IInv, [Next]_vars
  PROVE  IInv' /\ (Promise!Next \/ UNCHANGED <<text, pos, ret>>)
<1>0. n \in Sizes
  BY DEF IInv, TypeOK
<1>1. ASSUME NEW o \in Ops, NEW k \in Sizes, Call(o, k)
      PROVE  IInv' /\ UNCHANGED <<text, pos, ret>>
  BY <1>1, CallStep DEF Call
<1>2. ASSUME NEW c \in 1 .. Least(RIO_BUFSIZE, Len(text) - fetched), Refill(c)
      PROVE  IInv' /\ UNCHANGED <<text, pos, ret>>
  BY <1>2, RefillStep DEF Refill
<1>3. ASSUME NEW c \in 1 .. Least(Asks, Len(text) - fetched), ReadDirect(c)
      PROVE  IInv' /\ UNCHANGED <<text, pos, ret>>
  BY <1>3, DirectStep DEF ReadDirect
<1>4. ASSUME NEW c \in 1 .. Asks, WriteSome(c)
      PROVE  IInv' /\ UNCHANGED <<text, pos, ret>>
  BY <1>4, WriteStep DEF WriteSome
<1>5. CASE RefillEnds \/ ReadDirectEnds
  <2>1. /\ UNCHANGED <<text, fetched, buf, bufptr, n>> /\ op \in Reads /\ op # "none"
        /\ More /\ cnt <= 0 /\ fetched = Len(text) /\ Return(Len(usr), usr)
        /\ cnt' = cnt \/ (cnt <= 0 /\ cnt' \in {-1, 0})
    BY <1>5, OpsAre DEF RefillEnds, ReadDirectEnds, Refilling, rp, IInv, CallInv
  <2>2. IInv' /\ pos' = fetched - Held
    BY <2>1, ReturnInv
  <2>3. pos' = fetched
    BY <2>1, <2>2 DEF Held, IInv, TypeOK
  <2>4. Promise!Read(n) \/ Promise!ReadLine(n)
    BY <2>1, <2>3, EndImplements
  <2> QED
    BY <1>0, <2>2, <2>4 DEF Promise!Next
<1>6. CASE Fails
  <2>1. IInv' /\ (Promise!ReadFails(n) \/ Promise!WriteFails(n))
    BY <1>6, FailImplements DEF Fails
  <2> QED
    BY <1>0, <2>1 DEF Promise!Next
<1>7. CASE Take
  BY <1>7, TakeStep DEF Take
<1>8. CASE Done
  <2>1. /\ UNCHANGED <<text, fetched, buf, bufptr, cnt, n>>
        /\ op # "none" /\ Return(Len(usr), usr)
    BY <1>8 DEF Done, rp
  <2>2. IInv'
    BY <2>1, ReturnInv
  <2>3. Promise!Read(n) \/ Promise!ReadLine(n) \/ Promise!Write(n)
    BY <1>8, DoneImplements
  <2> QED
    BY <1>0, <2>2, <2>3 DEF Promise!Next
<1>9. CASE RefillInterrupted
  BY <1>9, InterruptStep DEF RefillInterrupted
<1>10. CASE UNCHANGED vars
  <2>1. IInv'
    BY <1>10 DEF vars, IInv, TypeOK, BufferIsNext, CallInv, More, pos, Held, Taken
  <2> QED
    BY <1>10, <2>1 DEF vars, pos, Held, Taken
<1> QED
  BY <1>1, <1>2, <1>3, <1>4, <1>5, <1>6, <1>7, <1>8, <1>9, <1>10
     DEF Next, Progress, Code, Interrupted

\* Where every byte is between the kernel and the caller, for every buffer size
\* and every sequence of calls.
THEOREM BytesAreKept == Spec => []IInv
<1>1. IInv /\ [Next]_vars => IInv'
  BY StepImplements
<1> QED
  BY <1>1, InitInv, PTL DEF Spec

\* The variables of rio_t stay in their ranges, and a line leaves room for its
\* terminator.
THEOREM RioTypeCorrect == Spec => []TypeOK
<1>1. IInv => TypeOK
  BY DEF IInv
<1> QED
  BY <1>1, BytesAreKept, PTL

\* No byte is lost, repeated or out of order between two refills.
THEOREM BufferStaysNext == Spec => []BufferIsNext
<1>1. IInv => BufferIsNext
  BY DEF IInv
<1> QED
  BY <1>1, BytesAreKept, PTL

\* The calls of the Rio package are the calls of ByteStream, whatever short
\* counts, interrupts and failures the kernel answers with.
THEOREM RioImplements == Spec => ImplementsByteStream
<1>1. Init => Promise!Init
  <2> SUFFICES ASSUME Init PROVE Promise!Init
    OBVIOUS
  <2>1. text \in Seq(BOOLEAN)
    BY TextIsSeq DEF Init
  <2>2. pos = 0
    <3>1. Held = 0 /\ Taken = 0 /\ fetched = 0
      BY OpsAre DEF Init, Held, Taken
    <3> QED
      BY <3>1 DEF pos
  <2> QED
    BY <2>1, <2>2 DEF Init, Promise!Init
<1>2. IInv /\ [Next]_vars => [Promise!Next]_<<text, pos, ret>>
  BY StepImplements
<1> QED
  BY <1>1, <1>2, BytesAreKept, PTL DEF Spec, ImplementsByteStream, Promise!Spec, Promise!bvars
=============================================================================
