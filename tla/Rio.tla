--------------------------------- MODULE Rio ----------------------------------
(***************************************************************************)
(* The Rio package of proxylab-handout/csapp.c on one connection, by the   *)
(* system call: the kernel moves as many bytes as it likes, is interrupted *)
(* or fails, and the loops of the package make whole calls of the pieces.  *)
(*                                                                         *)
(* A byte is its position in what the peer sends, or, for rio_writen, in   *)
(* the caller's buffer.  A peer that stops sending has closed its end.     *)
(***************************************************************************)
EXTENDS Integers, Sequences

CONSTANTS
  RIO_BUFSIZE,  \* bytes in rio_buf
  Sizes,        \* the lengths callers pass
  MaxText,      \* bound: bytes the peer sends
  NULL

ASSUME BufferAssumption == RIO_BUFSIZE \in Nat \ {0}
ASSUME RioSizesAssumption == Sizes \subseteq Nat \ {0}
ASSUME TextAssumption   == MaxText \in Nat

VARIABLES
  text,         \* what the peer sends before it closes: which bytes end a line
  fetched,      \* bytes the kernel has handed over
  buf,          \* rio_buf
  bufptr, cnt,  \* rio_bufptr, by its place in rio_buf, and rio_cnt
  op, n,        \* the call under way, "none" between calls, and its length
  usr,          \* what the call has read, or written, so far
  ret           \* the last call and what it returned: [call, n, code, bytes]

rp   == <<buf, bufptr, cnt>>
vars == <<text, fetched, buf, bufptr, cnt, op, n, usr, ret>>

Buffered == {"rio_readnb", "rio_readlineb"}
Reads    == Buffered \cup {"rio_readn"}
Ops      == Reads \cup {"rio_writen"}

Least(a, b) == IF a <= b THEN a ELSE b
Following(k, count) == [i \in 1 .. count |-> k + i]

\* Variant: the line may fill the buffer to its end.
MoreNoTerminator ==
  IF op = "rio_readlineb"
  THEN Len(usr) < n /\ (usr # <<>> => ~ text[usr[Len(usr)]])
  ELSE Len(usr) < n

\* Whether the loop of the call goes round again, and what it then asks for.
More ==
  IF op = "rio_readlineb"
  THEN Len(usr) + 1 < n /\ (usr # <<>> => ~ text[usr[Len(usr)]])
  ELSE Len(usr) < n
Asks == IF op = "rio_readlineb" THEN 1 ELSE n - Len(usr)

Return(code, bytes) ==
  /\ ret' = [call |-> op, n |-> n, code |-> code, bytes |-> bytes]
  /\ op' = "none"
  /\ usr' = <<>>

\* rio_readinitb on a connection just opened.
Init ==
  /\ text \in UNION {[1 .. k -> BOOLEAN] : k \in 0 .. MaxText}
  /\ fetched = 0
  /\ buf = [i \in 1 .. RIO_BUFSIZE |-> 0] /\ bufptr = 1 /\ cnt = 0
  /\ op = "none" /\ n \in Sizes
  /\ usr = <<>>
  /\ ret = NULL

\* A call.  rio_readn, which knows nothing of the buffer, is for callers that
\* have nothing in it.
Call(o, k) ==
  /\ op = "none"
  /\ o = "rio_readn" => cnt <= 0
  /\ op' = o /\ n' = k
  /\ UNCHANGED <<text, fetched, rp, usr, ret>>

-----------------------------------------------------------------------------
\* rio_read: the loop that refills the buffer while it is empty.
Refilling == op \in Buffered /\ More /\ cnt <= 0

\* What read leaves in rio_buf: c bytes at its start.
Fill(c) == [i \in 1 .. RIO_BUFSIZE |-> IF i <= c THEN fetched + i ELSE buf[i]]

\* Variant: rio_bufptr is not reset.
RefillInPlace(c) ==
  /\ Refilling
  /\ buf' = Fill(c)
  /\ cnt' = c
  /\ fetched' = fetched + c
  /\ UNCHANGED <<text, bufptr, op, n, usr, ret>>

Refill(c) ==
  /\ Refilling
  /\ buf' = Fill(c)
  /\ bufptr' = 1
  /\ cnt' = c
  /\ fetched' = fetched + c
  /\ UNCHANGED <<text, op, n, usr, ret>>

RefillInterrupted ==
  /\ Refilling
  /\ cnt' = -1
  /\ UNCHANGED <<text, fetched, buf, bufptr, op, n, usr, ret>>

RefillFails ==
  /\ Refilling
  /\ cnt' = -1
  /\ Return(-1, <<>>)
  /\ UNCHANGED <<text, fetched, buf, bufptr, n>>

\* Variant: the end of the stream is taken for an empty buffer.
RefillEndUnseen ==
  /\ Refilling
  /\ fetched = Len(text)
  /\ cnt' = 0
  /\ UNCHANGED <<text, fetched, buf, bufptr, op, n, usr, ret>>

\* End of file: what was read so far, nothing perhaps.
RefillEnds ==
  /\ Refilling
  /\ fetched = Len(text)
  /\ cnt' = 0
  /\ Return(Len(usr), usr)
  /\ UNCHANGED <<text, fetched, buf, bufptr, n>>

\* rio_read's copy of min(n, rio_cnt) bytes, and the caller's count of them.
Take ==
  /\ op \in Buffered /\ More /\ cnt > 0
  /\ LET c == Least(Asks, cnt)
     IN  /\ usr' = usr \o SubSeq(buf, bufptr, bufptr + c - 1)
         /\ bufptr' = bufptr + c
         /\ cnt' = cnt - c
  /\ UNCHANGED <<text, fetched, buf, op, n, ret>>

-----------------------------------------------------------------------------
\* rio_readn reads into the caller's buffer.
ReadDirect(c) ==
  /\ op = "rio_readn" /\ More
  /\ usr' = usr \o Following(fetched, c)
  /\ fetched' = fetched + c
  /\ UNCHANGED <<text, rp, op, n, ret>>

ReadDirectEnds ==
  /\ op = "rio_readn" /\ More
  /\ fetched = Len(text)
  /\ Return(Len(usr), usr)
  /\ UNCHANGED <<text, fetched, rp, n>>

ReadDirectFails ==
  /\ op = "rio_readn" /\ More
  /\ Return(-1, <<>>)
  /\ UNCHANGED <<text, fetched, rp, n>>

\* rio_writen: bufp is as far into the caller's buffer as bytes were taken.
WriteSome(c) ==
  /\ op = "rio_writen" /\ More
  /\ usr' = usr \o Following(Len(usr), c)
  /\ UNCHANGED <<text, fetched, rp, op, n, ret>>

WriteFails ==
  /\ op = "rio_writen" /\ More
  /\ Return(-1, usr)
  /\ UNCHANGED <<text, fetched, rp, n>>

\* EINTR in rio_readn or rio_writen changes nothing: the loop calls again.
Interrupted ==
  /\ op \in {"rio_readn", "rio_writen"} /\ More
  /\ UNCHANGED vars

\* Variant: rio_readn and rio_writen are content with what one call moved.
DoneOnce ==
  /\ op # "none"
  /\ ~ More \/ (op \notin Buffered /\ usr # <<>>)
  /\ Return(Len(usr), usr)
  /\ UNCHANGED <<text, fetched, rp, n>>

\* The loop of the call ends.
Done ==
  /\ op # "none"
  /\ ~ More
  /\ Return(Len(usr), usr)
  /\ UNCHANGED <<text, fetched, rp, n>>

-----------------------------------------------------------------------------
\* The kernel moves bytes, at least one and at most what it was asked for.
Progress ==
  \/ \E c \in 1 .. Least(RIO_BUFSIZE, Len(text) - fetched) : Refill(c)
  \/ \E c \in 1 .. Least(Asks, Len(text) - fetched) : ReadDirect(c)
  \/ \E c \in 1 .. Asks : WriteSome(c)
  \/ RefillEnds \/ ReadDirectEnds

Fails == RefillFails \/ ReadDirectFails \/ WriteFails

Code == Take \/ Done

Next ==
  \/ \E o \in Ops, k \in Sizes : Call(o, k)
  \/ Progress \/ Fails \/ Code
  \/ RefillInterrupted \/ Interrupted

Spec == Init /\ [][Next]_vars

\* The code runs on, and a system call that is made again and again is not
\* interrupted every time.
FairSpec == Spec /\ WF_vars(Code) /\ WF_vars(Progress)

-----------------------------------------------------------------------------
TypeOK ==
  /\ text \in Seq(BOOLEAN) /\ Len(text) <= MaxText
  /\ fetched \in 0 .. Len(text)
  /\ buf \in [1 .. RIO_BUFSIZE -> 0 .. Len(text)]
  /\ bufptr \in 1 .. RIO_BUFSIZE + 1
  /\ cnt \in -1 .. RIO_BUFSIZE
  /\ op \in Ops \cup {"none"} /\ n \in Sizes
  /\ usr \in Seq(Nat)
  /\ Len(usr) <= n /\ (op = "rio_readlineb" => Len(usr) < n)

\* Where the next byte to return stands: a call that has not returned has read
\* nothing yet.
Held  == IF cnt > 0 THEN cnt ELSE 0
Taken == IF op \in Reads THEN Len(usr) ELSE 0
pos   == fetched - Held - Taken

\* The rio_cnt bytes from rio_bufptr on are those the kernel handed over last,
\* and together with what the call has taken they are the next of the stream.
BufferIsNext ==
  /\ cnt > 0 => /\ bufptr + cnt - 1 <= RIO_BUFSIZE
                /\ \A i \in 0 .. cnt - 1 : buf[bufptr + i] = fetched - cnt + 1 + i
  /\ op \in Reads => \A i \in 1 .. Len(usr) : usr[i] = pos + i

Promise == INSTANCE ByteStream
ImplementsByteStream == Promise!Spec

\* Short counts and interrupted calls end: every call returns.
CallsReturn == op # "none" ~> op = "none"
=============================================================================
