------------------------------ MODULE ByteStream ------------------------------
(***************************************************************************)
(* What csapp.h promises of the Rio package: a call happens at one         *)
(* instant, whatever pieces the kernel moves the bytes in.  rio_readn and  *)
(* rio_readnb return the next n bytes, rio_readlineb the next line; both   *)
(* return less only at the end of the stream.  rio_writen writes n bytes.  *)
(* A call that fails forfeits what it had read, or has written a part.     *)
(***************************************************************************)
EXTENDS Integers, Sequences

CONSTANTS
  Sizes,      \* the lengths callers pass
  NULL

VARIABLES
  text,       \* what the peer sends before it closes: which bytes end a line
  pos,        \* how many of them were read
  ret         \* the last call and what it returned: [call, n, code, bytes], a
              \* byte being its position

bvars == <<text, pos, ret>>

Bytes(from, k) == [i \in 1 .. k |-> from + i]
Left == Len(text) - pos

Init ==
  /\ text \in Seq(BOOLEAN)
  /\ pos = 0
  /\ ret = NULL

Return(call, n, code, bytes) ==
  ret' = [call |-> call, n |-> n, code |-> code, bytes |-> bytes]

\* All that is asked for, or all there is.
Read(n) ==
  \E call \in {"rio_readn", "rio_readnb"}, k \in 0 .. n :
    /\ (k = n /\ n <= Left) \/ (k = Left /\ Left <= n)
    /\ Return(call, n, k, Bytes(pos, k))
    /\ pos' = pos + k
    /\ UNCHANGED text

\* Up to the end of the line, of the buffer (less the terminator) or of the stream.
ReadLine(maxlen) ==
  \E k \in 0 .. Left :
    /\ k <= maxlen - 1
    /\ \A i \in 1 .. k - 1 : ~ text[pos + i]
    /\ k = maxlen - 1 \/ k = Left \/ (k > 0 /\ text[pos + k])
    /\ Return("rio_readlineb", maxlen, k, Bytes(pos, k))
    /\ pos' = pos + k
    /\ UNCHANGED text

ReadFails(n) ==
  /\ pos' \in pos .. Len(text)
  /\ \E call \in {"rio_readn", "rio_readnb", "rio_readlineb"} : Return(call, n, -1, <<>>)
  /\ UNCHANGED text

Write(n) ==
  /\ Return("rio_writen", n, n, Bytes(0, n))
  /\ UNCHANGED <<text, pos>>

WriteFails(n) ==
  /\ \E k \in 0 .. n - 1 : Return("rio_writen", n, -1, Bytes(0, k))
  /\ UNCHANGED <<text, pos>>

Next ==
  \E n \in Sizes : Read(n) \/ ReadLine(n) \/ ReadFails(n) \/ Write(n) \/ WriteFails(n)

Spec == Init /\ [][Next]_bvars
=============================================================================
