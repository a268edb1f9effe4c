------------------------------- MODULE Request --------------------------------
(***************************************************************************)
(* How the proxy reads a request: process_request, parse_uri,              *)
(* read_requesthdrs and clienterror of proxylab-handout/proxy.c.           *)
(*                                                                         *)
(* The client sends lines and then closes, breaks the connection, or waits *)
(* for the answer.  rio_readlineb returns one line at a time (ByteStream); *)
(* lines fit its buffer.  A line is a record of what the code looks for in *)
(* it.  A buffer that is read before it was written holds anything.        *)
(***************************************************************************)
EXTENDS Integers, Sequences, FiniteSets, SequencesExt

CONSTANTS
  RequestLines, \* [id, get, urn]: GET or not, the path parse_uri finds
  Headers,      \* [id, drop, named, host, port], see below
  MaxHeaders,   \* bound: header lines in a request
  Chars,        \* the characters of host names and port numbers
  MaxRequest,   \* lines that fit in request[MAXBUF]
  NULL

\* drop:  contains User-Agent:, Connection:, Accept: ... and is left out
\* named: contains "Host:", the Host field or another
\* host, port: what the two patterns find, NULL when they do not match

\* The empty line, and the lines the proxy adds.
End   == [id |-> "end", drop |-> FALSE, named |-> FALSE, host |-> NULL, port |-> NULL]
Added == <<"User-Agent", "Accept", "Accept-Encoding", "Connection",
           "Proxy-Connection", "end">>

\* A request line is never NULL, and a header line is never the empty one.
ASSUME LinesAssumption  == NULL \notin RequestLines /\ End \notin Headers
ASSUME CharsAssumption  == {"8", "0"} \subseteq Chars
ASSUME HeaderAssumption ==
  \A l \in Headers : /\ l.drop \in BOOLEAN /\ l.named \in BOOLEAN
                     /\ l.host = NULL \/ l.host \in Seq(Chars)
                     /\ l.port = NULL \/ l.port \in Seq(Chars)
ASSUME BoundAssumption  == MaxHeaders \in Nat

VARIABLES
  first, lines, \* the request line, NULL if none comes, and the lines after it
  ending,       \* what comes then: "close", "reset" or "wait"
  next,         \* the header line Rio_readlineb returns next
  pc,           \* where the thread is
  line,         \* buf of process_request
  buf,          \* buf of read_requesthdrs
  request,      \* the request to the server, by the lines in it
  host, port    \* where it is to go: strings

sent == <<first, lines, ending>>
vars == <<first, lines, ending, next, pc, line, buf, request, host, port>>

\* The empty line ends the headers; a client that stops short sends a part, or
\* not even the request line.
Complete == first # NULL /\ lines # <<>> /\ Last(lines) = End

Init ==
  /\ ending \in {"close", "reset", "wait"}
  /\ \/ /\ first \in RequestLines
        /\ \E s \in SeqOf(Headers, MaxHeaders) : lines \in {s, Append(s, End)}
     \/ first = NULL /\ lines = <<>> /\ ending # "wait"
  /\ next = 1
  /\ pc = "request line"
  /\ line = NULL /\ buf = NULL
  /\ request = <<>>
  /\ host = <<>> /\ port = <<>>

\* What Rio_readlineb returns when the lines are used up.  A reset is reported
\* to the first read only.
AtEnd     == next > Len(lines)
ReadsEOF  == AtEnd /\ (ending = "close" \/ (ending = "reset" /\ first = NULL))
ReadsFail == AtEnd /\ ending = "reset" /\ first # NULL

\* strncpy of as many characters as the source has, over what is there.
Overlay(new, old) ==
  [i \in 1 .. Len(new) |-> new[i]] \o SubSeq(old, Len(new) + 1, Len(old))

-----------------------------------------------------------------------------
ReadRequestLine ==
  /\ pc = "request line" /\ first # NULL
  /\ line' = first
  /\ pc' = "parse"
  /\ UNCHANGED <<sent, next, buf, request, host, port>>

\* At end of file the thread ends; a read that fails returns -1, which is not 0,
\* and buf is used as it is.
NoRequestLine ==
  /\ pc = "request line" /\ first = NULL
  /\ IF ending = "close"
     THEN pc' = "ended" /\ UNCHANGED line
     ELSE pc' = "parse" /\ line' \in RequestLines
  /\ UNCHANGED <<sent, next, buf, request, host, port>>

\* clienterror, and the thread ends.
Refuse ==
  /\ pc = "parse" /\ ~ line.get
  /\ pc' = "refused"
  /\ UNCHANGED <<sent, next, line, buf, request, host, port>>

\* parse_uri and the new request line; memset of host and port.
Parse ==
  /\ pc = "parse" /\ line.get
  /\ request' = <<line.urn>>
  /\ host' = <<>> /\ port' = <<>>
  /\ pc' = "first header"
  /\ UNCHANGED <<sent, next, line, buf>>

\* Rio_readlineb for the first header: at end of file buf was never written.
FirstHeader ==
  /\ pc = "first header"
  /\ \/ ~ AtEnd /\ buf' = lines[next] /\ next' = next + 1
     \/ ReadsEOF /\ UNCHANGED next /\ \E l \in Headers \cup {End} : buf' = l
  /\ pc' = "loop"
  /\ UNCHANGED <<sent, line, request, host, port>>

\* Variant: nothing is left out.
HeaderUnfiltered ==
  /\ pc = "loop" /\ buf # End
  /\ request' = Append(request, buf.id)
  /\ IF buf.named
     THEN /\ host' = IF buf.host = NULL THEN host ELSE Overlay(buf.host, host)
          /\ port' = Overlay(IF buf.port = NULL THEN <<"8", "0">> ELSE buf.port, port)
     ELSE UNCHANGED <<host, port>>
  /\ pc' = IF Len(request') > MaxRequest THEN "overrun" ELSE "next header"
  /\ UNCHANGED <<sent, next, line, buf>>

\* Variant: a Host field without a port leaves port empty.
HeaderNoDefault ==
  /\ pc = "loop" /\ buf # End
  /\ request' = IF buf.drop THEN request ELSE Append(request, buf.id)
  /\ IF buf.named
     THEN /\ host' = IF buf.host = NULL THEN host ELSE Overlay(buf.host, host)
          /\ port' = IF buf.port = NULL THEN port ELSE Overlay(buf.port, port)
     ELSE UNCHANGED <<host, port>>
  /\ pc' = IF Len(request') > MaxRequest THEN "overrun" ELSE "next header"
  /\ UNCHANGED <<sent, next, line, buf>>

\* One round of the loop.  A request that outgrows its buffer is undefined from
\* there on.
Header ==
  /\ pc = "loop" /\ buf # End
  /\ request' = IF buf.drop THEN request ELSE Append(request, buf.id)
  /\ IF buf.named
     THEN /\ host' = IF buf.host = NULL THEN host ELSE Overlay(buf.host, host)
          /\ port' = Overlay(IF buf.port = NULL THEN <<"8", "0">> ELSE buf.port, port)
     ELSE UNCHANGED <<host, port>>
  /\ pc' = IF Len(request') > MaxRequest THEN "overrun" ELSE "next header"
  /\ UNCHANGED <<sent, next, line, buf>>

\* Variant: a read that fails is taken for the end of file.
NextHeaderOrSame ==
  /\ pc = "next header"
  /\ \/ ~ AtEnd /\ buf' = lines[next] /\ next' = next + 1
     \/ (ReadsEOF \/ ReadsFail) /\ UNCHANGED <<buf, next>>
  /\ pc' = "loop"
  /\ UNCHANGED <<sent, line, request, host, port>>

\* Rio_readlineb for the next: at end of file it leaves buf as it was.
NextHeader ==
  /\ pc = "next header"
  /\ \/ ~ AtEnd /\ buf' = lines[next] /\ next' = next + 1
     \/ ReadsEOF /\ UNCHANGED <<buf, next>>
  /\ pc' = "loop"
  /\ UNCHANGED <<sent, line, request, host, port>>

\* read_requesthdrs returns -1.
HeaderFails ==
  /\ pc \in {"first header", "next header"} /\ ReadsFail
  /\ pc' = "ended"
  /\ UNCHANGED <<sent, next, line, buf, request, host, port>>

\* The empty line: the suggested headers, and on to get_content.
Finish ==
  /\ pc = "loop" /\ buf = End
  /\ request' = request \o Added
  /\ pc' = IF Len(request') > MaxRequest THEN "overrun" ELSE "content"
  /\ UNCHANGED <<sent, next, line, buf, host, port>>

Next ==
  \/ ReadRequestLine \/ NoRequestLine \/ Refuse \/ Parse
  \/ FirstHeader \/ Header \/ NextHeader \/ HeaderFails \/ Finish

-----------------------------------------------------------------------------
Ended == {"ended", "refused", "content", "overrun"}

\* What goes to the server is the request line in its new form, the headers the
\* client sent up to the empty line in their order, each once and without those
\* that are replaced, and then the replacements; and nothing goes there of a
\* request that breaks off after a header line.
RequestIsRewritten ==
  pc = "content" /\ lines # <<>> =>
    LET kept == {i \in 1 .. Len(lines) - 1 : ~ lines[i].drop}
        Place(i) == 1 + Cardinality({j \in kept : j <= i})
    IN  /\ Complete
        /\ Len(request) = 1 + Cardinality(kept) + Len(Added)
        /\ request[1] = first.urn
        /\ \A i \in kept : request[Place(i)] = lines[i].id
        /\ \A i \in DOMAIN Added : request[1 + Cardinality(kept) + i] = Added[i]

\* The host and the port each line names: none, or port 80 if it gives none.
HostOf(l) == IF l.named /\ l.host # NULL THEN l.host ELSE <<>>
PortOf(l) == IF ~ l.named THEN <<>> ELSE IF l.port = NULL THEN <<"8", "0">> ELSE l.port

\* s is what names leave that are written one over the other: it is as long as
\* the longest, and each of its characters is that of the last that reaches it.
Overlaid(s, names) ==
  /\ \A i \in DOMAIN names : Len(names[i]) <= Len(s)
  /\ \A k \in 1 .. Len(s) : \E i \in DOMAIN names :
       /\ k <= Len(names[i]) /\ s[k] = names[i][k]
       /\ \A j \in DOMAIN names : j > i => Len(names[j]) < k

\* The destination is what the lines with "Host:" name, port 80 if one gives
\* none, whatever lines stand between them.  A later name does not clear an
\* earlier one, it is written over its start: with one such line the host and
\* the port are those it names, with more they may be a mixture.
DestinationIsNamed ==
  pc = "content" /\ Complete =>
    /\ Overlaid(host, [i \in DOMAIN lines |-> HostOf(lines[i])])
    /\ Overlaid(port, [i \in DOMAIN lines |-> PortOf(lines[i])])
=============================================================================
