-------------------------------- MODULE Proxy ---------------------------------
(***************************************************************************)
(* proxylab-handout/proxy.c: main accepts connections and starts a thread  *)
(* for each; a thread reads a request, looks the object up, and on a miss  *)
(* fetches it from its server, sends it on and caches it.                  *)
(*                                                                         *)
(* The cache is ObjectCache, which cache.c implements (Cache); reading the *)
(* request is Request in one step, opening the connection to the server is *)
(* Sockets in one step, and reads and writes are calls of ByteStream.      *)
(* Clients, servers and the kernel's descriptor table are external.        *)
(***************************************************************************)
EXTENDS Integers, Sequences, FiniteSets, SequencesExt

CONSTANTS
  Conns,      \* the connections clients open
  Origins,    \* servers, each with one object
  HostOf,     \* server -> its host; servers on one host differ in the port
  Content,    \* server -> its object, by lines [of, nr, zero]
  Silent,     \* servers that accept and never answer
  Fds,        \* descriptors the process may hold, beside the listening one
  MAX_OBJECT_SIZE, MAX_CACHE_SIZE,  \* in lines
  NULL

Hosts == {HostOf[o] : o \in Origins}
Lines == [of : Origins, nr : Nat, zero : BOOLEAN]

ASSUME ConnsAssumption   == "accept" \notin Conns
ASSUME FdsAssumption     == Fds \subseteq Nat /\ NULL \notin Fds
ASSUME OriginsAssumption ==
  /\ NULL \notin Origins /\ Silent \subseteq Origins
  /\ \A o \in Origins : Content[o] \in Seq(Lines)
ASSUME SizesAssumption   == MAX_OBJECT_SIZE \in Nat \ {0} /\ MAX_CACHE_SIZE \in Nat

VARIABLES
  main,       \* main's loop: "accept", or the connection it is busy with
  pc,         \* where each connection is
  cell,       \* *client_connfd, a cell from malloc for each connection
  fd,         \* thread's client_connfd
  sfd,        \* get_content's server_fd
  fds,        \* the descriptors that are open -> what they are connected to
  want,       \* the server each request names, NULL if no whole request comes
  wire,       \* what each client was sent
  gone,       \* clients that have closed their end
  received,   \* lines get_content has received
  buffer,     \* what it keeps of them
  size,       \* content_size
  entries, room, found,  \* the cache
  over        \* the process has ended: "no", "exited" or "crashed"

Store == INSTANCE ObjectCache
  WITH Threads <- Conns, Keys <- Hosts, Values <- Seq(Lines), MaxSize <- MAX_CACHE_SIZE

store == <<entries, room, found>>
fetch == <<received, buffer, size>>
links == <<cell, fd, sfd, fds>>
vars  == <<main, pc, cell, fd, sfd, fds, want, wire, gone, received, buffer, size,
           entries, room, found, over>>

Goto(c, there) == pc' = [pc EXCEPT ![c] = there]

Client(c) == [end |-> "client", of |-> c]
Server(c) == [end |-> "server", of |-> c]

\* What each line of an object, or of an error message, counts for.
Error == [of |-> NULL, nr |-> 0, zero |-> FALSE]
Junk  == [of |-> NULL, nr |-> 1, zero |-> FALSE]

Init ==
  /\ main = "accept"
  /\ pc = [c \in Conns |-> "connecting"]
  /\ cell = [c \in Conns |-> NULL]
  /\ fd = [c \in Conns |-> NULL] /\ sfd = [c \in Conns |-> NULL]
  /\ fds = [f \in {} |-> NULL]
  /\ want \in [Conns -> Origins \cup {NULL}]
  /\ wire = [c \in Conns |-> <<>>]
  /\ gone = {}
  /\ received = [c \in Conns |-> 0]
  /\ buffer = [c \in Conns |-> <<>>] /\ size = [c \in Conns |-> 0]
  /\ Store!Init
  /\ over = "no"

-----------------------------------------------------------------------------
\* The kernel: the lowest free descriptor, and what is written to one.
Free == Fds \ DOMAIN fds
Lowest == CHOOSE f \in Free : \A g \in Free : f <= g
Open(f, end) == fds' = [g \in DOMAIN fds \cup {f} |-> IF g = f THEN end ELSE fds[g]]
Close(f) == fds' = [g \in DOMAIN fds \ {f} |-> fds[g]]

\* Rio_writen to a client that has closed its end fails, which is reported and
\* otherwise ignored.
Send(f, data) ==
  wire' = [c \in Conns |->
    IF f \in DOMAIN fds /\ fds[f] = Client(c) /\ c \notin gone THEN wire[c] \o data
                                                               ELSE wire[c]]

\* A client closes its end.
Leave(c) ==
  /\ pc[c] # "connecting" /\ c \notin gone
  /\ gone' = gone \cup {c}
  /\ UNCHANGED <<main, pc, links, want, wire, fetch, store, over>>

-----------------------------------------------------------------------------
\* Variant: main has one variable for the descriptor, and passes its address.
AcceptInPlace(c) ==
  /\ main = "accept" /\ pc[c] = "connecting"
  /\ Free # {}
  /\ Open(Lowest, Client(c))
  /\ cell' = [d \in Conns |-> Lowest]
  /\ main' = c
  /\ Goto(c, "accepted")
  /\ UNCHANGED <<fd, sfd, want, wire, gone, fetch, store, over>>

\* Variant: main serves one connection after the other.
AcceptWhenIdle(c) ==
  /\ main = "accept" /\ pc[c] = "connecting"
  /\ \A d \in Conns : pc[d] \in {"connecting", "dropped", "done"}
  /\ Free # {}
  /\ Open(Lowest, Client(c))
  /\ cell' = [cell EXCEPT ![c] = Lowest]
  /\ main' = c
  /\ Goto(c, "accepted")
  /\ UNCHANGED <<fd, sfd, want, wire, gone, fetch, store, over>>

\* main.  The descriptor of each connection goes into a cell of its own.  Accept
\* fails while no descriptor is free, and main tries again.
Accept(c) ==
  /\ main = "accept" /\ pc[c] = "connecting"
  /\ Free # {}
  /\ Open(Lowest, Client(c))
  /\ cell' = [cell EXCEPT ![c] = Lowest]
  /\ main' = c
  /\ Goto(c, "accepted")
  /\ UNCHANGED <<fd, sfd, want, wire, gone, fetch, store, over>>

\* pthread_create.
Spawn(c) ==
  /\ main = c
  /\ main' = "accept"
  /\ Goto(c, "start")
  /\ UNCHANGED <<links, want, wire, gone, fetch, store, over>>

\* getnameinfo or pthread_create fails: main goes on, nobody closes the descriptor.
Drop(c) ==
  /\ main = c
  /\ main' = "accept"
  /\ Goto(c, "dropped")
  /\ UNCHANGED <<links, want, wire, gone, fetch, store, over>>

-----------------------------------------------------------------------------
\* thread: read the cell and free it.
Start(c) ==
  /\ pc[c] = "start"
  /\ fd' = [fd EXCEPT ![c] = cell[c]]
  /\ cell' = [cell EXCEPT ![c] = NULL]
  /\ Goto(c, "request")
  /\ UNCHANGED <<main, sfd, fds, want, wire, gone, fetch, store, over>>

\* process_request: the request is read, or it fails, or it is refused.  The
\* thread of a client that does not end its headers stays here.
Request(c) ==
  /\ pc[c] = "request" /\ want[c] # NULL
  /\ \/ Goto(c, "lookup") /\ UNCHANGED wire
     \/ Goto(c, "close") /\ UNCHANGED wire
     \/ Goto(c, "close") /\ Send(fd[c], <<Error>>)
  /\ UNCHANGED <<main, links, want, gone, fetch, store, over>>

\* The client leaves and its headers have no end.  Before the request line, or by
\* a reset, the thread ends.  At end of file read_requesthdrs takes the last line
\* again and again: one that is kept is appended until request[MAXBUF]
\* overflows, and with one that is left out the thread stays here for good.
RequestBreaksOff(c) ==
  /\ pc[c] = "request" /\ want[c] = NULL /\ c \in gone
  /\ \/ Goto(c, "close") /\ UNCHANGED over
     \/ over' = "crashed" /\ UNCHANGED pc
  /\ UNCHANGED <<main, links, want, wire, gone, fetch, store>>

Lookup(c) ==
  /\ pc[c] = "lookup"
  /\ Store!Lookup(c, HostOf[want[c]])
  /\ Goto(c, IF found'[c].value = NULL THEN "connect" ELSE "hit")
  /\ UNCHANGED <<main, links, want, wire, gone, fetch, over>>

\* strlen of what was cached: it stops at a zero byte, or goes on past the end.
Strlen(data) ==
  IF \E i \in DOMAIN data : data[i].zero
  THEN {SubSeq(data, 1, i - 1) : i \in {j \in DOMAIN data :
          data[j].zero /\ \A k \in 1 .. j - 1 : ~ data[k].zero}}
  ELSE {data, Append(data, Junk)}

Hit(c) ==
  /\ pc[c] = "hit"
  /\ \E data \in Strlen(found[c].value) : Send(fd[c], data)
  /\ Goto(c, "close")
  /\ UNCHANGED <<main, links, want, gone, fetch, store, over>>

\* Open_clientfd: connected, not connected, or, when the host has no address,
\* the end of the process.
Connect(c) ==
  /\ pc[c] = "connect"
  /\ \/ /\ Free # {}
        /\ Open(Lowest, Server(c))
        /\ sfd' = [sfd EXCEPT ![c] = Lowest]
        /\ Goto(c, "send")
        /\ UNCHANGED over
     \/ Goto(c, "close") /\ UNCHANGED <<fds, sfd, over>>
     \/ over' = "exited" /\ UNCHANGED <<pc, fds, sfd>>
  /\ UNCHANGED <<main, cell, fd, want, wire, gone, fetch, store>>

\* rio_writen of the request: after a failure server_fd stays open.
SendRequest(c) ==
  /\ pc[c] = "send"
  /\ Goto(c, "receive") \/ Goto(c, "close")
  /\ UNCHANGED <<main, links, want, wire, gone, fetch, store, over>>

\* Variant: only what is kept is sent on.
ReceiveKept(c) ==
  /\ pc[c] = "receive" /\ want[c] \notin Silent
  /\ received[c] < Len(Content[want[c]])
  /\ LET line == Content[want[c]][received[c] + 1]
     IN  /\ received' = [received EXCEPT ![c] = received[c] + 1]
         /\ size' = [size EXCEPT ![c] = size[c] + 1]
         /\ IF size[c] + 1 < MAX_OBJECT_SIZE
            THEN buffer' = [buffer EXCEPT ![c] = Append(buffer[c], line)] /\ Send(fd[c], <<line>>)
            ELSE UNCHANGED <<buffer, wire>>
  /\ UNCHANGED <<main, pc, links, want, gone, store, over>>

\* Variant: only what is kept is counted.
ReceiveUncounted(c) ==
  /\ pc[c] = "receive" /\ want[c] \notin Silent
  /\ received[c] < Len(Content[want[c]])
  /\ LET line == Content[want[c]][received[c] + 1]
     IN  /\ received' = [received EXCEPT ![c] = received[c] + 1]
         /\ IF size[c] + 1 < MAX_OBJECT_SIZE
            THEN /\ buffer' = [buffer EXCEPT ![c] = Append(buffer[c], line)]
                 /\ size' = [size EXCEPT ![c] = size[c] + 1]
            ELSE UNCHANGED <<buffer, size>>
         /\ Send(fd[c], <<line>>)
  /\ UNCHANGED <<main, pc, links, want, gone, store, over>>

\* Variant: a full buffer is not yet full.
ReceiveOneMore(c) ==
  /\ pc[c] = "receive" /\ want[c] \notin Silent
  /\ received[c] < Len(Content[want[c]])
  /\ LET line == Content[want[c]][received[c] + 1]
     IN  /\ received' = [received EXCEPT ![c] = received[c] + 1]
         /\ buffer' = IF size[c] + 1 <= MAX_OBJECT_SIZE
                      THEN [buffer EXCEPT ![c] = Append(buffer[c], line)] ELSE buffer
         /\ size' = [size EXCEPT ![c] = size[c] + 1]
         /\ Send(fd[c], <<line>>)
  /\ UNCHANGED <<main, pc, links, want, gone, store, over>>

\* A line arrives: kept while it fits, counted, and sent on.
Receive(c) ==
  /\ pc[c] = "receive" /\ want[c] \notin Silent
  /\ received[c] < Len(Content[want[c]])
  /\ LET line == Content[want[c]][received[c] + 1]
     IN  /\ received' = [received EXCEPT ![c] = received[c] + 1]
         /\ buffer' = IF size[c] + 1 < MAX_OBJECT_SIZE
                      THEN [buffer EXCEPT ![c] = Append(buffer[c], line)] ELSE buffer
         /\ size' = [size EXCEPT ![c] = size[c] + 1]
         /\ Send(fd[c], <<line>>)
  /\ UNCHANGED <<main, pc, links, want, gone, store, over>>

\* The server closes, at the end of the object or before it.  What is small
\* enough is cached; server_fd stays open.
EndOfObject(c) ==
  /\ pc[c] = "receive" /\ want[c] \notin Silent
  /\ Goto(c, IF size[c] < MAX_OBJECT_SIZE THEN "add" ELSE "close")
  /\ UNCHANGED <<main, links, want, wire, gone, fetch, store, over>>

\* Rio_readlineb fails.
ReceiveFails(c) ==
  /\ pc[c] = "receive"
  /\ Goto(c, "close")
  /\ UNCHANGED <<main, links, want, wire, gone, fetch, store, over>>

\* write_to_cache.  There is room, or its eviction dereferences NULL.
Add(c) ==
  /\ pc[c] = "add"
  /\ IF size[c] <= room
     THEN Store!Add(c, buffer[c], size[c]) /\ Goto(c, "close") /\ UNCHANGED over
     ELSE over' = "crashed" /\ UNCHANGED <<pc, store>>
  /\ UNCHANGED <<main, links, want, wire, gone, fetch>>

\* Variant: a thread whose client was served from the cache just ends.
FinishMiss(c) ==
  /\ pc[c] = "close"
  /\ IF found[c] # NULL /\ found[c].value # NULL THEN UNCHANGED fds ELSE Close(fd[c])
  /\ Goto(c, "done")
  /\ UNCHANGED <<main, cell, fd, sfd, want, wire, gone, fetch, store, over>>

\* thread closes the client's descriptor.
Finish(c) ==
  /\ pc[c] = "close"
  /\ Close(fd[c])
  /\ Goto(c, "done")
  /\ UNCHANGED <<main, cell, fd, sfd, want, wire, gone, fetch, store, over>>

-----------------------------------------------------------------------------
\* What a connection does while the process runs and its server is well.
Main(c) == Accept(c) \/ Spawn(c)
Thread(c) ==
  \/ Start(c) \/ Request(c) \/ Lookup(c) \/ Hit(c) \/ Connect(c) \/ SendRequest(c)
  \/ Receive(c) \/ EndOfObject(c) \/ Add(c) \/ Finish(c)

Next ==
  /\ over = "no"
  /\ \E c \in Conns :
       Main(c) \/ Drop(c) \/ Thread(c) \/ RequestBreaksOff(c) \/ ReceiveFails(c) \/ Leave(c)

Spec == Init /\ [][Next]_vars

\* main and the threads are scheduled, and a server that answers goes on to.
FairSpec ==
  /\ Spec
  /\ WF_vars(over = "no" /\ \E c \in Conns : Main(c))
  /\ \A c \in Conns : WF_vars(over = "no" /\ Thread(c))

-----------------------------------------------------------------------------
Live    == {"request", "lookup", "hit", "connect", "send", "receive", "add", "close"}
Fetched == {"receive", "add"}

TypeOK ==
  /\ main \in Conns \cup {"accept"}
  /\ pc \in [Conns -> Live \cup {"connecting", "accepted", "start", "dropped", "done"}]
  /\ cell \in [Conns -> Fds \cup {NULL}]
  /\ fd \in [Conns -> Fds \cup {NULL}] /\ sfd \in [Conns -> Fds \cup {NULL}]
  /\ DOMAIN fds \subseteq Fds
  /\ gone \subseteq Conns
  /\ received \in [Conns -> Nat] /\ size \in [Conns -> Nat]
  /\ \A c \in Conns : Len(buffer[c]) < MAX_OBJECT_SIZE
  /\ over \in {"no", "exited", "crashed"}

\* A thread serves the connection main accepted for it: the number it read from
\* its cell, or keeps in server_fd, still stands for that connection, though
\* numbers are used again as soon as they are closed.
DescriptorsAreOwned ==
  \A c \in Conns :
    /\ pc[c] \in Live => fd[c] \in DOMAIN fds /\ fds[fd[c]] = Client(c)
    /\ sfd[c] # NULL => sfd[c] \in DOMAIN fds /\ fds[sfd[c]] = Server(c)

\* The descriptors that are open are those of the clients being served, those
\* main has dropped, and one for each server a thread connected to: the last
\* two stay for good.
DescriptorsAreAccounted ==
  /\ \A f, g \in DOMAIN fds : fds[f] = fds[g] => f = g
  /\ {fds[f] : f \in DOMAIN fds} =
       {Client(c) : c \in {d \in Conns : pc[d] \notin {"connecting", "done"}}}
         \cup {Server(c) : c \in {d \in Conns : sfd[d] # NULL}}

\* A client is sent one answer: an error, or lines of one object of the host it
\* named, in order from the first.  On a miss it is sent all that is received.
ClientGetsOneAnswer ==
  \A c \in Conns :
    /\ \/ wire[c] \in {<<>>, <<Error>>}
       \/ \E o \in Origins :
            /\ want[c] # NULL /\ HostOf[o] = HostOf[want[c]]
            /\ \/ IsPrefix(wire[c], Content[o])
               \/ Last(wire[c]) = Junk /\ IsPrefix(Front(wire[c]), Content[o])
    /\ pc[c] \in Fetched /\ c \notin gone =>
         wire[c] = SubSeq(Content[want[c]], 1, received[c])

\* What is cached under a host is what one thread received from a server there,
\* all of it, and it is smaller than MAX_OBJECT_SIZE.
CachedIsOneFetch ==
  \A i \in DOMAIN entries :
    /\ \E c \in Conns : /\ want[c] # NULL /\ entries[i].key = HostOf[want[c]]
                        /\ entries[i].value = SubSeq(Content[want[c]], 1, received[c])
                        /\ pc[c] \in {"close", "done"}
    /\ entries[i].size = Len(entries[i].value) /\ entries[i].size < MAX_OBJECT_SIZE

\* Every client that ends its request is served, though another client never
\* does or another's server never answers, as long as the process lives and has
\* descriptors.
Served(c) ==
  \/ pc[c] \in {"done", "dropped"}
  \/ pc[c] = "receive" /\ want[c] \in Silent
  \/ pc[c] = "request" /\ want[c] = NULL
EveryClientIsServed ==
  \A c \in Conns : <>Served(c) \/ <>(over # "no") \/ <>[](Free = {})

\* The driver fetches an object again with its server gone and compares the copy
\* with the original: a hit sends what was cached.
HitIsTheObject ==
  \A c \in Conns :
    pc[c] = "done" /\ c \notin gone /\ found[c] # NULL /\ found[c].value # NULL =>
      wire[c] = found[c].value
=============================================================================
