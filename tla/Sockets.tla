------------------------------- MODULE Sockets --------------------------------
(***************************************************************************)
(* open_clientfd and open_listenfd of proxylab-handout/csapp.c with their  *)
(* Open_ wrappers: resolve a name to a list of addresses, walk the list to *)
(* the first address a socket can be opened on, free the list.             *)
(*                                                                         *)
(* The kernel and the resolver are external: which addresses they would    *)
(* accept is chosen at the start.  Other threads open and close            *)
(* descriptors too, so a new one may have any number that is not ours.     *)
(***************************************************************************)
EXTENDS Integers, FiniteSets, FiniteSetsExt

CONSTANTS
  Fds,        \* descriptor numbers, from 0 up
  MaxAddrs    \* bound: addresses a name resolves to

VARIABLES
  fn,         \* which of the two functions runs
  addrs,      \* how many addresses getaddrinfo finds, none if it fails
  sockets,    \* the addresses whose family the kernel makes sockets for
  accepts,    \* those that accept the connection, or the bind
  listens,    \* whether listen succeeds
  pc,         \* where the function is
  p,          \* the address it is at, addrs + 1 for NULL
  fd,         \* clientfd or listenfd
  open,       \* the descriptors it has opened and not closed
  socket,     \* descriptor -> [addr, state]
  listp,      \* the address list: "none", "held" or "freed"
  result

setting == <<fn, addrs, sockets, accepts, listens>>
vars == <<fn, addrs, sockets, accepts, listens, pc, p, fd, open, socket, listp, result>>

Init ==
  /\ fn \in {"open_clientfd", "open_listenfd"}
  /\ addrs \in 0 .. MaxAddrs
  /\ sockets \in SUBSET (1 .. addrs) /\ accepts \in SUBSET (1 .. addrs)
  /\ listens \in BOOLEAN
  /\ pc = "resolve" /\ p = 0 /\ fd = -1
  /\ open = {}
  /\ socket = [f \in Fds |-> [addr |-> 0, state |-> "none"]]
  /\ listp = "none" /\ result = -1

\* Getaddrinfo: gai_error ends the process when the name has no address.
Resolve ==
  /\ pc = "resolve"
  /\ IF addrs = 0
     THEN pc' = "exited" /\ UNCHANGED <<p, listp>>
     ELSE pc' = "walk" /\ p' = 1 /\ listp' = "held"
  /\ UNCHANGED <<setting, fd, open, socket, result>>

\* The walk is over: Freeaddrinfo, and -1 when no address worked.
EndOfList ==
  /\ pc = "walk" /\ p > addrs
  /\ listp' = "freed"
  /\ result' = -1
  /\ pc' = "returned"
  /\ UNCHANGED <<setting, p, fd, open, socket>>

SocketFails ==
  /\ pc = "walk" /\ p <= addrs /\ p \notin sockets
  /\ fd' = -1
  /\ p' = p + 1
  /\ UNCHANGED <<setting, pc, open, socket, listp, result>>

Socket ==
  /\ pc = "walk" /\ p \in sockets
  /\ \E f \in Fds \ open :
       /\ fd' = f
       /\ open' = open \cup {f}
       /\ socket' = [socket EXCEPT ![f] = [addr |-> p, state |-> "new"]]
  /\ pc' = "attach"
  /\ UNCHANGED <<setting, p, listp, result>>

\* connect or bind succeeds: break, Freeaddrinfo, and on to listen or home.
Attach ==
  /\ pc = "attach" /\ p \in accepts
  /\ listp' = "freed"
  /\ IF fn = "open_clientfd"
     THEN /\ socket' = [socket EXCEPT ![fd].state = "connected"]
          /\ result' = fd /\ pc' = "returned"
     ELSE /\ socket' = [socket EXCEPT ![fd].state = "bound"]
          /\ pc' = "listen" /\ UNCHANGED result
  /\ UNCHANGED <<setting, p, fd, open>>

\* Variant: the socket that did not get through is left open.
AttachFailsOpen ==
  /\ pc = "attach" /\ p \notin accepts
  /\ p' = p + 1
  /\ pc' = "walk"
  /\ UNCHANGED <<setting, fd, open, socket, listp, result>>

\* Variant: one failure ends the walk.
AttachFailsForAll ==
  /\ pc = "attach" /\ p \notin accepts
  /\ open' = open \ {fd}
  /\ p' = addrs + 1
  /\ pc' = "walk"
  /\ UNCHANGED <<setting, fd, socket, listp, result>>

\* connect or bind fails: Close, and the next address.
AttachFails ==
  /\ pc = "attach" /\ p \notin accepts
  /\ open' = open \ {fd}
  /\ p' = p + 1
  /\ pc' = "walk"
  /\ UNCHANGED <<setting, fd, socket, listp, result>>

Listen ==
  /\ pc = "listen"
  /\ IF listens
     THEN /\ socket' = [socket EXCEPT ![fd].state = "listening"]
          /\ result' = fd /\ UNCHANGED open
     ELSE open' = open \ {fd} /\ result' = -1 /\ UNCHANGED socket
  /\ pc' = "returned"
  /\ UNCHANGED <<setting, p, fd, listp>>

Next ==
  Resolve \/ EndOfList \/ SocketFails \/ Socket \/ Attach \/ AttachFails \/ Listen

-----------------------------------------------------------------------------
\* A failed call keeps no descriptor and a successful one exactly the one it
\* returns, however many addresses were tried; the list is freed either way.
NothingLeaks ==
  /\ Cardinality(open) <= 1
  /\ pc \in {"attach", "listen"} => open = {fd}
  /\ pc = "returned" => /\ open = (IF result = -1 THEN {} ELSE {result})
                        /\ listp = "freed"

\* The first address that works is used, and the call fails only if none does.
Working == sockets \cap accepts
FirstThatWorks ==
  pc = "returned" =>
    IF Working = {} \/ (fn = "open_listenfd" /\ ~ listens) THEN result = -1
    ELSE /\ result # -1
         /\ socket[result] = [addr  |-> Min(Working),
                              state |-> IF fn = "open_clientfd" THEN "connected"
                                                                ELSE "listening"]
=============================================================================
