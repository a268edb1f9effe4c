------------------------------ MODULE Connection ------------------------------
(***************************************************************************)
(* The two places where the proxy opens sockets.  main opens the listening *)
(* socket before it accepts anything; a thread reads a request (Request),  *)
(* and only when it has all of it get_content opens the connection to the  *)
(* server, by the address (Sockets).  The cache, which comes between, and  *)
(* what follows are in Proxy.                                              *)
(***************************************************************************)
EXTENDS Request

CONSTANTS Fds, MaxAddrs   \* see Sockets

ASSUME SocketsAssumption == Fds \subseteq Nat /\ MaxAddrs \in Nat

VARIABLES fn, addrs, sockets, accepts, listens, at, p, fd, open, socket, listp, result

opening == <<fn, addrs, sockets, accepts, listens, at, p, fd, open, socket, listp, result>>

S == INSTANCE Sockets WITH pc <- at

ConnectionInit == Init /\ S!Init

\* Open_listenfd in main, Open_clientfd once process_request has the request.
Open ==
  /\ fn = "open_listenfd" \/ pc = "content"
  /\ S!Next
  /\ UNCHANGED vars

Read == fn = "open_clientfd" /\ Next /\ UNCHANGED opening

ConnectionNext == Read \/ Open

\* main and the thread run on; connect gives up in the end.
Running == [][ConnectionNext]_<<vars, opening>> /\ WF_<<vars, opening>>(ConnectionNext)

ConnectionSpec == ConnectionInit /\ Running

-----------------------------------------------------------------------------
\* A failed call keeps no descriptor and a successful one exactly the one it
\* returns, however many addresses were tried; the address list is freed either
\* way; and a thread that gives up on its request holds nothing.
NothingLeaks == S!NothingLeaks /\ (pc \in {"ended", "refused"} => open = {})

\* The first address that works is used, and the call fails only if none does.
FirstThatWorks == S!FirstThatWorks

\* main gets its socket or an error; a request that is complete, or breaks off in
\* an error, is refused, dropped or taken to the server: no number of headers
\* and no failing address keeps the thread.
CallsEnd ==
  fn = "open_listenfd" \/ Complete \/ (ending = "reset" /\ first # NULL) =>
    <>(pc \in {"ended", "refused", "overrun"} \/ at \in {"returned", "exited"})
=============================================================================
