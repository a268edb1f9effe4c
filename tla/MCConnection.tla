------------------------------ MODULE MCConnection ------------------------------
(***************************************************************************)
(* Up to three headers of six kinds: a Host field with a port, one         *)
(* without, one the patterns do not match, a field that holds the words    *)
(* "Host:" in its name, a field the proxy leaves out and one it passes     *)
(* on.  Nothing that is complete fills the request's buffer.               *)
(***************************************************************************)
EXTENDS Connection

Plain(id, drop) ==
  [id |-> id, drop |-> drop, named |-> FALSE, host |-> NULL, port |-> NULL]
Host(id, name, number) ==
  [id |-> id, drop |-> FALSE, named |-> TRUE, host |-> name, port |-> number]

MCRequestLines == {[id |-> "GET", get |-> TRUE, urn |-> "/"],
                   [id |-> "POST", get |-> FALSE, urn |-> "/"]}
MCHeaders ==
  {Plain("Cookie", FALSE), Plain("User-Agent", TRUE),
   Host("Host 1", <<"a", "b">>, <<"9", "9", "9">>),
   Host("Host 2", <<"c">>, NULL),
   Host("Host 3", NULL, NULL),
   Host("X-Forwarded-Host", <<"d">>, NULL)}

MCChars == {"a", "b", "c", "d", "8", "9", "0"}

MCFds == {3, 4}

\* Names with up to three addresses: one that has no socket, one that is refused
\* and one that works can come in any order.  Any request goes to an address
\* that works, and a plain one to any list of addresses.
Reachable == fn = "open_clientfd" /\ addrs = 1 /\ sockets = {1} /\ accepts = {1} /\ listens
Plainest  == first # NULL /\ first.get /\ lines = <<End>> /\ ending = "wait"

MCInit == ConnectionInit /\ (Reachable \/ Plainest)
MCSpec == MCInit /\ Running
=============================================================================
