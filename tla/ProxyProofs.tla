----------------------------- MODULE ProxyProofs ------------------------------
(***************************************************************************)
(* Proofs about the descriptors of the proxy, for any set of connections,  *)
(* servers and descriptor numbers: a thread works on the connection it was *)
(* started for, and what is open is what is being served or was left       *)
(* behind.                                                                 *)
(***************************************************************************)
EXTENDS Proxy, SequenceTheorems, WellFoundedInduction, TLAPS

\* Where a connection has no server_fd yet.
Early == {"connecting", "accepted", "start", "request", "lookup", "hit", "connect"}
Places == Live \cup {"connecting", "accepted", "start", "dropped", "done"}

Types ==
  /\ main \in Conns \cup {"accept"}
  /\ pc \in [Conns -> Places]
  /\ cell \in [Conns -> Fds \cup {NULL}]
  /\ fd \in [Conns -> Fds \cup {NULL}] /\ sfd \in [Conns -> Fds \cup {NULL}]
  /\ DOMAIN fds \subseteq Fds

\* Between accept and pthread_create main is busy with one connection.  The
\* number of a connection's descriptor passes from its cell to its thread.
MainIsBusy(c)  == main = c <=> pc[c] = "accepted"
CellHolds(c)   == pc[c] \in {"accepted", "start"} =>
                    cell[c] \in DOMAIN fds /\ fds[cell[c]] = Client(c)
ThreadHolds(c) == pc[c] \in Live => fd[c] \in DOMAIN fds /\ fds[fd[c]] = Client(c)
ServerHeld(c)  == sfd[c] # NULL => sfd[c] \in DOMAIN fds /\ fds[sfd[c]] = Server(c)
NotConnected(c) == pc[c] \in Early => sfd[c] = NULL
DroppedStays(c) == pc[c] = "dropped" => \E f \in DOMAIN fds : fds[f] = Client(c)

\* And from a descriptor to who left it open.
IsHeld(f) ==
  \/ \E c \in Conns : fds[f] = Client(c) /\ pc[c] \notin {"connecting", "done"}
  \/ \E c \in Conns : fds[f] = Server(c) /\ sfd[c] = f

LinksOf(c) ==
  /\ MainIsBusy(c) /\ CellHolds(c) /\ ThreadHolds(c)
  /\ ServerHeld(c) /\ NotConnected(c) /\ DroppedStays(c)

LinkInv ==
  /\ Types
  /\ \A c \in Conns : LinksOf(c)
  /\ \A f \in DOMAIN fds : IsHeld(f)
  /\ \A f, g \in DOMAIN fds : fds[f] = fds[g] => f = g

-----------------------------------------------------------------------------
\* A set of numbers has a least one.
LEMMA LeastExists ==
  ASSUME NEW S, S \subseteq Nat, S # {} PROVE \E m \in S : \A n \in S : m <= n
<1> DEFINE less == {pair \in Nat \X Nat : pair[1] < pair[2]}
<1>1. IsWellFoundedOn(less, Nat)
  <2>1. less = OpToRel(<, Nat)
    BY DEF OpToRel
  <2> QED BY <2>1, NatLessThanWellFounded
<1>2. PICK m \in S : \A n \in S : ~ (<<n, m>> \in less)
  BY <1>1, WFMin
<1>3. ASSUME NEW n \in S PROVE m <= n
  <2>1. m \in Nat /\ n \in Nat
    OBVIOUS
  <2>2. ~ (n < m)
    BY <1>2, <2>1
  <2> QED BY <2>1, <2>2
<1> QED BY <1>3

\* The lowest free descriptor is free.
LEMMA LowestIsFree ==
  ASSUME Free # {}
  PROVE  Lowest \in Fds /\ Lowest \notin DOMAIN fds
<1>1. \E f \in Free : \A g \in Free : f <= g
  BY FdsAssumption, LeastExists DEF Free
<1> QED BY <1>1 DEF Lowest, Free

\* The two ends of a connection, and those of two connections, are different.
LEMMA EndsDiffer ==
  /\ \A c, d \in Conns : Client(c) = Client(d) => c = d
  /\ \A c, d \in Conns : Server(c) = Server(d) => c = d
  /\ \A c, d \in Conns : Client(c) # Server(d)
BY DEF Client, Server

\* The initial states have no descriptor.
LEMMA LinkInit == Init => LinkInv
<1> SUFFICES ASSUME Init PROVE LinkInv
  OBVIOUS
<1> USE DEF Init
<1>1. Types
  BY DEF Types, Places
<1>2. ASSUME NEW c \in Conns PROVE LinksOf(c)
  BY ConnsAssumption, <1>2 DEF LinksOf, MainIsBusy, CellHolds, ThreadHolds, ServerHeld,
     NotConnected, DroppedStays, Live
<1> QED BY <1>1, <1>2 DEF LinkInv

\* A thread that moves on and leaves the descriptors alone.
LEMMA Moves ==
  ASSUME LinkInv, NEW c \in Conns, NEW there \in Live,
         pc[c] \in Live, there \in Early => pc[c] \in Early,
         Goto(c, there), UNCHANGED <<main, links>>
  PROVE  LinkInv'
<1> USE DEF Goto, links
<1>1. Types'
  BY DEF LinkInv, Types, Places
<1>2. pc \in [Conns -> Places]
  BY DEF LinkInv, Types
<1>3. "accepted" \notin Live /\ "start" \notin Live /\ "dropped" \notin Live
      /\ "connecting" \notin Live /\ "done" \notin Live
  BY DEF Live
<1>4. ASSUME NEW d \in Conns PROVE LinksOf(d)'
  <2>1. LinksOf(d)
    BY DEF LinkInv
  <2>2. CASE d = c
    BY <1>2, <1>3, <2>1, <2>2 DEF LinksOf, MainIsBusy, CellHolds, ThreadHolds, ServerHeld,
       NotConnected, DroppedStays, Client, Server
  <2>3. CASE d # c
    BY <1>2, <2>1, <2>3 DEF LinksOf, MainIsBusy, CellHolds, ThreadHolds, ServerHeld,
       NotConnected, DroppedStays, Client, Server
  <2> QED BY <2>2, <2>3
<1>5. ASSUME NEW f \in DOMAIN fds PROVE IsHeld(f)'
  BY <1>2, <1>3, <1>5 DEF LinkInv, IsHeld, Client, Server
<1> QED BY <1>1, <1>4, <1>5 DEF LinkInv

\* accept.
LEMMA AcceptKeeps ==
  ASSUME LinkInv, NEW c \in Conns, Accept(c) PROVE LinkInv'
<1> DEFINE f == Lowest
<1>1. f \in Fds /\ f \notin DOMAIN fds
  BY LowestIsFree DEF Accept
<1> HIDE DEF f
<1>2. /\ main = "accept" /\ pc[c] = "connecting"
      /\ DOMAIN fds' = DOMAIN fds \cup {f}
      /\ fds'[f] = Client(c) /\ \A g \in DOMAIN fds : fds'[g] = fds[g]
      /\ cell' = [cell EXCEPT ![c] = f] /\ main' = c
      /\ pc' = [pc EXCEPT ![c] = "accepted"]
      /\ UNCHANGED <<fd, sfd>>
  BY <1>1 DEF Accept, Open, Goto, f
<1>3. Types
  BY DEF LinkInv
<1>4. Types'
  BY <1>1, <1>2, <1>3 DEF Types, Places
<1>5. ASSUME NEW d \in Conns PROVE LinksOf(d)'
  <2>1. LinksOf(d)
    BY DEF LinkInv
  <2>2. CASE d = c
    BY <1>2, <1>3, <2>1, <2>2 DEF Types, Live, LinksOf, MainIsBusy, CellHolds, ThreadHolds,
       ServerHeld, NotConnected, DroppedStays, Client, Server, Early
  <2>3. CASE d # c
    <3>1. MainIsBusy(d)' /\ pc'[d] = pc[d] /\ cell'[d] = cell[d]
      BY ConnsAssumption, <1>2, <1>3, <2>1, <2>3 DEF Types, LinksOf, MainIsBusy
    <3> QED BY <1>2, <2>1, <3>1 DEF LinksOf, CellHolds, ThreadHolds,
           ServerHeld, NotConnected, DroppedStays, Client, Server
  <2> QED BY <2>2, <2>3
<1>6. ASSUME NEW g \in DOMAIN fds PROVE fds[g] # Client(c)
  BY <1>2, <1>6, EndsDiffer DEF LinkInv, IsHeld
<1>7. ASSUME NEW g \in DOMAIN fds' PROVE IsHeld(g)'
  <2>1. CASE g = f
    BY <1>2, <1>3, <2>1 DEF Types, IsHeld, Client
  <2>2. CASE g \in DOMAIN fds
    <3>1. CASE \E d \in Conns : fds[g] = Client(d) /\ pc[d] \notin {"connecting", "done"}
      BY <1>2, <1>3, <2>2, <3>1 DEF Types, IsHeld, Client
    <3>2. CASE \E d \in Conns : fds[g] = Server(d) /\ sfd[d] = g
      BY <1>2, <2>2, <3>2 DEF IsHeld, Server
    <3> QED BY <2>2, <3>1, <3>2 DEF LinkInv, IsHeld
  <2> QED BY <1>2, <2>1, <2>2
<1>8. \A g, h \in DOMAIN fds' : fds'[g] = fds'[h] => g = h
  BY <1>2, <1>6 DEF LinkInv
<1> QED BY <1>4, <1>5, <1>7, <1>8 DEF LinkInv

\* pthread_create, or what fails before it.
LEMMA MainGoesOn ==
  ASSUME LinkInv, NEW c \in Conns, Spawn(c) \/ Drop(c) PROVE LinkInv'
<1>1. PICK there \in {"start", "dropped"} :
        /\ main = c /\ main' = "accept"
        /\ pc' = [pc EXCEPT ![c] = there]
        /\ UNCHANGED <<cell, fd, sfd, fds>>
  BY DEF Spawn, Drop, Goto, links
<1>2. Types /\ Types'
  BY <1>1 DEF LinkInv, Types, Places
<1>3. LinksOf(c) /\ pc[c] = "accepted"
  BY <1>1 DEF LinkInv, LinksOf, MainIsBusy
<1>4. ASSUME NEW d \in Conns PROVE LinksOf(d)'
  <2>1. LinksOf(d)
    BY DEF LinkInv
  <2>2. CASE d = c
    BY ConnsAssumption, <1>1, <1>2, <1>3, <2>2 DEF Types, Live, LinksOf, MainIsBusy, CellHolds,
       ThreadHolds, ServerHeld, NotConnected, DroppedStays, Client, Server, Early
  <2>3. CASE d # c
    BY ConnsAssumption, <1>1, <1>2, <2>1, <2>3 DEF Types, LinksOf, MainIsBusy, CellHolds,
       ThreadHolds, ServerHeld, NotConnected, DroppedStays, Client, Server
  <2> QED BY <2>2, <2>3
<1>5. ASSUME NEW f \in DOMAIN fds PROVE IsHeld(f)'
  BY <1>1, <1>2, <1>3, <1>5 DEF Types, LinkInv, IsHeld, Client, Server
<1> QED BY <1>1, <1>2, <1>4, <1>5 DEF LinkInv

\* The thread takes the number from its cell.
LEMMA StartKeeps ==
  ASSUME LinkInv, NEW c \in Conns, Start(c) PROVE LinkInv'
<1>1. /\ pc[c] = "start" /\ pc' = [pc EXCEPT ![c] = "request"]
      /\ fd' = [fd EXCEPT ![c] = cell[c]] /\ cell' = [cell EXCEPT ![c] = NULL]
      /\ UNCHANGED <<main, sfd, fds>>
  BY DEF Start, Goto
<1>2. Types /\ Types'
  BY <1>1 DEF LinkInv, Types, Places, Live
<1>3. ASSUME NEW d \in Conns PROVE LinksOf(d)'
  <2>1. LinksOf(d)
    BY DEF LinkInv
  <2>2. CASE d = c
    BY <1>1, <1>2, <2>1, <2>2 DEF Types, LinksOf, MainIsBusy, CellHolds,
       ThreadHolds, ServerHeld, NotConnected, DroppedStays, Client, Server, Early
  <2>3. CASE d # c
    BY <1>1, <1>2, <2>1, <2>3 DEF Types, LinksOf, MainIsBusy, CellHolds,
       ThreadHolds, ServerHeld, NotConnected, DroppedStays, Client, Server
  <2> QED BY <2>2, <2>3
<1>4. ASSUME NEW f \in DOMAIN fds PROVE IsHeld(f)'
  BY <1>1, <1>2, <1>4 DEF Types, LinkInv, IsHeld, Client, Server
<1> QED BY <1>1, <1>2, <1>3, <1>4 DEF LinkInv

\* Open_clientfd succeeds.
LEMMA ConnectKeeps ==
  ASSUME LinkInv, NEW c \in Conns, pc[c] = "connect", Free # {},
         Open(Lowest, Server(c)), sfd' = [sfd EXCEPT ![c] = Lowest],
         Goto(c, "send"), UNCHANGED <<main, cell, fd>>
  PROVE  LinkInv'
<1> DEFINE f == Lowest
<1>1. f \in Fds /\ f \notin DOMAIN fds
  BY LowestIsFree
<1> HIDE DEF f
<1>2. /\ DOMAIN fds' = DOMAIN fds \cup {f}
      /\ fds'[f] = Server(c) /\ \A g \in DOMAIN fds : fds'[g] = fds[g]
      /\ sfd' = [sfd EXCEPT ![c] = f]
      /\ pc' = [pc EXCEPT ![c] = "send"]
  BY <1>1 DEF Open, Goto, f
<1>3. Types
  BY DEF LinkInv
<1>4. Types'
  BY <1>1, <1>2, <1>3 DEF Types, Places, Live
<1>5. sfd[c] = NULL
  BY DEF LinkInv, LinksOf, NotConnected, Early
<1>6. ASSUME NEW d \in Conns PROVE LinksOf(d)'
  <2>1. LinksOf(d)
    BY DEF LinkInv
  <2>2. CASE d = c
    BY <1>2, <1>3, <2>1, <2>2 DEF Types, Live, LinksOf, MainIsBusy, CellHolds, ThreadHolds,
       ServerHeld, NotConnected, DroppedStays, Client, Server, Early
  <2>3. CASE d # c
    BY <1>2, <1>3, <2>1, <2>3 DEF Types, LinksOf, MainIsBusy, CellHolds, ThreadHolds,
       ServerHeld, NotConnected, DroppedStays, Client, Server
  <2> QED BY <2>2, <2>3
<1>7. ASSUME NEW g \in DOMAIN fds PROVE fds[g] # Server(c)
  <2>1. NULL \notin Fds /\ g \in Fds
    BY <1>3, <1>7, FdsAssumption DEF Types
  <2> QED BY <1>5, <2>1, EndsDiffer DEF LinkInv, IsHeld
<1>8. ASSUME NEW g \in DOMAIN fds' PROVE IsHeld(g)'
  <2>1. CASE g = f
    BY <1>2, <1>3, <2>1 DEF Types, IsHeld, Server
  <2>2. CASE g \in DOMAIN fds
    <3>1. CASE \E d \in Conns : fds[g] = Client(d) /\ pc[d] \notin {"connecting", "done"}
      BY <1>2, <1>3, <2>2, <3>1 DEF Types, IsHeld, Client
    <3>2. CASE \E d \in Conns : fds[g] = Server(d) /\ sfd[d] = g
      BY <1>2, <1>3, <1>7, <2>2, <3>2 DEF Types, IsHeld, Server
    <3> QED BY <2>2, <3>1, <3>2 DEF LinkInv, IsHeld
  <2> QED BY <1>2, <2>1, <2>2
<1>9. \A g, h \in DOMAIN fds' : fds'[g] = fds'[h] => g = h
  BY <1>2, <1>7 DEF LinkInv
<1> QED BY <1>4, <1>6, <1>8, <1>9 DEF LinkInv

\* close(client_connfd) closes this client's descriptor and no other.
LEMMA FinishKeeps ==
  ASSUME LinkInv, NEW c \in Conns, Finish(c) PROVE LinkInv'
<1>1. /\ pc[c] = "close" /\ pc' = [pc EXCEPT ![c] = "done"]
      /\ DOMAIN fds' = DOMAIN fds \ {fd[c]}
      /\ \A g \in DOMAIN fds' : fds'[g] = fds[g]
      /\ UNCHANGED <<main, cell, fd, sfd>>
  BY DEF Finish, Close, Goto
<1>2. Types /\ Types'
  BY <1>1 DEF LinkInv, Types, Places
<1>3. fd[c] \in DOMAIN fds /\ fds[fd[c]] = Client(c)
  BY <1>1 DEF LinkInv, LinksOf, ThreadHolds, Live
<1>4. ASSUME NEW g \in DOMAIN fds, fds[g] # Client(c) PROVE g \in DOMAIN fds'
  BY <1>1, <1>3, <1>4
<1>5. ASSUME NEW d \in Conns PROVE LinksOf(d)'
  <2>1. LinksOf(d) /\ Server(d) # Client(c)
    BY EndsDiffer DEF LinkInv
  <2>2. CASE d = c
    BY <1>1, <1>2, <1>4, <2>1, <2>2 DEF Types, Live, Early, LinksOf, MainIsBusy, CellHolds,
       ThreadHolds, ServerHeld, NotConnected, DroppedStays, Server
  <2>3. CASE d # c
    <3>1. Client(d) # Client(c) /\ pc'[d] = pc[d]
      BY <1>1, <1>2, <2>3, EndsDiffer DEF Types
    <3> QED BY <1>1, <1>4, <2>1, <3>1 DEF LinksOf, MainIsBusy, CellHolds,
           ThreadHolds, ServerHeld, NotConnected, DroppedStays, Client, Server
  <2> QED BY <2>2, <2>3
<1>6. ASSUME NEW g \in DOMAIN fds' PROVE IsHeld(g)'
  <2>1. g \in DOMAIN fds /\ fds'[g] = fds[g] /\ fds[g] # Client(c)
    BY <1>1, <1>3 DEF LinkInv
  <2>2. CASE \E d \in Conns : fds[g] = Client(d) /\ pc[d] \notin {"connecting", "done"}
    BY <1>1, <1>2, <2>1, <2>2 DEF Types, IsHeld, Client
  <2>3. CASE \E d \in Conns : fds[g] = Server(d) /\ sfd[d] = g
    BY <1>1, <2>1, <2>3 DEF IsHeld, Server
  <2> QED BY <2>1, <2>2, <2>3 DEF LinkInv, IsHeld
<1>7. \A g, h \in DOMAIN fds' : fds'[g] = fds'[h] => g = h
  BY <1>1 DEF LinkInv
<1> QED BY <1>2, <1>5, <1>6, <1>7 DEF LinkInv

-----------------------------------------------------------------------------
\* A step of one thread.
LEMMA ThreadKeeps ==
  ASSUME LinkInv, NEW c \in Conns, Thread(c) PROVE LinkInv'
<1> USE DEF Live, Early, Goto
<1>1. CASE Start(c)
  BY <1>1, StartKeeps
<1>2. CASE Request(c)
  BY <1>2, Moves DEF Request
<1>3. CASE Lookup(c)
  BY <1>3, Moves DEF Lookup
<1>4. CASE Hit(c)
  BY <1>4, Moves DEF Hit
<1>5. CASE Connect(c)
  <2>1. CASE over' = "exited" /\ UNCHANGED <<pc, fds, sfd>>
    BY <1>5, <2>1 DEF Connect, LinkInv, Types, LinksOf, MainIsBusy, CellHolds, ThreadHolds,
       ServerHeld, NotConnected, DroppedStays, IsHeld, Client, Server
  <2>2. CASE Goto(c, "close") /\ UNCHANGED <<fds, sfd, over>>
    BY <1>5, <2>2, Moves DEF Connect, links
  <2>3. CASE Free # {} /\ Open(Lowest, Server(c)) /\ sfd' = [sfd EXCEPT ![c] = Lowest]
             /\ Goto(c, "send")
    BY <1>5, <2>3, ConnectKeeps DEF Connect
  <2> QED BY <1>5, <2>1, <2>2, <2>3 DEF Connect
<1>6. CASE SendRequest(c)
  BY <1>6, Moves DEF SendRequest
<1>7. CASE Receive(c)
  <2>1. UNCHANGED <<main, pc, links>>
    BY <1>7 DEF Receive
  <2> QED BY <2>1 DEF links, LinkInv, Types, LinksOf, MainIsBusy, CellHolds, ThreadHolds,
       ServerHeld, NotConnected, DroppedStays, IsHeld, Client, Server
<1>8. CASE EndOfObject(c)
  BY <1>8, Moves DEF EndOfObject
<1>9. CASE Add(c)
  <2>1. CASE size[c] <= room
    BY <1>9, <2>1, Moves DEF Add
  <2>2. CASE ~ (size[c] <= room)
    <3>1. UNCHANGED <<main, pc, links>>
      BY <1>9, <2>2 DEF Add
    <3> QED BY <3>1 DEF links, LinkInv, Types, LinksOf, MainIsBusy, CellHolds, ThreadHolds,
         ServerHeld, NotConnected, DroppedStays, IsHeld, Client, Server
  <2> QED BY <2>1, <2>2
<1>10. CASE Finish(c)
  BY <1>10, FinishKeeps
<1> QED BY <1>1, <1>2, <1>3, <1>4, <1>5, <1>6, <1>7, <1>8, <1>9, <1>10 DEF Thread

LEMMA LinkStep == LinkInv /\ [Next]_vars => LinkInv'
<1> SUFFICES ASSUME LinkInv, [Next]_vars PROVE LinkInv'
  OBVIOUS
<1>1. ASSUME NEW c \in Conns, Main(c) \/ Drop(c) PROVE LinkInv'
  BY <1>1, AcceptKeeps, MainGoesOn DEF Main
<1>2. ASSUME NEW c \in Conns, Thread(c) PROVE LinkInv'
  BY <1>2, ThreadKeeps
<1>3. ASSUME NEW c \in Conns, ReceiveFails(c) PROVE LinkInv'
  BY <1>3, Moves DEF ReceiveFails, Live, Early, Goto
<1>4. ASSUME UNCHANGED <<main, pc, links>> PROVE LinkInv'
  BY <1>4 DEF links, LinkInv, Types, LinksOf, MainIsBusy, CellHolds, ThreadHolds,
     ServerHeld, NotConnected, DroppedStays, IsHeld, Client, Server
<1>5. ASSUME NEW c \in Conns, Leave(c) PROVE LinkInv'
  BY <1>4, <1>5 DEF Leave
<1>6. ASSUME NEW c \in Conns, RequestBreaksOff(c) PROVE LinkInv'
  <2>1. CASE UNCHANGED pc
    BY <1>4, <1>6, <2>1 DEF RequestBreaksOff
  <2>2. CASE Goto(c, "close")
    BY <1>6, <2>2, Moves DEF RequestBreaksOff, Live, Early, Goto
  <2> QED BY <1>6, <2>1, <2>2 DEF RequestBreaksOff
<1>7. ASSUME UNCHANGED vars PROVE LinkInv'
  BY <1>4, <1>7 DEF vars, links
<1> QED BY <1>1, <1>2, <1>3, <1>5, <1>6, <1>7 DEF Next

\* Who holds which descriptor, from accept to close: the inductive invariant.
THEOREM LinksAreKept == Spec => []LinkInv
BY LinkInit, LinkStep, PTL DEF Spec

\* A thread serves the connection main accepted for it, and receives from the
\* server it connected to, whatever numbers are closed and used again meanwhile.
THEOREM DescriptorsStayOwned == Spec => []DescriptorsAreOwned
<1>1. LinkInv => DescriptorsAreOwned
  BY DEF LinkInv, LinksOf, ThreadHolds, ServerHeld, DescriptorsAreOwned
<1> QED BY <1>1, LinksAreKept, PTL

\* Nothing is open but the clients being served, those main dropped, and the
\* servers' descriptors that get_content left open; and all of these are.
THEOREM DescriptorsStayAccounted == Spec => []DescriptorsAreAccounted
<1>1. ASSUME LinkInv PROVE DescriptorsAreAccounted
  <2> DEFINE Clients == {Client(c) : c \in {d \in Conns : pc[d] \notin {"connecting", "done"}}}
             Servers == {Server(c) : c \in {d \in Conns : sfd[d] # NULL}}
  <2>1. ASSUME NEW f \in DOMAIN fds PROVE fds[f] \in Clients \cup Servers
    <3>1. NULL \notin Fds /\ f \in Fds
      BY <1>1, FdsAssumption DEF LinkInv, Types
    <3> QED BY <1>1, <3>1 DEF LinkInv, IsHeld
  <2>2. ASSUME NEW c \in Conns, pc[c] \notin {"connecting", "done"}
        PROVE  \E f \in DOMAIN fds : fds[f] = Client(c)
    <3>1. LinksOf(c) /\ pc[c] \in Places
      BY <1>1 DEF LinkInv, Types
    <3> QED BY <2>2, <3>1 DEF LinksOf, CellHolds, ThreadHolds, DroppedStays, Places
  <2>3. ASSUME NEW c \in Conns, sfd[c] # NULL
        PROVE  \E f \in DOMAIN fds : fds[f] = Server(c)
    BY <1>1, <2>3 DEF LinkInv, LinksOf, ServerHeld
  <2>4. {fds[f] : f \in DOMAIN fds} = Clients \cup Servers
    BY <2>1, <2>2, <2>3
  <2> QED BY <1>1, <2>4 DEF LinkInv, DescriptorsAreAccounted
<1> QED BY <1>1, LinksAreKept, PTL

-----------------------------------------------------------------------------
\* What get_content has received, what it keeps of it, and what is cached.
Entry == [key : Hosts, value : Seq(Lines), size : Nat]

DataTypes ==
  /\ want \in [Conns -> Origins \cup {NULL}]
  /\ received \in [Conns -> Nat] /\ size \in [Conns -> Nat]
  /\ buffer \in [Conns -> Seq(Lines)]
  /\ DOMAIN found = Conns
  /\ entries \in Seq(Entry)
  /\ gone \subseteq Conns
  /\ over \in {"no", "exited", "crashed"}

Unread   == {"connecting", "accepted", "start", "request", "dropped"}
LookedUp == {"connect", "send", "receive", "add"}
Asking   == LookedUp \cup {"lookup", "hit"}

Named(c)   == pc[c] \in Asking => want[c] \in Origins
Counted(c) == size[c] = received[c] /\ Len(buffer[c]) <= size[c]
Kept(c)    ==
  want[c] \in Origins =>
    /\ received[c] <= Len(Content[want[c]])
    /\ size[c] < MAX_OBJECT_SIZE => buffer[c] = SubSeq(Content[want[c]], 1, received[c])
Fits(c)    == Len(buffer[c]) < MAX_OBJECT_SIZE /\ (pc[c] = "add" => size[c] < MAX_OBJECT_SIZE)
Keyed(c)   == pc[c] \in LookedUp => found[c].key = HostOf[want[c]]

FetchOf(c) == Named(c) /\ Counted(c) /\ Kept(c) /\ Fits(c) /\ Keyed(c)

\* c fetched what is in the entry e.
FetchedBy(e, c) ==
  /\ want[c] \in Origins /\ e.key = HostOf[want[c]]
  /\ e.value = SubSeq(Content[want[c]], 1, received[c])
  /\ e.size = Len(e.value) /\ e.size < MAX_OBJECT_SIZE
  /\ pc[c] \in {"close", "done"}
IsFetched(e) == \E c \in Conns : FetchedBy(e, c)

DataInv ==
  /\ DataTypes
  /\ \A c \in Conns : FetchOf(c)
  /\ \A i \in DOMAIN entries : IsFetched(entries[i])

\* Nothing has been received or cached.
LEMMA DataInit == Init => DataInv
<1> SUFFICES ASSUME Init PROVE DataInv
  OBVIOUS
<1> USE DEF Init, Store!Init
<1>1. DataTypes
  BY DEF DataTypes
<1>2. ASSUME NEW c \in Conns PROVE FetchOf(c)
  <2>1. buffer[c] = <<>> /\ received[c] = 0 /\ size[c] = 0 /\ pc[c] = "connecting"
    OBVIOUS
  <2>2. ASSUME want[c] \in Origins
        PROVE  0 <= Len(Content[want[c]]) /\ SubSeq(Content[want[c]], 1, 0) = <<>>
    BY <2>2, OriginsAssumption
  <2>3. Named(c) /\ Counted(c) /\ Fits(c) /\ Keyed(c)
    BY <2>1, SizesAssumption DEF Named, Counted, Fits, Keyed, Asking, LookedUp
  <2>4. Kept(c)
    BY <2>1, <2>2 DEF Kept
  <2> QED BY <2>3, <2>4 DEF FetchOf
<1> QED BY <1>1, <1>2 DEF DataInv

\* A step of main or of a thread that receives and caches nothing.
LEMMA DataMoves ==
  ASSUME LinkInv, DataInv, NEW c \in Conns, NEW there \in Places,
         Goto(c, there),
         there \in Asking => pc[c] \in Asking \/ want[c] # NULL,
         there = "add" => size[c] < MAX_OBJECT_SIZE,
         there \in LookedUp => pc[c] \in LookedUp \/ found'[c].key = HostOf[want[c]],
         pc[c] \in {"close", "done"} => there = "done",
         DOMAIN found' = Conns, \A d \in Conns : found'[d] = found[d] \/ pc[d] = "lookup",
         UNCHANGED <<want, fetch, entries>>,
         gone' \subseteq Conns, over' \in {"no", "exited", "crashed"}
  PROVE  DataInv'
<1>1. DataTypes'
  BY DEF DataInv, DataTypes, fetch
<1>2. pc \in [Conns -> Places] /\ pc' = [pc EXCEPT ![c] = there]
  BY DEF LinkInv, Types, Goto
<1>3. ASSUME NEW d \in Conns PROVE FetchOf(d)'
  <2>1. FetchOf(d) /\ want[d] \in Origins \cup {NULL}
    BY DEF DataInv, DataTypes
  <2>2. Counted(d)' /\ Kept(d)'
    BY <2>1 DEF FetchOf, Counted, Kept, fetch
  <2>3. CASE d = c
    <3>1. pc'[d] = there
      BY <1>2, <2>3
    <3>2. Named(d)' /\ Fits(d)'
      BY <2>1, <2>3, <3>1 DEF FetchOf, Named, Fits, fetch
    <3>3. Keyed(d)'
      BY <2>1, <2>3, <3>1 DEF FetchOf, Keyed, LookedUp
    <3> QED BY <2>2, <3>2, <3>3 DEF FetchOf
  <2>4. CASE d # c
    <3>1. pc'[d] = pc[d]
      BY <1>2, <2>4
    <3> QED BY <2>1, <2>2, <3>1 DEF FetchOf, Named, Fits, Keyed, fetch, LookedUp
  <2> QED BY <2>3, <2>4
<1>4. ASSUME NEW i \in DOMAIN entries PROVE IsFetched(entries[i])'
  BY <1>2 DEF DataInv, IsFetched, FetchedBy, fetch
<1> QED BY <1>1, <1>3, <1>4 DEF DataInv

\* A line is received.
LEMMA ReceiveKeepsData ==
  ASSUME LinkInv, DataInv, NEW c \in Conns, Receive(c) PROVE DataInv'
<1> DEFINE o == want[c]
           r == received[c] + 1
           line == Content[o][r]
<1>1. /\ pc[c] = "receive" /\ received[c] < Len(Content[o])
      /\ received' = [received EXCEPT ![c] = r]
      /\ buffer' = IF size[c] + 1 < MAX_OBJECT_SIZE
                   THEN [buffer EXCEPT ![c] = Append(buffer[c], line)] ELSE buffer
      /\ size' = [size EXCEPT ![c] = size[c] + 1]
      /\ UNCHANGED <<pc, want, gone, entries, found, over>>
  BY DEF Receive, store
<1>2. DataTypes /\ FetchOf(c)
  BY DEF DataInv
<1>3. o \in Origins /\ Content[o] \in Seq(Lines)
  BY <1>1, <1>2, OriginsAssumption DEF FetchOf, Named, Asking, LookedUp
<1>4. line \in Lines /\ r \in 1 .. Len(Content[o]) /\ received[c] \in Nat /\ size[c] = received[c]
  BY <1>1, <1>2, <1>3 DEF DataTypes, FetchOf, Counted
<1>5. DataTypes'
  <2>1. buffer' \in [Conns -> Seq(Lines)]
    BY <1>1, <1>2, <1>4 DEF DataTypes
  <2> QED BY <1>1, <1>2, <2>1 DEF DataTypes
<1>6. Counted(c)' /\ Fits(c)'
  BY <1>1, <1>2, <1>4, SizesAssumption DEF DataTypes, FetchOf, Counted, Fits
<1>7. Kept(c)'
  <2>1. CASE r < MAX_OBJECT_SIZE
    <3>1. buffer[c] = SubSeq(Content[o], 1, received[c])
      BY <1>2, <1>3, <1>4, <2>1, SizesAssumption DEF FetchOf, Kept
    <3>2. Append(SubSeq(Content[o], 1, received[c]), line) = SubSeq(Content[o], 1, r)
      BY <1>3, <1>4
    <3> QED BY <1>1, <1>2, <1>3, <1>4, <2>1, <3>1, <3>2 DEF DataTypes, Kept
  <2>2. CASE ~ (r < MAX_OBJECT_SIZE)
    BY <1>1, <1>2, <1>4, <2>2 DEF DataTypes, Kept
  <2> QED BY <2>1, <2>2
<1>8. ASSUME NEW d \in Conns PROVE FetchOf(d)'
  <2>1. FetchOf(d)
    BY DEF DataInv
  <2>2. Named(d)' /\ Keyed(d)'
    BY <1>1, <2>1 DEF FetchOf, Named, Keyed
  <2>3. CASE d = c
    BY <1>6, <1>7, <2>2, <2>3 DEF FetchOf
  <2>4. CASE d # c
    <3>1. received'[d] = received[d] /\ size'[d] = size[d] /\ buffer'[d] = buffer[d]
      BY <1>1, <1>2, <2>4 DEF DataTypes
    <3> QED BY <1>1, <2>1, <2>2, <3>1 DEF FetchOf, Counted, Kept, Fits
  <2> QED BY <2>3, <2>4
<1>9. ASSUME NEW i \in DOMAIN entries PROVE IsFetched(entries[i])'
  <2>1. PICK d \in Conns : FetchedBy(entries[i], d)
    BY <1>9 DEF DataInv, IsFetched
  <2>2. received'[d] = received[d]
    BY <1>1, <1>2, <2>1 DEF FetchedBy, DataTypes
  <2> QED BY <1>1, <2>1, <2>2 DEF IsFetched, FetchedBy
<1> QED BY <1>1, <1>5, <1>8, <1>9 DEF DataInv

\* write_to_cache adds what this thread received.
LEMMA AddKeepsData ==
  ASSUME LinkInv, DataInv, NEW c \in Conns, Add(c) PROVE DataInv'
<1>1. pc[c] = "add" /\ UNCHANGED <<want, gone, fetch>>
  BY DEF Add
<1>2. CASE size[c] <= room
  <2> DEFINE e == [key |-> found[c].key, value |-> buffer[c], size |-> size[c]]
  <2>1. /\ entries' = <<e>> \o entries /\ found' = found /\ over' = over
        /\ pc' = [pc EXCEPT ![c] = "close"]
    BY <1>2 DEF Add, Store!Add, Goto
  <2>2. DataTypes /\ FetchOf(c) /\ pc \in [Conns -> Places]
    BY DEF DataInv, LinkInv, Types
  <2>3. want[c] \in Origins /\ found[c].key = HostOf[want[c]]
    BY <1>1, <2>2 DEF FetchOf, Named, Keyed, Asking, LookedUp
  <2>4. /\ e.value = SubSeq(Content[want[c]], 1, received[c])
        /\ e.size = received[c] /\ e.size < MAX_OBJECT_SIZE
        /\ received[c] \in Nat /\ received[c] <= Len(Content[want[c]])
    BY <1>1, <2>2, <2>3 DEF DataTypes, FetchOf, Counted, Kept, Fits
  <2>5. Len(e.value) = received[c]
    BY <2>3, <2>4, OriginsAssumption
  <2>6. FetchedBy(e, c)'
    BY <1>1, <2>1, <2>2, <2>3, <2>4, <2>5 DEF FetchedBy, fetch
  <2>7. e \in Entry
    BY <2>2, <2>3 DEF DataTypes, Entry, Hosts
  <2>8. DataTypes'
    <3>1. entries' \in Seq(Entry)
      BY <2>1, <2>2, <2>7 DEF DataTypes
    <3> QED BY <1>1, <2>1, <2>2, <3>1 DEF DataTypes, fetch
  <2>9. ASSUME NEW d \in Conns PROVE FetchOf(d)'
    <3>1. FetchOf(d)
      BY DEF DataInv
    <3>2. Counted(d)' /\ Kept(d)'
      BY <1>1, <3>1 DEF FetchOf, Counted, Kept, fetch
    <3>3. pc'[d] = pc[d] \/ (d = c /\ pc'[d] = "close")
      BY <2>1, <2>2
    <3> QED BY <1>1, <2>1, <2>3, <3>1, <3>2, <3>3
        DEF FetchOf, Named, Fits, Keyed, fetch, LookedUp
  <2>10. ASSUME NEW i \in DOMAIN entries' PROVE IsFetched(entries[i])'
    <3>1. CASE i = 1
      <4>1. entries'[i] = e
        BY <2>1, <2>2, <3>1 DEF DataTypes
      <4>2. e' = e
        BY <1>1, <2>1 DEF fetch
      <4> QED BY <2>6, <4>1, <4>2 DEF IsFetched
    <3>2. CASE i # 1
      <4>1. i - 1 \in DOMAIN entries /\ entries'[i] = entries[i - 1]
        BY <2>1, <2>2, <3>2 DEF DataTypes
      <4>2. PICK d \in Conns : FetchedBy(entries[i - 1], d)
        BY <4>1 DEF DataInv, IsFetched
      <4>3. pc'[d] = pc[d]
        BY <1>1, <2>1, <2>2, <4>2 DEF FetchedBy
      <4> QED BY <1>1, <4>1, <4>2, <4>3 DEF IsFetched, FetchedBy, fetch
    <3> QED BY <3>1, <3>2
  <2> QED BY <2>8, <2>9, <2>10 DEF DataInv
<1>3. CASE ~ (size[c] <= room)
  <2>1. over' = "crashed" /\ UNCHANGED <<pc, store>>
    BY <1>3 DEF Add
  <2> QED BY <1>1, <2>1 DEF fetch, store, DataInv, DataTypes, FetchOf, Named, Counted, Kept,
          Fits, Keyed, IsFetched, FetchedBy
<1> QED BY <1>2, <1>3

LEMMA DataStep == LinkInv /\ DataInv /\ [Next]_vars => DataInv'
<1> SUFFICES ASSUME LinkInv, DataInv, [Next]_vars PROVE DataInv'
  OBVIOUS
<1> DEFINE Idle == UNCHANGED <<want, fetch, gone, store, over>>
<1>1. DataTypes /\ pc \in [Conns -> Places]
  BY DEF DataInv, LinkInv, Types
<1>2. ASSUME NEW c \in Conns, NEW there \in Places, Goto(c, there),
             there \in Asking => pc[c] \in Asking \/ want[c] # NULL,
             there = "add" => size[c] < MAX_OBJECT_SIZE,
             there \in LookedUp => pc[c] \in LookedUp,
             pc[c] \in {"close", "done"} => there = "done",
             Idle
      PROVE  DataInv'
  BY <1>1, <1>2, DataMoves DEF DataTypes, store
<1> USE DEF Places, Live, Unread, Asking, LookedUp
<1>3. ASSUME NEW c \in Conns, Accept(c) \/ Spawn(c) \/ Drop(c) \/ Start(c) PROVE DataInv'
  <2>1. Idle /\ \E there \in Unread : Goto(c, there)
    BY <1>3 DEF Accept, Spawn, Drop, Start
  <2>2. pc[c] \notin {"close", "done"}
    BY <1>3 DEF Accept, Spawn, Drop, Start, LinkInv, LinksOf, MainIsBusy
  <2> QED BY <1>2, <2>1, <2>2
<1>4. ASSUME NEW c \in Conns,
             Request(c) \/ Hit(c) \/ SendRequest(c) \/ EndOfObject(c) \/ ReceiveFails(c)
      PROVE  DataInv'
  BY <1>2, <1>4 DEF Request, Hit, SendRequest, EndOfObject, ReceiveFails
<1>5. ASSUME NEW c \in Conns, Finish(c) PROVE DataInv'
  BY <1>2, <1>5 DEF Finish
<1>6. ASSUME NEW c \in Conns, Lookup(c) PROVE DataInv'
  <2>1. /\ pc[c] = "lookup"
        /\ \E there \in {"connect", "hit"} : Goto(c, there)
        /\ UNCHANGED <<want, fetch, gone, over, entries>>
        /\ DOMAIN found' = DOMAIN found /\ found'[c].key = HostOf[want[c]]
        /\ \A d \in Conns : d # c => found'[d] = found[d]
    BY <1>1, <1>6 DEF Lookup, Store!Lookup, DataTypes
  <2> QED BY <1>1, <2>1, DataMoves DEF DataTypes
<1>7. ASSUME NEW c \in Conns, Connect(c) PROVE DataInv'
  <2>1. pc[c] = "connect" /\ UNCHANGED <<want, fetch, gone, store>>
    BY <1>7 DEF Connect
  <2>2. CASE over' = "exited" /\ UNCHANGED pc
    BY <2>1, <2>2 DEF fetch, store, DataInv, DataTypes, FetchOf, Named, Counted, Kept,
       Fits, Keyed, IsFetched, FetchedBy
  <2>3. CASE UNCHANGED over /\ \E there \in {"send", "close"} : Goto(c, there)
    BY <1>2, <2>1, <2>3
  <2> QED BY <1>7, <2>2, <2>3 DEF Connect
<1>8. ASSUME NEW c \in Conns, Leave(c) PROVE DataInv'
  BY <1>8 DEF Leave, fetch, store, DataInv, DataTypes, FetchOf, Named, Counted, Kept,
     Fits, Keyed, IsFetched, FetchedBy
<1>9. ASSUME NEW c \in Conns, RequestBreaksOff(c) PROVE DataInv'
  <2>1. pc[c] = "request" /\ UNCHANGED <<want, fetch, gone, store>>
    BY <1>9 DEF RequestBreaksOff
  <2>2. CASE over' = "crashed" /\ UNCHANGED pc
    BY <2>1, <2>2 DEF fetch, store, DataInv, DataTypes, FetchOf, Named, Counted, Kept,
       Fits, Keyed, IsFetched, FetchedBy
  <2>3. CASE UNCHANGED over /\ Goto(c, "close")
    BY <1>2, <2>1, <2>3
  <2> QED BY <1>9, <2>2, <2>3 DEF RequestBreaksOff
<1>10. ASSUME UNCHANGED vars PROVE DataInv'
  BY <1>10 DEF vars, DataInv, DataTypes, FetchOf, Named, Counted, Kept,
     Fits, Keyed, IsFetched, FetchedBy
<1> QED BY <1>3, <1>4, <1>5, <1>6, <1>7, <1>8, <1>9, <1>10, ReceiveKeepsData, AddKeepsData
    DEF Next, Main, Thread

\* What each thread has received and kept, and what is cached: an inductive
\* invariant beside LinkInv.
THEOREM DataIsKept == Spec => []DataInv
BY LinkInit, LinkStep, DataInit, DataStep, PTL DEF Spec

\* The proxy's variables have their types, and get_content's buffer never holds
\* MAX_OBJECT_SIZE lines, however large the object is.
THEOREM ProxyTypeCorrect == Spec => []TypeOK
<1>1. LinkInv /\ DataInv => TypeOK
  BY DEF LinkInv, Types, Places, DataInv, DataTypes, FetchOf, Fits, TypeOK
<1> QED BY <1>1, LinksAreKept, DataIsKept, PTL

\* What is cached under a host is what one thread received from a server there,
\* with its true size, below MAX_OBJECT_SIZE.
THEOREM CachedStaysOneFetch == Spec => []CachedIsOneFetch
<1>1. NULL \notin Origins => (DataInv => CachedIsOneFetch)
  BY DEF DataInv, IsFetched, FetchedBy, CachedIsOneFetch
<1> QED BY <1>1, OriginsAssumption, DataIsKept, PTL

-----------------------------------------------------------------------------
\* What each client has been sent.
Quiet == Unread \cup {"lookup", "hit", "connect", "send"}

PartOf(s, o) == \E k \in 0 .. Len(Content[o]) : s = SubSeq(Content[o], 1, k)
Sent(s, o)   == PartOf(s, o) \/ \E p : PartOf(p, o) /\ s = Append(p, Junk)

SentNothing(c) == pc[c] \in Quiet => wire[c] = <<>> /\ received[c] = 0
SentReceived(c) ==
  pc[c] \in Fetched =>
    \E k \in 0 .. received[c] : /\ wire[c] = SubSeq(Content[want[c]], 1, k)
                                /\ c \notin gone => k = received[c]
SentOne(c) ==
  pc[c] \in {"close", "done"} =>
    \/ wire[c] \in {<<>>, <<Error>>}
    \/ want[c] # NULL /\ \E o \in Origins : HostOf[o] = HostOf[want[c]] /\ Sent(wire[c], o)
HitIsPart(c) ==
  pc[c] = "hit" =>
    \E o \in Origins : HostOf[o] = HostOf[want[c]] /\ PartOf(found[c].value, o)

AnswerOf(c) == SentNothing(c) /\ SentReceived(c) /\ SentOne(c) /\ HitIsPart(c)

AnswerInv ==
  /\ DOMAIN wire = Conns
  /\ \A c \in Conns : AnswerOf(c)

LEMMA OneMore ==
  ASSUME NEW s \in Seq(Lines), NEW k \in Nat, k + 1 \in 1 .. Len(s)
  PROVE  SubSeq(s, 1, k) \o <<s[k + 1]>> = SubSeq(s, 1, k + 1)
<1>1. Len(SubSeq(s, 1, k)) = k /\ s[k + 1] \in Lines
  OBVIOUS
<1>2. Append(SubSeq(s, 1, k), s[k + 1]) = SubSeq(s, 1, k + 1)
  OBVIOUS
<1>3. SubSeq(s, 1, k) \o <<s[k + 1]>> = Append(SubSeq(s, 1, k), s[k + 1])
  BY <1>1
<1> QED BY <1>2, <1>3

LEMMA PartIs ==
  ASSUME NEW o, NEW k \in 0 .. Len(Content[o]), NEW s, s = SubSeq(Content[o], 1, k)
  PROVE  PartOf(s, o)
BY Zenon DEF PartOf

LEMMA PartIsLines ==
  ASSUME NEW o \in Origins, NEW s, PartOf(s, o)
  PROVE  s \in Seq(Lines) /\ IsPrefix(s, Content[o])
<1>1. PICK k \in 0 .. Len(Content[o]) : s = SubSeq(Content[o], 1, k)
  BY DEF PartOf
<1>2. Content[o] \in Seq(Lines)
  BY OriginsAssumption
<1>3. Len(s) = k /\ s \in Seq(Lines)
  BY <1>1, <1>2
<1>4. SubSeq(s, 1, Len(s)) = s
  BY <1>3
<1> QED BY <1>1, <1>2, <1>3, <1>4 DEF IsPrefix

\* strlen stops within the object, at its end, or after it.
LEMMA StrlenIsSent ==
  ASSUME NEW o \in Origins, NEW s, PartOf(s, o), NEW t \in Strlen(s)
  PROVE  Sent(t, o) /\ \E S : t \in Seq(S)
<1>1. PICK k \in 0 .. Len(Content[o]) : s = SubSeq(Content[o], 1, k)
  BY DEF PartOf
<1>2. s \in Seq(Lines) /\ Content[o] \in Seq(Lines)
  BY OriginsAssumption, PartIsLines
<1>3. Len(s) = k
  BY <1>1, <1>2
<1>4. CASE t = s
  BY <1>2, <1>4 DEF Sent
<1>5. CASE t = Append(s, Junk)
  <2>1. t \in Seq(Lines \cup {Junk})
    BY <1>2, <1>5
  <2> QED BY <1>5, <2>1 DEF Sent
<1>6. ASSUME NEW i \in DOMAIN s, t = SubSeq(s, 1, i - 1) PROVE Sent(t, o) /\ t \in Seq(Lines)
  <2>1. i - 1 \in 0 .. k /\ i - 1 \in 0 .. Len(Content[o])
    BY <1>2, <1>3
  <2>2. t = SubSeq(Content[o], 1, i - 1)
    BY <1>1, <1>2, <1>3, <1>6, <2>1
  <2>3. PartOf(t, o)
    BY <2>1, <2>2 DEF PartOf
  <2> QED BY <2>3, PartIsLines DEF Sent
<1> QED BY <1>4, <1>5, <1>6 DEF Strlen

\* A thread writes to its own client.
LEMMA SendIsOwn ==
  ASSUME LinkInv, AnswerInv, NEW c \in Conns, pc[c] \in Live, NEW data, Send(fd[c], data)
  PROVE  /\ DOMAIN wire' = Conns
         /\ \A d \in Conns : d # c => wire'[d] = wire[d]
         /\ wire'[c] = IF c \in gone THEN wire[c] ELSE wire[c] \o data
<1>1. fd[c] \in DOMAIN fds /\ fds[fd[c]] = Client(c)
  BY DEF LinkInv, LinksOf, ThreadHolds
<1> QED BY <1>1, EndsDiffer DEF Send

LEMMA AnswerInit == Init => AnswerInv
BY DEF Init, AnswerInv, AnswerOf, SentNothing, SentReceived, SentOne, HitIsPart, Fetched

\* What is cached under a host is part of an object there.
LEMMA CachedIsPart ==
  ASSUME LinkInv, DataInv, NEW k, Store!Newest(k) # NULL
  PROVE  \E o \in Origins : HostOf[o] = k /\ PartOf(Store!Newest(k), o)
<1> DEFINE hits == {i \in DOMAIN entries : entries[i].key = k}
<1>1. hits # {} /\ Store!Newest(k) = entries[Store!Min(hits)].value
  BY DEF Store!Newest
<1>2. entries \in Seq(Entry) /\ hits \subseteq Nat
  BY DEF DataInv, DataTypes
<1>3. Store!Min(hits) \in hits
  BY <1>1, <1>2, LeastExists DEF Store!Min
<1>4. PICK i \in hits : Store!Newest(k) = entries[i].value
  BY <1>1, <1>3
<1>5. PICK d \in Conns : FetchedBy(entries[i], d)
  BY <1>4 DEF DataInv, IsFetched
<1>6. received[d] \in 0 .. Len(Content[want[d]])
  BY <1>5, OriginsAssumption DEF FetchedBy, DataInv, DataTypes, FetchOf, Kept
<1> QED BY <1>4, <1>5, <1>6 DEF FetchedBy, PartOf

\* A step that sends nothing.
LEMMA AnswerMoves ==
  ASSUME LinkInv, DataInv, AnswerInv, NEW c \in Conns, NEW there \in Places,
         Goto(c, there),
         there \in Quiet => pc[c] \in Quiet,
         there \in Fetched => pc[c] \in Fetched \cup {"send"},
         HitIsPart(c)', \A d \in Conns : d # c => found'[d] = found[d],
         UNCHANGED <<want, received, wire, gone>>
  PROVE  AnswerInv'
<1>1. pc \in [Conns -> Places] /\ pc' = [pc EXCEPT ![c] = there]
  BY DEF LinkInv, Types, Goto
<1>2. ASSUME NEW d \in Conns, d # c PROVE AnswerOf(d)'
  <2>1. AnswerOf(d) /\ pc'[d] = pc[d] /\ found'[d] = found[d]
    BY <1>1, <1>2 DEF AnswerInv
  <2> QED BY <2>1 DEF AnswerOf, SentNothing, SentReceived, SentOne, HitIsPart
<1>3. pc'[c] = there /\ AnswerOf(c) /\ FetchOf(c) /\ received[c] \in Nat
  BY <1>1 DEF AnswerInv, DataInv, DataTypes
<1>4. SentNothing(c)'
  BY <1>3 DEF AnswerOf, SentNothing
<1>5. SentReceived(c)'
  <2>1. CASE pc[c] \in Fetched
    BY <1>3, <2>1 DEF AnswerOf, SentReceived
  <2>2. CASE pc[c] = "send" /\ there \in Fetched
    <3>1. wire[c] = <<>> /\ received[c] = 0 /\ want[c] \in Origins
      BY <1>3, <2>2 DEF AnswerOf, SentNothing, Quiet, FetchOf, Named, Unread, Asking, LookedUp
    <3>2. SubSeq(Content[want[c]], 1, 0) = <<>>
      BY <3>1, OriginsAssumption
    <3> QED BY <1>3, <3>1, <3>2 DEF SentReceived
  <2>3. CASE there \notin Fetched
    BY <1>3, <2>3 DEF SentReceived
  <2> QED BY <2>1, <2>2, <2>3
<1>6. SentOne(c)'
  <2>1. CASE pc[c] \in Quiet
    BY <1>3, <2>1 DEF AnswerOf, SentNothing, SentOne
  <2>2. CASE pc[c] \in Fetched
    <3>1. PICK k \in 0 .. received[c] : /\ wire[c] = SubSeq(Content[want[c]], 1, k)
                                        /\ c \notin gone => k = received[c]
      BY <1>3, <2>2 DEF AnswerOf, SentReceived
    <3>2. want[c] \in Origins /\ received[c] <= Len(Content[want[c]])
      BY <1>3, <2>2 DEF FetchOf, Named, Kept, Fetched, Asking, LookedUp
    <3>3. k \in 0 .. Len(Content[want[c]])
      BY <1>3, <3>1, <3>2, OriginsAssumption
    <3>4. Sent(wire[c], want[c])
      BY <3>1, <3>3, PartIs DEF Sent
    <3> QED BY <3>2, <3>4, OriginsAssumption DEF SentOne, Sent, PartOf
  <2>3. CASE pc[c] \in {"close", "done"}
    BY <1>3, <2>3 DEF AnswerOf, SentOne, Sent, PartOf
  <2> QED BY <1>1, <2>1, <2>2, <2>3 DEF Places, Live, Quiet, Unread, Fetched
<1>7. AnswerOf(c)'
  BY <1>4, <1>5, <1>6 DEF AnswerOf
<1> QED BY <1>2, <1>7 DEF AnswerInv

\* A line is sent on as it arrives.
LEMMA ReceiveAnswers ==
  ASSUME LinkInv, DataInv, AnswerInv, NEW c \in Conns, Receive(c) PROVE AnswerInv'
<1> DEFINE o == want[c]
           r == received[c] + 1
           line == Content[o][r]
<1>1. /\ pc[c] = "receive" /\ received[c] < Len(Content[o])
      /\ received' = [received EXCEPT ![c] = r] /\ Send(fd[c], <<line>>)
      /\ UNCHANGED <<pc, want, gone, found>>
  BY DEF Receive, store
<1>2. o \in Origins /\ Content[o] \in Seq(Lines) /\ received \in [Conns -> Nat]
  BY <1>1, OriginsAssumption DEF DataInv, DataTypes, FetchOf, Named, Asking, LookedUp
<1>3. /\ DOMAIN wire' = Conns
      /\ \A d \in Conns : d # c => wire'[d] = wire[d]
      /\ wire'[c] = IF c \in gone THEN wire[c] ELSE wire[c] \o <<line>>
  BY <1>1, SendIsOwn DEF Live
<1>4. PICK k \in 0 .. received[c] : /\ wire[c] = SubSeq(Content[o], 1, k)
                                    /\ c \notin gone => k = received[c]
  BY <1>1 DEF AnswerInv, AnswerOf, SentReceived, Fetched
<1>5. AnswerOf(c)'
  <2>1. received'[c] = r /\ r \in 1 .. Len(Content[o])
    BY <1>1, <1>2
  <2>2. CASE c \in gone
    <3>1. k \in 0 .. r
      BY <1>2, <1>4
    <3> QED BY <1>1, <1>3, <1>4, <2>1, <2>2, <3>1
        DEF AnswerOf, SentNothing, SentReceived, SentOne, HitIsPart, Quiet, Unread
  <2>3. CASE c \notin gone
    <3>1. SubSeq(Content[o], 1, received[c]) \o <<line>> = SubSeq(Content[o], 1, r)
      BY <1>2, <2>1, OneMore
    <3>2. wire'[c] = SubSeq(Content[o], 1, r)
      BY <1>3, <1>4, <2>3, <3>1, Zenon
    <3>3. r \in 0 .. r
      BY <2>1
    <3> QED BY <1>1, <2>1, <3>2, <3>3
        DEF AnswerOf, SentNothing, SentReceived, SentOne, HitIsPart, Quiet, Unread
  <2> QED BY <2>2, <2>3
<1>6. ASSUME NEW d \in Conns, d # c PROVE AnswerOf(d)'
  <2>1. AnswerOf(d) /\ wire'[d] = wire[d] /\ received'[d] = received[d]
    BY <1>1, <1>2, <1>3, <1>6 DEF AnswerInv
  <2> QED BY <1>1, <2>1 DEF AnswerOf, SentNothing, SentReceived, SentOne, HitIsPart
<1> QED BY <1>3, <1>5, <1>6 DEF AnswerInv

\* A thread sends its answer, an error or a hit, and is about to close.
LEMMA LastAnswer ==
  ASSUME LinkInv, AnswerInv, NEW c \in Conns, pc[c] \in {"request", "hit"}, NEW data,
         Send(fd[c], data), \E S : data \in Seq(S),
         \/ data = <<Error>>
         \/ want[c] # NULL /\ \E o \in Origins : HostOf[o] = HostOf[want[c]] /\ Sent(data, o),
         Goto(c, "close"), UNCHANGED <<want, received, found, gone>>
  PROVE  AnswerInv'
<1>1. pc' = [pc EXCEPT ![c] = "close"] /\ pc \in [Conns -> Places]
  BY DEF Goto, LinkInv, Types
<1>2. /\ DOMAIN wire' = Conns
      /\ \A d \in Conns : d # c => wire'[d] = wire[d]
      /\ wire'[c] = IF c \in gone THEN wire[c] ELSE wire[c] \o data
  BY SendIsOwn DEF Live
<1>3. wire[c] = <<>> /\ <<>> \o data = data
  BY DEF AnswerInv, AnswerOf, SentNothing, Quiet, Unread
<1>4. AnswerOf(c)'
  <2>1. pc'[c] = "close"
    BY <1>1
  <2>2. wire'[c] = <<>> \/ wire'[c] = data
    BY <1>2, <1>3
  <2>3. SentOne(c)'
    BY <2>1, <2>2 DEF SentOne, Sent, PartOf
  <2> QED BY <2>1, <2>3 DEF AnswerOf, SentNothing, SentReceived, HitIsPart, Quiet, Unread,
          Fetched
<1>5. ASSUME NEW d \in Conns, d # c PROVE AnswerOf(d)'
  <2>1. AnswerOf(d) /\ pc'[d] = pc[d] /\ wire'[d] = wire[d]
    BY <1>1, <1>2, <1>5 DEF AnswerInv
  <2> QED BY <2>1 DEF AnswerOf, SentNothing, SentReceived, SentOne, HitIsPart
<1> QED BY <1>2, <1>4, <1>5 DEF AnswerInv

LEMMA AnswerStep == LinkInv /\ DataInv /\ AnswerInv /\ [Next]_vars => AnswerInv'
<1> SUFFICES ASSUME LinkInv, DataInv, AnswerInv, [Next]_vars PROVE AnswerInv'
  OBVIOUS
<1>1. pc \in [Conns -> Places] /\ DOMAIN found = Conns
  BY DEF DataInv, DataTypes, LinkInv, Types
<1>2. ASSUME NEW c \in Conns, NEW there \in Places, Goto(c, there),
             there \in Quiet => pc[c] \in Quiet,
             there \in Fetched => pc[c] \in Fetched \cup {"send"},
             there # "hit",
             UNCHANGED <<want, received, wire, gone, found>>
      PROVE  AnswerInv'
  <2>1. pc'[c] = there
    BY <1>1, <1>2 DEF Goto
  <2>2. HitIsPart(c)'
    BY <1>2, <2>1 DEF HitIsPart
  <2> QED BY <1>2, <2>2, AnswerMoves
<1> USE DEF Places, Live, Unread, Quiet, Fetched
<1>3. ASSUME UNCHANGED <<pc, want, received, wire, found>>, gone \subseteq gone' PROVE AnswerInv'
  BY <1>3 DEF AnswerInv, AnswerOf, SentNothing, SentReceived, SentOne, HitIsPart, Sent, PartOf
<1>4. ASSUME NEW c \in Conns, Accept(c) \/ Spawn(c) \/ Drop(c) \/ Start(c) PROVE AnswerInv'
  <2>1. UNCHANGED <<want, received, wire, gone, found>>
    BY <1>4 DEF Accept, Spawn, Drop, Start, fetch, store
  <2>2. pc[c] \in Quiet
    BY <1>4 DEF Accept, Spawn, Drop, Start, LinkInv, LinksOf, MainIsBusy
  <2>3. \E there \in {"accepted", "start", "dropped", "request"} : Goto(c, there)
    BY <1>4 DEF Accept, Spawn, Drop, Start
  <2> QED BY <1>2, <2>1, <2>2, <2>3
<1>5. ASSUME NEW c \in Conns, SendRequest(c) \/ EndOfObject(c) \/ ReceiveFails(c) \/ Finish(c)
      PROVE  AnswerInv'
  BY <1>2, <1>5 DEF SendRequest, EndOfObject, ReceiveFails, Finish, fetch, store
<1>6. ASSUME NEW c \in Conns, Request(c) PROVE AnswerInv'
  <2>1. pc[c] = "request" /\ UNCHANGED <<want, received, gone, found>>
    BY <1>6 DEF Request, fetch, store
  <2>2. CASE Send(fd[c], <<Error>>) /\ Goto(c, "close")
    <3>1. <<Error>> \in Seq({Error})
      OBVIOUS
    <3> QED BY <2>1, <2>2, <3>1, LastAnswer
  <2>3. CASE UNCHANGED wire /\ \E there \in {"lookup", "close"} : Goto(c, there)
    BY <1>2, <2>1, <2>3
  <2> QED BY <1>6, <2>2, <2>3 DEF Request
<1>7. ASSUME NEW c \in Conns, Lookup(c) PROVE AnswerInv'
  <2> DEFINE there == IF found'[c].value = NULL THEN "connect" ELSE "hit"
  <2>1. /\ pc[c] = "lookup" /\ Goto(c, there)
        /\ UNCHANGED <<want, received, wire, gone>>
        /\ \A d \in Conns : d # c => found'[d] = found[d]
        /\ found'[c].value = Store!Newest(HostOf[want[c]])
    BY <1>1, <1>7 DEF Lookup, Store!Lookup, fetch
  <2>2. pc'[c] = there
    BY <1>1, <2>1 DEF Goto
  <2>3. HitIsPart(c)'
    BY <2>1, <2>2, CachedIsPart DEF HitIsPart, PartOf
  <2> QED BY <2>1, <2>3, AnswerMoves
<1>8. ASSUME NEW c \in Conns, Hit(c) PROVE AnswerInv'
  <2>1. /\ pc[c] = "hit" /\ Goto(c, "close")
        /\ UNCHANGED <<want, received, gone, found>>
        /\ \E data \in Strlen(found[c].value) : Send(fd[c], data)
    BY <1>8 DEF Hit, fetch, store
  <2>2. PICK data \in Strlen(found[c].value) : Send(fd[c], data)
    BY <2>1
  <2>3. PICK o \in Origins : HostOf[o] = HostOf[want[c]] /\ PartOf(found[c].value, o)
    BY <2>1 DEF AnswerInv, AnswerOf, HitIsPart
  <2>4. Sent(data, o) /\ \E S : data \in Seq(S)
    BY <2>3, StrlenIsSent
  <2>5. want[c] # NULL
    BY <2>1, OriginsAssumption DEF DataInv, FetchOf, Named, Asking
  <2> QED BY <2>1, <2>2, <2>3, <2>4, <2>5, LastAnswer
<1>9. ASSUME NEW c \in Conns, Connect(c) PROVE AnswerInv'
  <2>1. pc[c] = "connect" /\ UNCHANGED <<want, received, wire, gone, found>>
    BY <1>9 DEF Connect, fetch, store
  <2>2. UNCHANGED pc \/ \E there \in {"send", "close"} : Goto(c, there)
    BY <1>9 DEF Connect
  <2> QED BY <1>2, <1>3, <2>1, <2>2
<1>10. ASSUME NEW c \in Conns, Add(c) PROVE AnswerInv'
  <2>1. pc[c] = "add" /\ UNCHANGED <<want, received, wire, gone, found>>
    BY <1>10 DEF Add, Store!Add, fetch, store
  <2>2. UNCHANGED pc \/ Goto(c, "close")
    BY <1>10 DEF Add
  <2> QED BY <1>2, <1>3, <2>1, <2>2
<1>11. ASSUME NEW c \in Conns, Leave(c) PROVE AnswerInv'
  BY <1>3, <1>11 DEF Leave, fetch, store
<1>12. ASSUME NEW c \in Conns, RequestBreaksOff(c) PROVE AnswerInv'
  <2>1. UNCHANGED <<want, received, wire, gone, found>>
    BY <1>12 DEF RequestBreaksOff, fetch, store
  <2>2. UNCHANGED pc \/ Goto(c, "close")
    BY <1>12 DEF RequestBreaksOff
  <2> QED BY <1>2, <1>3, <2>1, <2>2
<1>13. ASSUME UNCHANGED vars PROVE AnswerInv'
  BY <1>3, <1>13 DEF vars
<1> QED BY <1>4, <1>5, <1>6, <1>7, <1>8, <1>9, <1>10, <1>11, <1>12, <1>13, ReceiveAnswers
    DEF Next, Main, Thread

\* What each client has been sent: an inductive invariant beside the other two.
THEOREM AnswersAreKept == Spec => []AnswerInv
BY LinkInit, LinkStep, DataInit, DataStep, AnswerInit, AnswerStep, PTL DEF Spec

\* A client is sent an error, or a part of one object of the host it named, in
\* order from the first line, never another client's; on a miss it has all that
\* was received so far.
THEOREM ClientsGetOneAnswer == Spec => []ClientGetsOneAnswer
<1>1. ASSUME LinkInv, DataInv, AnswerInv, NEW c \in Conns
      PROVE  /\ \/ wire[c] \in {<<>>, <<Error>>}
                \/ \E o \in Origins :
                     /\ want[c] # NULL /\ HostOf[o] = HostOf[want[c]]
                     /\ \/ IsPrefix(wire[c], Content[o])
                        \/ Last(wire[c]) = Junk /\ IsPrefix(Front(wire[c]), Content[o])
             /\ pc[c] \in Fetched /\ c \notin gone =>
                  wire[c] = SubSeq(Content[want[c]], 1, received[c])
  <2>1. AnswerOf(c) /\ FetchOf(c) /\ received[c] \in Nat /\ pc[c] \in Places
    BY <1>1 DEF AnswerInv, DataInv, DataTypes, LinkInv, Types
  <2>2. CASE pc[c] \in Quiet
    BY <2>1, <2>2 DEF AnswerOf, SentNothing, Quiet, Unread, Fetched
  <2>3. CASE pc[c] \in Fetched
    <3>1. PICK k \in 0 .. received[c] : /\ wire[c] = SubSeq(Content[want[c]], 1, k)
                                        /\ c \notin gone => k = received[c]
      BY <2>1, <2>3 DEF AnswerOf, SentReceived
    <3>2. want[c] \in Origins /\ received[c] <= Len(Content[want[c]])
      BY <2>1, <2>3 DEF FetchOf, Named, Kept, Fetched, Asking, LookedUp
    <3>3. k \in 0 .. Len(Content[want[c]])
      BY <2>1, <3>1, <3>2, OriginsAssumption
    <3>4. PartOf(wire[c], want[c])
      BY <3>1, <3>3, PartIs
    <3>5. IsPrefix(wire[c], Content[want[c]])
      BY <3>2, <3>4, PartIsLines
    <3>6. want[c] # NULL
      BY <3>2, OriginsAssumption
    <3> QED BY <3>1, <3>2, <3>5, <3>6
  <2>4. CASE pc[c] \in {"close", "done"} /\ wire[c] \notin {<<>>, <<Error>>}
    <3>1. PICK o \in Origins : HostOf[o] = HostOf[want[c]] /\ Sent(wire[c], o)
      BY <2>1, <2>4 DEF AnswerOf, SentOne
    <3>2. want[c] # NULL
      BY <2>1, <2>4 DEF AnswerOf, SentOne
    <3>3. CASE PartOf(wire[c], o)
      BY <2>4, <3>1, <3>2, <3>3, PartIsLines DEF Fetched
    <3>4. CASE \E p : PartOf(p, o) /\ wire[c] = Append(p, Junk)
      <4>1. PICK p : PartOf(p, o) /\ wire[c] = Append(p, Junk)
        BY <3>4
      <4>2. p \in Seq(Lines) /\ IsPrefix(p, Content[o])
        BY <4>1, PartIsLines
      <4>3. Last(wire[c]) = Junk /\ Front(wire[c]) = p
        <5>1. p \in Seq(Lines \cup {Junk})
          BY <4>2
        <5>2. Append(p, Junk)[Len(p) + 1] = Junk /\ Len(Append(p, Junk)) = Len(p) + 1
              /\ SubSeq(Append(p, Junk), 1, Len(p)) = p
          BY <5>1
        <5>3. Len(p) + 1 - 1 = Len(p)
          BY <4>2
        <5> QED BY <4>1, <5>2, <5>3 DEF Last, Front
      <4> QED BY <2>4, <3>1, <3>2, <4>2, <4>3 DEF Fetched
    <3> QED BY <3>1, <3>3, <3>4 DEF Sent
  <2>5. CASE pc[c] \in {"close", "done"} /\ wire[c] \in {<<>>, <<Error>>}
    BY <2>5 DEF Fetched
  <2> QED BY <2>1, <2>2, <2>3, <2>4, <2>5 DEF Places, Live, Quiet, Unread, Fetched
<1>2. LinkInv /\ DataInv /\ AnswerInv => ClientGetsOneAnswer
  BY <1>1 DEF ClientGetsOneAnswer
<1> QED BY <1>2, LinksAreKept, DataIsKept, AnswersAreKept, PTL
=============================================================================
