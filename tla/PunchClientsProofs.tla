------------------------- MODULE PunchClientsProofs -------------------------
(***************************************************************************)
(* The test programs for every number of hosts, clients and rooms: they    *)
(* behave as the peers of RoomServer, and the addresses they collect are   *)
(* where they look for them.                                               *)
(***************************************************************************)
EXTENDS PunchClients, RoomServerProofs

(* Each room has one host, and its clients join one after the other.       *)
ProgramOrder ==
    /\ "together" \notin Faults
    /\ \A g, h \in Hosts : RoomOf[g] = RoomOf[h] => g = h

(* What happens to a program's connection at the server: it neither leaves *)
(* of its own accord nor breaks down.                                      *)
Plays(p) ==
    \/ Handler(p)
    \/ Running /\ (Connect(p) \/ CloseWhenDismissed(p) \/ (p \in Hosts /\ HostStarts(p)))

LEMMA PlaysActs == \A p \in Peers : Plays(p) => Acts(p)
  BY DEF Plays, Acts, Peer

-----------------------------------------------------------------------------
(* What the server does, under that order                                  *)

(* Who joins a room will write behind the vector's last element.           *)
OneAtATime ==
    /\ \A c, d \in Clients : (Joins(c) /\ Joins(d) /\ RoomOf[c] = RoomOf[d]) => c = d
    /\ \A c \in Clients : pc[c] = "push" =>
          /\ found[c] \in Hosts /\ RoomOf[found[c]] = RoomOf[c]
          /\ slot[c] = Len(roomVector[found[c]])

(* A client of the test programs says nothing until it is sent away ...    *)
Quiet(c) ==
    /\ inbox[c] = <<>> /\ msgBuffer[c] = "ENTRY" /\ pc[c] # "remove"
    /\ peer[c] = "closed" => Dismissed(c)

(* ... and the vector of a room and the copy of it hold each client once   *)
(* that is there until then.                                               *)
Joined(c) ==
    /\ pc[c] # "none" /\ ~Joins(c)
    /\ Within(c) \/ Dismissed(c) \/ pc[c] = Crashed
MembersOf(h, clients) ==
    /\ IsInjective(clients)
    /\ \A c \in ToSet(clients) : RoomOf[c] = RoomOf[h] /\ Joined(c)
Members ==
    /\ \A h \in Hosts : MembersOf(h, roomVector[h])
    /\ \A h \in Hosts : pc[h] \in EndingAt => MembersOf(h, ending[h].clients)
    /\ \A p \in Peers : peer[p] # "reset"
    /\ \A c \in Clients : Quiet(c)

(* A host starts its room once, having been told nothing before ...        *)
Untold == {"none", "create", "switch", "end", "end_start"}
StartsOnce(h) ==
    /\ Len(inbox[h]) <= 1
    /\ Said(h) => inbox[h] = <<>>
    /\ ~Said(h) => told[h] = <<>>
    /\ pc[h] \in Untold => told[h] = <<>>

(* ... and is told the addresses and then to leave.                        *)
Addressing == {"end_start_clients", "end_leave", "end_host"}
Addressed(h) == \E s \in Seq(Clients) : IsInjective(s) /\ told[h] = Append(ForHost(h, s), Leave)
HostHears(h) ==
    /\ pc[h] \in Addressing => told[h] = ForHost(h, ending[h].clients)
    /\ pc[h] \notin Addressing => told[h] = <<>> \/ Addressed(h)

(* A client is told two addresses and then to leave, or nothing.           *)
ClientHears(h, c) ==
    /\ (told[h] = <<>> \/ pc[h] = "end_start_clients") => told[c] = <<>>
    /\ pc[h] = "end_leave" =>
          told[c] = IF c \in ToSet(ending[h].clients) THEN ForClient(h, c) ELSE <<>>
    /\ told[c] \in {<<>>, ForClient(h, c), Append(ForClient(h, c), Leave)}
NothingHeard(c) == (\A h \in Hosts : RoomOf[h] # RoomOf[c]) => told[c] = <<>>

RInv ==
    /\ RoomsOfHosts /\ OneAtATime /\ Members
    /\ \A h \in Hosts : StartsOnce(h) /\ HostHears(h)
    /\ \A h \in Hosts, c \in Clients : RoomOf[h] = RoomOf[c] => ClientHears(h, c)
    /\ \A c \in Clients : NothingHeard(c)

LEMMA InitRInv == Init => RInv
<1> SUFFICES ASSUME Init PROVE RInv
  OBVIOUS
<1>1. /\ \A p \in Peers : pc[p] = "none" /\ told[p] = <<>> /\ inbox[p] = <<>>
      /\ \A p \in Peers : peer[p] = "out" /\ msgBuffer[p] = "ENTRY"
      /\ \A h \in Hosts : roomVector[h] = <<>>
  BY DEF Init
<1>2. RoomsOfHosts
  BY InitNInv DEF NInv
<1>3. OneAtATime
  BY <1>1 DEF OneAtATime, Joins, Peers
<1>4. Members
  <2>1. IsInjective(<<>>) /\ ToSet(<<>>) = {}
    BY DEF IsInjective, ToSet
  <2>2. QED
    BY <1>1, <2>1 DEF Members, MembersOf, Quiet, EndingAt, Peers
<1>5. \A h \in Hosts : StartsOnce(h) /\ HostHears(h)
  BY <1>1 DEF StartsOnce, HostHears, Addressing, Said, Peers
<1>6. \A h \in Hosts, c \in Clients : ClientHears(h, c)
  BY <1>1 DEF ClientHears, Peers
<1>7. \A c \in Clients : NothingHeard(c)
  BY <1>1 DEF NothingHeard, Peers
<1>8. QED
  BY <1>2, <1>3, <1>4, <1>5, <1>6, <1>7 DEF RInv

(* A host finds its own room.                                              *)
LEMMA OwnRoomOnly ==
    ASSUME ProgramOrder, IInv, RoomsOfHosts, NEW h \in Hosts
    PROVE  /\ Subscript(h) \in Hosts => Subscript(h) = h
           /\ pc[h] \in EndingAt => ending[h].room = h
<1>1. TypeOK /\ EndingFoundRoom /\ RoomOf[h] \in Rooms /\ Null \notin Hosts
  BY PeersAssumption DEF IInv, Rooms, Peers
<1>2. Subscript(h) \in Hosts => RoomOf[Subscript(h)] = RoomOf[h]
  BY <1>1 DEF RoomsOfHosts, Subscript, Room
<1>3. pc[h] \in EndingAt => ending[h].room \in Hosts /\ RoomOf[ending[h].room] = RoomOf[h]
  BY <1>1 DEF RoomsOfHosts, EndingFoundRoom
<1>4. QED
  BY <1>2, <1>3 DEF ProgramOrder

(* The clients in its copy are there: nobody has been sent away yet.       *)
LEMMA CopyIsThere ==
    ASSUME ProgramOrder, IInv, RInv, NEW h \in Hosts, pc[h] \in Copying
    PROVE  \A c \in ToSet(ending[h].clients) : Alive(c)
<1>1. SUFFICES ASSUME NEW c \in ToSet(ending[h].clients) PROVE Alive(c)
  OBVIOUS
<1>2. c \in Clients /\ RoomOf[c] = RoomOf[h] /\ Joined(c)
  BY CopiedArePeers DEF IInv, RInv, Members, MembersOf, Copying, EndingAt
<1>3. /\ pc[h] # "end_leave" => told[c] = <<>>
      /\ pc[h] = "end_leave" => told[c] = ForClient(h, c)
  BY <1>2 DEF RInv, StartsOnce, ClientHears, Untold, Copying
<1>4. ToSet(<<>>) = {} /\ ToSet(ForClient(h, c)) = {Start(h), Start(c)}
  <2>1. h \in Peers /\ c \in Peers
    BY <1>2 DEF Peers
  <2>2. Start(h) \in Messages /\ Start(c) \in Messages
    BY <2>1 DEF Messages
  <2>3. QED
    BY <2>2, SaidTwice DEF ForClient, ToSet
<1>5. ~Dismissed(c)
  BY <1>3, <1>4 DEF Dismissed, Start, Leave
<1>6. QED
  BY <1>2, <1>5, PeersAssumption DEF Joined, Within, Alive, Places

(* So the handler that follows its pointers reads the addresses as they    *)
(* are, reaches everybody and goes on.                                     *)
LEMMA CopyIsFollowed ==
    ASSUME ProgramOrder, IInv, RInv, NEW h \in Hosts
    PROVE  /\ EndStartHost(h) =>
                 /\ told' = [told EXCEPT ![h] = told[h] \o ForHost(h, ending[h].clients)]
                 /\ Goto(h, "end_start_clients")
           /\ EndStartClients(h) =>
                 /\ told' = [p \in Peers |-> IF p \in ToSet(ending[h].clients)
                                             THEN told[p] \o ForClient(h, p) ELSE told[p]]
                 /\ Goto(h, "end_leave")
           /\ EndLeave(h) =>
                 /\ told' = [p \in Peers |-> IF p \in ToSet(ending[h].clients)
                                             THEN Append(told[p], Leave) ELSE told[p]]
                 /\ Goto(h, "end_host")
<1> DEFINE clients == ending[h].clients
<1>1. pc[h] \in Copying => /\ \A c \in ToSet(clients) : Alive(c)
                           /\ ~Dangling(clients)
                           /\ ending[h].room = h
  BY CopyIsThere, OwnRoomOnly DEF Dangling, RInv, Copying, EndingAt
<1>2. ASSUME EndStartHost(h)
      PROVE  /\ told' = [told EXCEPT ![h] = told[h] \o ForHost(h, clients)]
             /\ Goto(h, "end_start_clients")
  <2>1. /\ \A c \in ToSet(clients) : Alive(c)
        /\ ~Dangling(clients) /\ ending[h].room = h
    BY <1>1, <1>2 DEF EndStartHost, Copying
  <2>2. PICK read \in AddressesRead(clients) :
             told' = [told EXCEPT ![h] = told[h] \o ForHost(h, read)]
    BY <1>2, <2>1 DEF EndStartHost
  <2>3. clients \in Seq(Clients)
    BY DEF IInv, TypeOK, Peers
  <2>4. read \in [DOMAIN clients -> Peers]
    BY <2>2 DEF AddressesRead
  <2>5. \A i \in DOMAIN clients : read[i] = clients[i]
    BY <2>1, <2>2 DEF AddressesRead, ToSet
  <2>6. read = clients
    BY <2>3, <2>4, <2>5
  <2>7. Goto(h, "end_start_clients")
    BY <1>2, <2>1 DEF EndStartHost, AfterFollowing
  <2>8. QED
    BY <2>2, <2>6, <2>7
<1>3. ASSUME EndStartClients(h)
      PROVE  /\ told' = [p \in Peers |-> IF p \in ToSet(clients)
                                         THEN told[p] \o ForClient(h, p) ELSE told[p]]
             /\ Goto(h, "end_leave")
  BY <1>1, <1>3 DEF EndStartClients, TellClients, AfterFollowing, Copying
<1>4. ASSUME EndLeave(h)
      PROVE  /\ told' = [p \in Peers |-> IF p \in ToSet(clients)
                                         THEN Append(told[p], Leave) ELSE told[p]]
             /\ Goto(h, "end_host")
  BY <1>1, <1>4 DEF EndLeave, AfterFollowing, Copying
<1>5. QED
  BY <1>2, <1>3, <1>4

(* What is said to a host, and by whom ...                                 *)
LEMMA HostToldBy ==
    ASSUME ProgramOrder, IInv, RInv, NEW p \in Peers, Acts(p), NEW h \in Hosts
    PROVE  /\ (p = h /\ EndStartHost(h)) => told'[h] = told[h] \o ForHost(h, ending[h].clients)
           /\ (p = h /\ EndHost(h)) => told'[h] = Append(told[h], Leave)
           /\ ~(p = h /\ (EndStartHost(h) \/ EndHost(h))) => told'[h] = told[h]
<1>1. /\ TypeOK /\ h \in Peers /\ h \notin Clients
      /\ \A g \in Hosts : ToSet(ending[g].clients) \subseteq Clients
  BY PeersAssumption, CopiedArePeers DEF IInv, Peers
<1>2. \A g \in Hosts : EndStartHost(g) \/ EndHost(g) => ending[g].room = g
  BY OwnRoomOnly DEF EndStartHost, EndHost, EndingAt, RInv
<1>3. (p = h /\ EndStartHost(h)) => told'[h] = told[h] \o ForHost(h, ending[h].clients)
  <2>1. ASSUME EndStartHost(h)
        PROVE  told' = [told EXCEPT ![h] = told[h] \o ForHost(h, ending[h].clients)]
    BY <2>1, CopyIsFollowed
  <2>2. QED
    BY <1>1, <2>1 DEF TypeOK
<1>4. (p = h /\ EndHost(h)) => told'[h] = Append(told[h], Leave)
  <2>1. ASSUME EndHost(h) PROVE told' = [told EXCEPT ![h] = Append(told[h], Leave)]
    BY <1>2, <2>1 DEF EndHost
  <2>2. QED
    BY <1>1, <2>1 DEF TypeOK
<1>5. ASSUME ~(p = h /\ (EndStartHost(h) \/ EndHost(h))) PROVE told'[h] = told[h]
  <2>1. CASE p \in Hosts /\ (EndStartHost(p) \/ EndHost(p))
    <3>1. p # h /\ ending[p].room = p
      BY <1>2, <1>5, <2>1
    <3>2. \/ told' = [told EXCEPT ![p] = told[p] \o ForHost(p, ending[p].clients)]
          \/ told' = [told EXCEPT ![p] = Append(told[p], Leave)]
      BY <2>1, <3>1, CopyIsFollowed DEF EndHost
    <3>3. h \in DOMAIN told
      BY <1>1 DEF TypeOK
    <3>4. QED
      BY <3>1, <3>2, <3>3
  <2>2. CASE p \in Hosts /\ (EndStartClients(p) \/ EndLeave(p))
    BY <1>1, <2>2 DEF EndStartClients, TellClients, EndLeave
  <2>3. CASE UNCHANGED told
    BY <2>3
  <2>4. QED
    BY <2>1, <2>2, <2>3
       DEF Acts, Handler, HandlerStep, Peer, Receive, ReceiveError, ReceiveClosed, Switch, Exit,
           Create, EndRoom, EndDelete, Lookup, Check, Add, PushBack, RemoveClient,
           Connect, CloseWhenDismissed, LeaveAlone, Reset, HostStarts
<1>6. QED
  BY <1>3, <1>4, <1>5

(* ... and to a client: its host's handler alone speaks to it.             *)
LEMMA ClientToldBy ==
    ASSUME ProgramOrder, IInv, RInv, NEW p \in Peers, Acts(p), NEW c \in Clients
    PROVE  \/ /\ p \in Hosts /\ RoomOf[p] = RoomOf[c] /\ EndStartClients(p)
              /\ told'[c] = IF c \in ToSet(ending[p].clients)
                            THEN told[c] \o ForClient(p, c) ELSE told[c]
           \/ /\ p \in Hosts /\ RoomOf[p] = RoomOf[c] /\ EndLeave(p)
              /\ told'[c] = IF c \in ToSet(ending[p].clients)
                            THEN Append(told[c], Leave) ELSE told[c]
           \/ /\ ~(p \in Hosts /\ RoomOf[p] = RoomOf[c] /\ (EndStartClients(p) \/ EndLeave(p)))
              /\ told'[c] = told[c]
<1>1. TypeOK /\ c \in Peers /\ c \notin Hosts
  BY PeersAssumption DEF IInv, Peers
<1>2. ASSUME NEW h \in Hosts, pc[h] \in EndingAt
      PROVE  /\ ending[h].room = h
             /\ c \in ToSet(ending[h].clients) => RoomOf[h] = RoomOf[c]
  BY <1>2, OwnRoomOnly DEF RInv, Members, MembersOf
<1>3. CASE p \in Hosts /\ (EndStartHost(p) \/ EndHost(p))
  <2>1. ending[p].room = p
    BY <1>2, <1>3 DEF EndStartHost, EndHost, EndingAt
  <2>3. told'[c] = told[c]
    <3>1. \/ told' = [told EXCEPT ![p] = told[p] \o ForHost(p, ending[p].clients)]
          \/ told' = [told EXCEPT ![p] = Append(told[p], Leave)]
      BY <1>3, <2>1, CopyIsFollowed DEF EndHost
    <3>2. QED
      BY <1>1, <1>3, <3>1 DEF TypeOK
  <2>2. pc[p] \in {"end_start", "end_host"}
    BY <1>3 DEF EndStartHost, EndHost
  <2>4. QED
    BY <2>2, <2>3 DEF EndStartClients, TellClients, EndLeave
<1>4. CASE p \in Hosts /\ EndStartClients(p)
  <2>1. /\ pc[p] = "end_start_clients" /\ ending[p].room = p
        /\ told'[c] = IF c \in ToSet(ending[p].clients)
                      THEN told[c] \o ForClient(p, c) ELSE told[c]
    BY <1>1, <1>2, <1>4, CopyIsFollowed DEF EndStartClients, TellClients, EndingAt
  <2>2. RoomOf[p] # RoomOf[c] => told'[c] = told[c]
    BY <1>2, <1>4, <2>1 DEF EndingAt
  <2>3. QED
    BY <1>4, <2>1, <2>2
<1>5. CASE p \in Hosts /\ EndLeave(p)
  <2>1. /\ pc[p] = "end_leave"
        /\ told'[c] = IF c \in ToSet(ending[p].clients) THEN Append(told[c], Leave) ELSE told[c]
    BY <1>1, <1>5, CopyIsFollowed DEF EndLeave
  <2>2. RoomOf[p] # RoomOf[c] => told'[c] = told[c]
    BY <1>2, <1>5, <2>1 DEF EndingAt
  <2>3. QED
    BY <1>5, <2>1, <2>2
<1>6. CASE UNCHANGED told /\ ~(p \in Hosts /\ (EndStartClients(p) \/ EndLeave(p)))
  BY <1>6
<1>7. QED
  BY <1>3, <1>4, <1>5, <1>6
     DEF Acts, Handler, HandlerStep, Peer, Receive, ReceiveError, ReceiveClosed, Switch, Exit,
         Create, EndRoom, EndDelete, Lookup, Check, Add, PushBack, RemoveClient,
         Connect, CloseWhenDismissed, LeaveAlone, Reset, HostStarts

-----------------------------------------------------------------------------
(* The order of joining                                                    *)

LEMMA OneAtATimeKept ==
    ASSUME ProgramOrder, IInv, RInv, NEW p \in Peers, Acts(p)
    PROVE  OneAtATime'
<1>1. /\ TypeOK /\ OneAtATime /\ RoomsOfHosts
      /\ "together" \notin Faults /\ Absent \notin Hosts /\ Null \notin Hosts
  BY PeersAssumption DEF IInv, RInv, ProgramOrder, Peers
<1>2. \A c \in Clients : Joins(c)' => Joins(c) \/ (p = c /\ Connect(c))
  BY <1>1, JoinsBy
<1>3. ASSUME NEW c \in Clients, NEW d \in Clients, Joins(c)', Joins(d)', RoomOf[c] = RoomOf[d]
      PROVE  c = d
  <2>1. \A e \in Clients : p = e /\ Connect(e) => Joining(RoomOf[e]) = {}
    BY <1>1 DEF Connect
  <2>2. QED
    BY <1>1, <1>2, <1>3, <2>1, JoiningIs DEF OneAtATime
<1>4. ASSUME NEW c \in Clients, pc'[c] = "push"
      PROVE  /\ found'[c] \in Hosts /\ RoomOf[found'[c]] = RoomOf[c]
             /\ slot'[c] = Len(roomVector'[found'[c]])
  <2>1. CASE p = c /\ Add(c)
    <3>1. c \in Peers /\ RoomOf[c] \in Rooms /\ Subscript(c) \in Hosts \cup {Null}
      BY <1>1, SubscriptType DEF Peers, Rooms
    <3>2. Subscript(c) # Null
      BY <1>1, <1>4, <2>1, <3>1 DEF Add, Goto, TypeOK
    <3>3. RoomOf[Subscript(c)] = RoomOf[c]
      BY <1>1, <3>1, <3>2 DEF Subscript, Room, RoomsOfHosts
    <3>4. /\ found' = [found EXCEPT ![c] = Subscript(c)]
          /\ slot' = [slot EXCEPT ![c] = Len(roomVector[Subscript(c)])]
          /\ roomVector' = roomVector
      BY <2>1, <3>2 DEF Add
    <3>5. QED
      BY <1>1, <3>1, <3>2, <3>3, <3>4 DEF TypeOK
  <2>2. CASE /\ pc[c] = "push" /\ ~(p = c /\ PushBack(c))
             /\ found'[c] = found[c] /\ slot'[c] = slot[c]
    <3>1. /\ Joins(c) /\ found[c] \in Hosts /\ RoomOf[found[c]] = RoomOf[c]
          /\ slot[c] = Len(roomVector[found[c]])
      BY <1>1, <2>2 DEF Joins, OneAtATime
    <3>2. ASSUME p \in Clients, PushBack(p), found[p] = found[c] PROVE FALSE
      <4>1. pc[p] = "push" /\ Joins(p) /\ RoomOf[p] = RoomOf[c]
        BY <1>1, <3>1, <3>2 DEF PushBack, Joins, OneAtATime
      <4>2. QED
        BY <1>1, <2>2, <3>1, <3>2, <4>1 DEF OneAtATime
    <3>3. roomVector'[found[c]] = roomVector[found[c]]
      BY <1>1, <3>1, <3>2, VectorStep
    <3>4. QED
      BY <2>2, <3>1, <3>3
  <2>3. QED
    BY <1>1, <1>4, <2>1, <2>2, JoinsBy
<1>5. QED
  BY <1>3, <1>4 DEF OneAtATime

(* A handler starts once: its peer connects once, and no connection breaks. *)
LEMMA ConnectsOnce ==
    ASSUME ProgramOrder, IInv, RInv, NEW p \in Peers, Plays(p), NEW q \in Peers
    PROVE  /\ peer'[q] # "reset"
           /\ (p = q /\ Connect(q)) => pc[q] = "none"
<1>1. TypeOK /\ (peer[q] = "out" => pc[q] = "none") /\ peer[q] # "reset"
  BY DEF IInv, NoHandlerYet, RInv, Members
<1>2. CASE p # q
  BY <1>1, <1>2, PlaysActs, ActsAlone
<1>3. CASE p = q /\ (Connect(q) \/ CloseWhenDismissed(q) \/ HostStarts(q))
  BY <1>1, <1>3 DEF Connect, CloseWhenDismissed, HostStarts, Say, TypeOK
<1>4. CASE p = q /\ Handler(q)
  <2>1. peer' = peer
    BY <1>4 DEF Handler, HandlerStep, Receive, ReceiveError, ReceiveClosed, Switch, Exit,
            Create, EndRoom, EndStartHost, EndStartClients, TellClients, EndLeave, EndHost,
            EndDelete, Lookup, Check, Add, PushBack, RemoveClient, peerVars
  <2>2. QED
    BY <1>1, <1>4, <2>1 DEF Connect
<1>5. QED
  BY <1>2, <1>3, <1>4 DEF Plays

(* A client stays quiet, and within until it is sent away.                 *)
LEMMA QuietKept ==
    ASSUME ProgramOrder, IInv, DInv, RInv, NEW p \in Peers, Plays(p), NEW c \in Clients
    PROVE  Quiet(c)' /\ (Joined(c) => Joined(c)')
<1>1. /\ TypeOK /\ c \in Peers /\ c \notin Hosts /\ Quiet(c) /\ Acts(p)
      /\ (Dismissed(c) => isLeaving[c]) /\ peer[c] # "reset"
      /\ Crashed # "remove" /\ Crashed # "none"
  BY PeersAssumption, PlaysActs
     DEF IInv, RInv, Members, DInv, DismissedIsLeaving, Peers, Places
<1>2. Dismissed(c) => Dismissed(c)'
  BY <1>1, DismissedBy
<1>3. Quiet(c)'
  <2>1. CASE p # c
    BY <1>1, <1>2, <2>1, ActsAlone DEF Quiet
  <2>2. CASE p = c /\ (Lookup(c) \/ Add(c) \/ PushBack(c) \/ Check(c))
    <3>1. PICK l \in {"check", "loop", "push", "gone", "add", Crashed} : Goto(c, l)
      BY <2>2 DEF Lookup, Add, PushBack, Check
    <3>2. UNCHANGED <<inbox, msgBuffer, peer>>
      BY <2>2 DEF Lookup, Add, PushBack, Check, localVars, peerVars
    <3>3. QED
      BY <1>1, <1>2, <3>1, <3>2 DEF Quiet, Goto, TypeOK
  <2>3. CASE p = c /\ (ReceiveClosed(c) \/ Switch(c) \/ Exit(c))
    <3>1. pc'[c] \in {"exit", "loop", "gone"}
      BY <1>1, <2>3 DEF ReceiveClosed, Switch, Exit, Quiet, Goto, TypeOK
    <3>2. UNCHANGED <<inbox, msgBuffer, peer>>
      BY <2>3 DEF ReceiveClosed, Switch, Exit, localVars, peerVars
    <3>3. QED
      BY <1>1, <1>2, <3>1, <3>2 DEF Quiet
  <2>4. ~Receive(c) /\ ~ReceiveError(c) /\ ~RemoveClient(c)
    BY <1>1 DEF Receive, ReceiveError, RemoveClient, Quiet
  <2>5. CASE p = c /\ Connect(c)
    BY <1>1, <2>5 DEF Connect, Quiet, Goto, TypeOK, localVars
  <2>6. CASE p = c /\ CloseWhenDismissed(c)
    BY <1>1, <1>2, <2>6 DEF CloseWhenDismissed, Quiet, TypeOK, localVars
  <2>7. QED
    BY <1>1, <2>1, <2>2, <2>3, <2>4, <2>5, <2>6 DEF Plays, Handler, HandlerStep
<1>4. ASSUME Joined(c) PROVE Joined(c)'
  <2>1. pc[c] # Crashed
    BY <1>1 DEF Plays, Handler, Running
  <2>5. pc'[c] # "none" /\ ~Joins(c)'
    <3>1. ~(p = c /\ Connect(c))
      BY <1>1, <1>4, ConnectsOnce DEF Joined
    <3>2. pc'[c] = pc[c] \/ pc'[c] # "none"
      <4>1. CASE p = c /\ Handler(c)
        <5>1. PICK l \in {"check", "loop", "push", "gone", "add", "switch", "remove", "exit",
                          Crashed} : Goto(c, l)
          BY <1>1, <4>1
             DEF Handler, HandlerStep, Receive, ReceiveError, ReceiveClosed, Switch, Exit,
                 Lookup, Check, Add, PushBack, RemoveClient
        <5>2. QED
          BY <1>1, <5>1 DEF Goto, TypeOK
      <4>2. CASE p = c /\ (Connect(c) \/ CloseWhenDismissed(c))
        BY <3>1, <4>2 DEF CloseWhenDismissed
      <4>3. CASE p # c
        BY <1>1, <4>3, ActsAlone
      <4>4. QED
        BY <1>1, <4>1, <4>2, <4>3 DEF Plays
    <3>3. QED
      BY <1>1, <1>4, <3>1, <3>2, JoinsBy DEF Joined
  <2>2. CASE Dismissed(c)
    BY <1>2, <2>2, <2>5 DEF Joined
  <2>3. CASE Within(c) /\ ~Dismissed(c)
    <3>1. CASE p # c
      BY <1>1, <2>3, <2>5, <3>1, ActsAlone DEF Joined, Within
    <3>2. CASE p = c /\ Handler(c)
      <4>1. pc[c] \in {"loop", "switch"} /\ inbox[c] = <<>> /\ msgBuffer[c] = "ENTRY"
            /\ peer[c] # "closed"
        BY <1>1, <2>3 DEF Quiet, Within
      <4>2. Switch(c)
        BY <1>1, <3>2, <4>1
           DEF Handler, HandlerStep, Receive, ReceiveError, ReceiveClosed, Exit,
               Lookup, Check, Add, PushBack, RemoveClient
      <4>3. QED
        BY <1>1, <2>5, <4>1, <4>2 DEF Switch, Goto, TypeOK, Joined, Within
    <3>3. CASE p = c /\ (Connect(c) \/ CloseWhenDismissed(c))
      <4>1. ~Connect(c)
        BY <1>1, <2>3, <3>3, ConnectsOnce DEF Within
      <4>2. QED
        BY <2>3, <2>5, <3>3, <4>1 DEF CloseWhenDismissed, Joined, Within
    <3>4. QED
      BY <1>1, <3>1, <3>2, <3>3 DEF Plays
  <2>4. QED
    BY <1>4, <2>1, <2>2, <2>3 DEF Joined
<1>5. QED
  BY <1>3, <1>4

(* One client more, which was not there before.                            *)
LEMMA OneMore ==
    ASSUME NEW s \in Seq(Clients), NEW c \in Clients, IsInjective(s), c \notin ToSet(s)
    PROVE  IsInjective(Append(s, c))
<1>1. /\ Len(s) \in Nat /\ DOMAIN s = 1..Len(s) /\ DOMAIN Append(s, c) = 1..(Len(s) + 1)
      /\ \A i \in 1..Len(s) : Append(s, c)[i] = s[i]
      /\ Append(s, c)[Len(s) + 1] = c
  OBVIOUS
<1>2. \A i \in 1..Len(s) : s[i] # c
  BY <1>1 DEF ToSet
<1>3. \A i, j \in 1..Len(s) : s[i] = s[j] => i = j
  BY <1>1 DEF IsInjective
<1>4. SUFFICES ASSUME NEW i \in 1..(Len(s) + 1), NEW j \in 1..(Len(s) + 1),
                      Append(s, c)[i] = Append(s, c)[j]
               PROVE  i = j
  BY <1>1 DEF IsInjective
<1>5. i \in 1..Len(s) \/ i = Len(s) + 1
  BY <1>1
<1>6. j \in 1..Len(s) \/ j = Len(s) + 1
  BY <1>1
<1>7. QED
  BY <1>1, <1>2, <1>3, <1>4, <1>5, <1>6

LEMMA MembersKept ==
    ASSUME ProgramOrder, IInv, DInv, RInv, NEW p \in Peers, Plays(p)
    PROVE  Members'
<1>1. TypeOK /\ OneAtATime /\ Members /\ RoomsOfHosts /\ Acts(p)
  BY PlaysActs DEF IInv, RInv
<1>2. ASSUME NEW c \in Clients, Joined(c) PROVE Joined(c)'
  BY <1>2, QuietKept
<1>3. ASSUME NEW h \in Hosts, NEW s, MembersOf(h, s), ToSet(s) \subseteq Clients
      PROVE  /\ IsInjective(s)
             /\ \A c \in ToSet(s) : RoomOf[c] = RoomOf[h] /\ Joined(c)'
  BY <1>2, <1>3 DEF MembersOf
<1>4. ASSUME NEW h \in Hosts
      PROVE  /\ IsInjective(roomVector'[h])
             /\ \A c \in ToSet(roomVector'[h]) : RoomOf[c] = RoomOf[h] /\ Joined(c)'
  <2>1. /\ MembersOf(h, roomVector[h]) /\ roomVector[h] \in Seq(Clients)
        /\ ToSet(roomVector[h]) \subseteq Clients
    BY <1>1 DEF Members, TypeOK, ToSet
  <2>2. CASE roomVector'[h] = roomVector[h]
    BY <1>3, <2>1, <2>2
  <2>3. CASE p \in Clients /\ PushBack(p) /\ found[p] = h
    <3>1. pc[p] = "push" /\ Joins(p) /\ RoomOf[p] = RoomOf[h] /\ slot[p] = Len(roomVector[h])
      BY <1>1, <2>3 DEF PushBack, Joins, OneAtATime
    <3>2. /\ roomVector'[h] = Append(roomVector[h], p)
          /\ ToSet(roomVector'[h]) = ToSet(roomVector[h]) \cup {p}
      BY <1>1, <2>3, <3>1, PushedAtTheEnd
    <3>3. p \notin ToSet(roomVector[h])
      BY <2>1, <3>1 DEF MembersOf, Joined
    <3>4. IsInjective(roomVector'[h])
      BY <2>1, <2>3, <3>2, <3>3, OneMore DEF MembersOf
    <3>5. Joined(p)'
      BY <1>1, <2>3, PeersAssumption DEF PushBack, Goto, TypeOK, Joined, Joins, Within, Places
    <3>6. QED
      BY <1>3, <2>1, <3>1, <3>2, <3>4, <3>5
  <2>4. QED
    BY <1>1, <2>2, <2>3, VectorStep
<1>5. ASSUME NEW h \in Hosts, pc'[h] \in EndingAt
      PROVE  /\ IsInjective(ending'[h].clients)
             /\ \A c \in ToSet(ending'[h].clients) : RoomOf[c] = RoomOf[h] /\ Joined(c)'
  <2>1. CASE pc[h] \in EndingAt /\ ending'[h] = ending[h]
    BY <1>1, <1>3, <2>1, CopiedArePeers DEF Members
  <2>2. CASE Subscript(h) \in Hosts /\ ending'[h].clients = roomVector[Subscript(h)]
    <3>1. Subscript(h) = h
      BY <1>1, <2>2, OwnRoomOnly
    <3>2. MembersOf(h, roomVector[h]) /\ ToSet(roomVector[h]) \subseteq Clients
      BY <1>1 DEF Members, TypeOK, ToSet
    <3>3. QED
      BY <1>3, <2>2, <3>1, <3>2
  <2>3. QED
    BY <1>1, <1>5, <2>1, <2>2, EndingBy DEF EndingAt, Copying, EndLeave
<1>6. QED
  BY <1>4, <1>5, ConnectsOnce, QuietKept DEF Members, MembersOf

-----------------------------------------------------------------------------
(* What a host is told                                                     *)

LEMMA ForHostSpeaks ==
    ASSUME NEW h \in Hosts, NEW s \in Seq(Clients)
    PROVE  /\ ForHost(h, s) \in Seq(Messages) /\ Len(ForHost(h, s)) = Len(s) + 1
           /\ ForHost(h, s)[1] = Start(h)
           /\ \A i \in 1..Len(s) : ForHost(h, s)[i + 1] = Start(s[i])
           /\ ForHost(h, s) # <<>>
<1> DEFINE others == [i \in DOMAIN s |-> Start(s[i])]
<1>1. /\ DOMAIN s = 1..Len(s) /\ Len(s) \in Nat
      /\ \A i \in 1..Len(s) : s[i] \in Clients
  OBVIOUS
<1>2. /\ others \in Seq(Messages) /\ Len(others) = Len(s)
      /\ \A i \in 1..Len(s) : others[i] = Start(s[i])
  BY <1>1 DEF Messages, Peers
<1>3. /\ <<Start(h)>> \in Seq(Messages) /\ Len(<<Start(h)>>) = 1
      /\ <<Start(h)>>[1] = Start(h)
  BY DEF Messages, Peers
<1> HIDE DEF others
<1>4. ForHost(h, s) = <<Start(h)>> \o others
  BY DEF ForHost, others
<1>5. \A i \in 1..Len(s) : (<<Start(h)>> \o others)[i + 1] = others[i]
  BY <1>1, <1>2, <1>3
<1>6. /\ ForHost(h, s) \in Seq(Messages) /\ Len(ForHost(h, s)) = Len(s) + 1
      /\ ForHost(h, s)[1] = Start(h)
  BY <1>1, <1>2, <1>3, <1>4
<1>7. ForHost(h, s) # <<>>
  BY <1>1, <1>6
<1>8. QED
  BY <1>2, <1>4, <1>5, <1>6, <1>7

(* Steps in which a host is told nothing and its buffers stay.             *)
LEMMA HostQuiet ==
    ASSUME NEW h \in Hosts, StartsOnce(h), HostHears(h),
           told'[h] = told[h], msgBuffer'[h] = msgBuffer[h], inbox'[h] = inbox[h],
           \/ pc'[h] = pc[h] /\ ending'[h] = ending[h]
           \/ pc[h] \notin Addressing /\ pc'[h] \notin (Addressing \cup Untold)
           \/ pc[h] \in Untold /\ pc'[h] \notin Addressing
           \/ pc[h] \in Addressing /\ pc'[h] \in Addressing /\ ending'[h] = ending[h]
    PROVE  StartsOnce(h)' /\ HostHears(h)'
<1>1. StartsOnce(h)'
  BY DEF StartsOnce, Said, Untold, Addressing
<1>2. Addressed(h) => Addressed(h)'
  BY DEF Addressed
<1>3. HostHears(h)'
  BY <1>2 DEF HostHears, StartsOnce, Untold, Addressing
<1>4. QED
  BY <1>1, <1>3

LEMMA HostSpeaks ==
    ASSUME ProgramOrder, IInv, DInv, RInv, NEW h \in Hosts, Plays(h), ~Handler(h)
    PROVE  StartsOnce(h)' /\ HostHears(h)'
<1>1. /\ TypeOK /\ h \in Peers /\ h \notin Clients /\ StartsOnce(h) /\ HostHears(h)
      /\ Acts(h) /\ told' = told
  BY PeersAssumption, PlaysActs
     DEF IInv, RInv, Peers, Plays, Connect, CloseWhenDismissed, HostStarts
<1>2. CASE Connect(h)
  <2>1. pc[h] = "none"
    BY <1>1, <1>2, ConnectsOnce
  <2>2. pc'[h] = "create" /\ UNCHANGED <<msgBuffer, inbox>>
    BY <1>1, <1>2 DEF Connect, Goto, TypeOK, localVars
  <2>3. QED
    BY <1>1, <2>1, <2>2, HostQuiet DEF Untold, Addressing
<1>3. CASE CloseWhenDismissed(h)
  BY <1>1, <1>3, HostQuiet DEF CloseWhenDismissed, localVars
<1>4. CASE HostStarts(h)
  <2>1. /\ inbox'[h] = Append(<<>>, "START_PUNCH") /\ ~Said(h)
        /\ UNCHANGED <<pc, ending, msgBuffer>>
    BY <1>1, <1>4 DEF HostStarts, Say, Said, TypeOK, localVars
  <2>2. Len(inbox'[h]) <= 1
    BY <2>1
  <2>3. StartsOnce(h)'
    BY <1>1, <2>1, <2>2 DEF StartsOnce, Said
  <2>4. HostHears(h)'
    BY <1>1, <2>1 DEF HostHears, Addressed
  <2>5. QED
    BY <2>3, <2>4
<1>5. QED
  BY <1>1, <1>2, <1>3, <1>4 DEF Plays

LEMMA HostHandled ==
    ASSUME ProgramOrder, IInv, DInv, RInv, NEW h \in Hosts, Handler(h)
    PROVE  StartsOnce(h)' /\ HostHears(h)'
<1>1. /\ TypeOK /\ h \in Peers /\ h \notin Clients /\ StartsOnce(h) /\ HostHears(h)
      /\ HostStays(h) /\ (Dismissed(h) => isLeaving[h])
      /\ peer[h] # "reset" /\ Acts(h)
      /\ Crashed \notin Addressing /\ Crashed \notin Untold
  BY PeersAssumption
     DEF IInv, DInv, DismissedIsLeaving, RInv, Members, Peers, Acts, Addressing, Untold, Places
<1>2. ending[h].clients \in Seq(Clients)
  BY <1>1 DEF TypeOK
<1>3. ~EndStartHost(h) /\ ~EndHost(h) => told'[h] = told[h]
  BY <1>1, HostToldBy DEF RInv
<1>4. CASE Receive(h)
  <2>1. /\ inbox[h] \in Seq({"LEAVE", "START_PUNCH"}) /\ inbox[h] # <<>> /\ Len(inbox[h]) <= 1
        /\ msgBuffer'[h] = Head(inbox[h]) /\ inbox'[h] = Tail(inbox[h])
        /\ pc[h] = "loop" /\ pc'[h] = "switch"
    BY <1>1, <1>4 DEF Receive, TypeOK, Goto, StartsOnce
  <2>2. inbox'[h] = <<>> /\ Len(inbox'[h]) <= 1
    BY <2>1
  <2>3. msgBuffer'[h] = "START_PUNCH"
    BY <1>1, <2>1 DEF HostStays
  <2>4. told[h] = <<>> /\ told'[h] = <<>>
    <3>1. ~EndStartHost(h) /\ ~EndHost(h)
      BY <2>1 DEF EndStartHost, EndHost
    <3>2. QED
      BY <1>1, <1>3, <2>1, <3>1 DEF StartsOnce
  <2>5. QED
    BY <2>1, <2>2, <2>3, <2>4 DEF StartsOnce, HostHears, Said, Addressing, Untold
<1>5. CASE EndStartHost(h)
  <2>6. pc[h] = "end_start" /\ UNCHANGED <<ending, msgBuffer, inbox>>
    BY <1>5 DEF EndStartHost, localVars, peerVars
  <2>1. /\ pc[h] = "end_start" /\ pc'[h] = "end_start_clients"
        /\ UNCHANGED <<ending, msgBuffer, inbox>>
    <3>1. Goto(h, "end_start_clients")
      BY <1>5, CopyIsFollowed
    <3>2. QED
      BY <1>1, <2>6, <3>1 DEF Goto, TypeOK
  <2>2. told[h] = <<>> /\ Said(h)
    BY <1>1, <2>1 DEF StartsOnce, Untold, HostStays, InEndRoom, Said
  <2>3. told'[h] = <<>> \o ForHost(h, ending[h].clients)
    BY <1>1, <1>5, <2>2, HostToldBy DEF RInv
  <2>4. told'[h] = ForHost(h, ending[h].clients)
    BY <1>2, <2>3, ForHostSpeaks
  <2>5. QED
    BY <1>1, <2>1, <2>2, <2>4 DEF StartsOnce, HostHears, Said, Addressing, Untold
<1>6. CASE EndHost(h)
  <2>1. /\ pc[h] = "end_host" /\ pc'[h] \in {"end_delete", Crashed}
        /\ UNCHANGED <<ending, msgBuffer, inbox>>
    BY <1>1, <1>6 DEF EndHost, Goto, TypeOK, localVars, peerVars
  <2>2. told'[h] = Append(ForHost(h, ending[h].clients), Leave)
    BY <1>1, <1>6, <2>1, HostToldBy DEF RInv, HostHears, Addressing
  <2>3. IsInjective(ending[h].clients) /\ Said(h)
    BY <1>1, <2>1 DEF RInv, Members, MembersOf, EndingAt, HostStays, InEndRoom, Said
  <2>4. Addressed(h)'
    BY <1>2, <2>2, <2>3 DEF Addressed
  <2>5. QED
    BY <1>1, <2>1, <2>3, <2>4 DEF StartsOnce, HostHears, Said, Addressing, Untold
<1>7. CASE /\ ~EndStartHost(h) /\ ~EndHost(h) /\ ~Receive(h)
  <2>1. told'[h] = told[h]
    BY <1>3, <1>7
  <2>2. CASE Create(h) \/ Exit(h)
    <3>1. /\ pc[h] \notin Addressing /\ pc'[h] \in {"loop", "gone"}
          /\ UNCHANGED <<msgBuffer, inbox>>
      BY <1>1, <2>2 DEF Create, Exit, Goto, TypeOK, localVars, peerVars, Addressing
    <3>2. QED
      BY <1>1, <2>1, <3>1, HostQuiet DEF Addressing, Untold
  <2>3. CASE ReceiveError(h)
    BY <1>1, <2>3 DEF ReceiveError
  <2>4. CASE ReceiveClosed(h)
    <3>1. /\ pc[h] = "loop" /\ pc'[h] = "exit" /\ UNCHANGED <<msgBuffer, inbox>>
      BY <1>1, <2>4 DEF ReceiveClosed, HostStays, Goto, TypeOK, peerVars
    <3>2. QED
      BY <1>1, <2>1, <3>1, HostQuiet DEF Addressing, Untold
  <2>5. CASE Switch(h)
    <3>1. /\ pc[h] = "switch" /\ pc'[h] \in {"loop", "end"} /\ UNCHANGED <<msgBuffer, inbox>>
      BY <1>1, <2>5 DEF Switch, CallEndRoom, Goto, TypeOK, peerVars
    <3>2. QED
      BY <1>1, <2>1, <3>1, HostQuiet DEF Addressing, Untold
  <2>6. CASE EndRoom(h)
    <3>1. /\ pc[h] = "end" /\ pc'[h] \in {Crashed, "end_start"} /\ UNCHANGED <<msgBuffer, inbox>>
      BY <1>1, <2>6 DEF EndRoom, HostStays, Goto, TypeOK, peerVars
    <3>2. QED
      BY <1>1, <2>1, <3>1, HostQuiet DEF Addressing, Untold
  <2>7. CASE EndStartClients(h) \/ EndLeave(h)
    <3>1. /\ pc[h] \in Addressing /\ UNCHANGED <<ending, msgBuffer, inbox>>
      BY <2>7 DEF EndStartClients, TellClients, EndLeave, localVars, peerVars, Addressing
    <3>3. Goto(h, "end_leave") \/ Goto(h, "end_host")
      BY <2>7, CopyIsFollowed
    <3>4. pc'[h] \in Addressing
      BY <1>1, <3>3 DEF Goto, TypeOK, Addressing
    <3>2. QED
      BY <1>1, <2>1, <3>1, <3>4, HostQuiet
  <2>8. CASE EndDelete(h)
    <3>1. /\ pc[h] = "end_delete" /\ pc'[h] \in {"loop", "exit"} /\ UNCHANGED <<msgBuffer, inbox>>
      BY <1>1, <2>8 DEF EndDelete, Goto, TypeOK, peerVars
    <3>2. QED
      BY <1>1, <2>1, <3>1, HostQuiet DEF Addressing, Untold
  <2>9. QED
    BY <1>1, <1>7, <2>2, <2>3, <2>4, <2>5, <2>6, <2>7, <2>8 DEF Handler, HandlerStep
<1>8. QED
  BY <1>4, <1>5, <1>6, <1>7

LEMMA HostKept ==
    ASSUME ProgramOrder, IInv, DInv, RInv, NEW p \in Peers, Plays(p), NEW h \in Hosts
    PROVE  StartsOnce(h)' /\ HostHears(h)'
<1>1. TypeOK /\ h \in Peers /\ StartsOnce(h) /\ HostHears(h) /\ Acts(p)
  BY PlaysActs DEF IInv, RInv, Peers
<1>2. CASE p # h
  <2>1. told'[h] = told[h]
    BY <1>1, <1>2, HostToldBy DEF RInv
  <2>2. QED
    BY <1>1, <1>2, <2>1, ActsAlone, HostQuiet
<1>3. QED
  BY <1>2, HostSpeaks, HostHandled

-----------------------------------------------------------------------------
(* What a client is told                                                   *)

(* Where a handler inside endRoom() comes from.                            *)
LEMMA AddressingFrom ==
    ASSUME IInv, DInv, NEW p \in Peers, Acts(p), NEW h \in Hosts
    PROVE  /\ pc'[h] = "end_start_clients" =>
                 pc[h] = "end_start_clients" \/ (p = h /\ EndStartHost(h))
           /\ pc'[h] = "end_leave" =>
                 /\ pc[h] = "end_leave" \/ (p = h /\ EndStartClients(h))
                 /\ ending'[h] = ending[h]
<1>1. /\ TypeOK /\ h \in Peers /\ h \notin Clients /\ HostStays(h)
      /\ Crashed # "end_start_clients" /\ Crashed # "end_leave"
  BY PeersAssumption DEF IInv, DInv, Peers, Places
<1>2. CASE p # h
  BY <1>1, <1>2, ActsAlone
<1> USE DEF Goto, TypeOK
<1>3. CASE p = h /\ EndRoom(h)
  BY <1>1, <1>3 DEF EndRoom, HostStays
<1>4. CASE p = h /\ (EndStartHost(h) \/ EndStartClients(h) \/ EndLeave(h) \/ EndHost(h)
                       \/ EndDelete(h))
  <2>1. CASE EndDelete(h)
    BY <1>1, <1>4, <2>1 DEF EndDelete
  <2>2. CASE EndStartHost(h) \/ EndStartClients(h) \/ EndLeave(h)
    <3>1. /\ pc[h] = "end_start" => \E l \in {"end_start_clients", Crashed} : Goto(h, l)
          /\ pc[h] = "end_start_clients" => \E l \in {"end_leave", Crashed} : Goto(h, l)
          /\ pc[h] = "end_leave" => \E l \in {"end_host", Crashed} : Goto(h, l)
          /\ pc[h] \in {"end_start", "end_start_clients", "end_leave"}
          /\ ending' = ending
      BY <2>2, FollowsOn
    <3>2. /\ pc[h] = "end_start" => EndStartHost(h)
          /\ pc[h] = "end_start_clients" => EndStartClients(h)
      BY <2>2 DEF EndStartHost, EndStartClients, TellClients, EndLeave
    <3>3. QED
      BY <1>1, <1>4, <3>1, <3>2
  <2>3. CASE EndHost(h)
    BY <1>1, <1>4, <2>3 DEF EndHost, localVars
  <2>4. QED
    BY <1>4, <2>1, <2>2, <2>3
<1>5. CASE p = h /\ (Receive(h) \/ ReceiveError(h) \/ ReceiveClosed(h) \/ Switch(h) \/ Exit(h)
                       \/ Create(h))
  BY <1>1, <1>5
     DEF Receive, ReceiveError, ReceiveClosed, Switch, Exit, Create, CallEndRoom
<1>6. CASE p = h /\ Connect(h)
  BY <1>1, <1>6 DEF Connect
<1>7. CASE p = h /\ (CloseWhenDismissed(h) \/ LeaveAlone(h) \/ Reset(h) \/ HostStarts(h))
  BY <1>1, <1>7 DEF CloseWhenDismissed, LeaveAlone, Reset, HostStarts, localVars
<1>8. QED
  BY <1>1, <1>2, <1>3, <1>4, <1>5, <1>6, <1>7 DEF Acts, Peer, Handler, HandlerStep

LEMMA ClientKept ==
    ASSUME ProgramOrder, IInv, DInv, RInv, NEW p \in Peers, Acts(p),
           NEW h \in Hosts, NEW c \in Clients, RoomOf[h] = RoomOf[c]
    PROVE  ClientHears(h, c)'
<1>1. /\ TypeOK /\ h \in Peers /\ StartsOnce(h) /\ HostHears(h) /\ ClientHears(h, c)
      /\ ending[h].clients \in Seq(Clients) /\ told[h] \in Seq(Messages)
      /\ \A g \in Hosts : RoomOf[g] = RoomOf[c] => g = h
  BY DEF IInv, RInv, Peers, TypeOK, ProgramOrder, Messages
<1>2. pc[h] \in Addressing => told[h] # <<>>
  BY <1>1, ForHostSpeaks DEF HostHears
<1>3. CASE p = h /\ EndStartClients(h)
  <2>7. pc[h] = "end_start_clients" /\ ending'[h] = ending[h]
    BY <1>3 DEF EndStartClients, TellClients, localVars
  <2>1. /\ pc[h] = "end_start_clients" /\ pc'[h] = "end_leave" /\ ending'[h] = ending[h]
    <3>1. Goto(h, "end_leave")
      BY <1>3, CopyIsFollowed
    <3>2. QED
      BY <1>1, <2>7, <3>1 DEF Goto, TypeOK
  <2>2. told'[h] # <<>>
    <3>1. ~EndStartHost(h) /\ ~EndHost(h)
      BY <2>1 DEF EndStartHost, EndHost
    <3>2. QED
      BY <1>2, <1>3, <2>1, <3>1, HostToldBy DEF RInv, Addressing
  <2>3. told[c] = <<>>
    BY <1>1, <2>1 DEF ClientHears
  <2>4. told'[c] = IF c \in ToSet(ending[h].clients) THEN <<>> \o ForClient(h, c) ELSE <<>>
    <3>1. ~EndLeave(h)
      BY <2>1 DEF EndLeave
    <3>2. QED
      BY <1>3, <2>3, <3>1, ClientToldBy
  <2>5. <<>> \o ForClient(h, c) = ForClient(h, c)
    BY DEF ForClient
  <2>6. QED
    BY <2>1, <2>2, <2>4, <2>5 DEF ClientHears
<1>4. CASE p = h /\ EndLeave(h)
  <2>6. pc[h] = "end_leave"
    BY <1>4 DEF EndLeave
  <2>1. /\ pc[h] = "end_leave" /\ pc'[h] = "end_host"
    <3>1. Goto(h, "end_host")
      BY <1>4, CopyIsFollowed
    <3>2. QED
      BY <1>1, <2>6, <3>1 DEF Goto, TypeOK
  <2>2. told'[h] # <<>>
    <3>1. ~EndStartHost(h) /\ ~EndHost(h)
      BY <2>1 DEF EndStartHost, EndHost
    <3>2. QED
      BY <1>2, <1>4, <2>1, <3>1, HostToldBy DEF RInv, Addressing
  <2>3. told[c] = IF c \in ToSet(ending[h].clients) THEN ForClient(h, c) ELSE <<>>
    BY <1>1, <2>1 DEF ClientHears
  <2>4. told'[c] = IF c \in ToSet(ending[h].clients) THEN Append(told[c], Leave) ELSE told[c]
    <3>1. ~EndStartClients(h)
      BY <2>1 DEF EndStartClients, TellClients
    <3>2. QED
      BY <1>4, <3>1, ClientToldBy
  <2>5. QED
    BY <2>1, <2>2, <2>3, <2>4 DEF ClientHears
<1>5. CASE ~(p = h /\ (EndStartClients(h) \/ EndLeave(h)))
  <2>1. told'[c] = told[c]
    BY <1>1, <1>5, ClientToldBy
  <2>2. told'[h] = <<>> => told[h] = <<>>
    <3>1. told[h] \o ForHost(h, ending[h].clients) # <<>>
      BY <1>1, ForHostSpeaks
    <3>2. Append(told[h], Leave) # <<>>
      BY <1>1
    <3>3. QED
      BY <3>1, <3>2, HostToldBy DEF RInv
  <2>3. pc'[h] = "end_start_clients" => told[c] = <<>>
    <3>1. EndStartHost(h) => told[h] = <<>>
      BY <1>1 DEF EndStartHost, StartsOnce, Untold
    <3>2. QED
      BY <1>1, <3>1, AddressingFrom DEF ClientHears
  <2>4. pc'[h] = "end_leave" => pc[h] = "end_leave" /\ ending'[h] = ending[h]
    BY <1>5, AddressingFrom
  <2>5. QED
    BY <1>1, <2>1, <2>2, <2>3, <2>4 DEF ClientHears
<1>6. QED
  BY <1>3, <1>4, <1>5

LEMMA RInvKept ==
    ASSUME ProgramOrder, IInv, DInv, RInv,
           UNCHANGED vars \/ \E p \in Peers : Plays(p)
    PROVE  RInv'
<1>1. CASE UNCHANGED vars
  <2>1. UNCHANGED <<roomMap, roomVector, pc, found, slot, ending, msgBuffer, told, peer, inbox>>
    BY <1>1 DEF vars, roomVars, localVars, peerVars
  <2>2. RoomsOfHosts' /\ OneAtATime' /\ Members'
    BY <2>1 DEF RInv, RoomsOfHosts, OneAtATime, Joins, Members, MembersOf, Joined, Quiet,
                    Within, Dismissed
  <2>3. \A h \in Hosts : StartsOnce(h)' /\ HostHears(h)'
    BY <2>1 DEF RInv, StartsOnce, Said, HostHears, Addressed
  <2>4. /\ \A h \in Hosts, c \in Clients : RoomOf[h] = RoomOf[c] => ClientHears(h, c)'
        /\ \A c \in Clients : NothingHeard(c)'
    BY <2>1 DEF RInv, ClientHears, NothingHeard
  <2>5. QED
    BY <2>2, <2>3, <2>4 DEF RInv
<1>2. ASSUME NEW p \in Peers, Plays(p) PROVE RInv'
  <2>1. Acts(p)
    BY <1>2, PlaysActs
  <2>2. RoomsOfHosts' /\ OneAtATime' /\ Members'
    BY <1>2, <2>1, RoomsOfHostsKept, OneAtATimeKept, MembersKept DEF RInv
  <2>3. \A h \in Hosts : StartsOnce(h)' /\ HostHears(h)'
    BY <1>2, HostKept
  <2>4. \A h \in Hosts, c \in Clients : RoomOf[h] = RoomOf[c] => ClientHears(h, c)'
    BY <2>1, ClientKept
  <2>5. \A c \in Clients : NothingHeard(c)'
    BY <2>1, ClientToldBy DEF RInv, NothingHeard
  <2>6. QED
    BY <2>2, <2>3, <2>4, <2>5 DEF RInv
<1>3. QED
  BY <1>1, <1>2

-----------------------------------------------------------------------------
(* The programs are peers of RoomServer                                    *)

LEMMA PunchStepPlays ==
    ASSUME [PunchNext]_punchVars
    PROVE  UNCHANGED vars \/ \E p \in Peers : Plays(p)
<1>1. CASE UNCHANGED punchVars
  BY <1>1 DEF punchVars
<1>2. ASSUME NEW p \in Peers, Handler(p) PROVE Plays(p)
  BY <1>2 DEF Plays
<1>3. ASSUME NEW p \in Peers, OverTCP(p) PROVE UNCHANGED vars \/ Plays(p)
  <2>1. CASE EnterRoom(p) \/ ReadLeave(p) \/ (p \in Hosts /\ StartPunch(p))
    BY <1>3, <2>1 DEF OverTCP, EnterRoom, ReadLeave, StartPunch, Plays
  <2>2. CASE ReadAddress(p)
    BY <2>2 DEF ReadAddress, vars, serverVars
  <2>3. QED
    BY <1>3, <2>1, <2>2 DEF OverTCP
<1>4. ASSUME NEW p \in Peers, AskServer(p) \/ Punch(p) PROVE UNCHANGED vars
  BY <1>4 DEF AskServer, Punch, vars, serverVars
<1>5. ASSUME NEW d \in datagrams, EchoAddress(d) \/ ReceiveAnswer(d) \/ Listen(d) \/ Lose(d)
      PROVE  UNCHANGED vars
  BY <1>5 DEF EchoAddress, ReceiveAnswer, Listen, Lose, vars, serverVars
<1>6. QED
  BY <1>1, <1>2, <1>3, <1>4, <1>5 DEF PunchNext

LEMMA PunchStepIs ==
    ASSUME [PunchNext]_punchVars
    PROVE  [Next]_vars
  BY PunchStepPlays, PlaysActs DEF Acts, Next

(* What the programs do is what RoomServer allows its peers, so that all   *)
(* that is proved of the server holds while they run.                      *)
THEOREM ProgramsArePeers == PunchSpec => Safety
<1>1. PunchInit => Init
  BY DEF PunchInit
<1>2. QED
  BY <1>1, PunchStepIs, PTL DEF PunchSpec, Safety

(* Test programs that keep the order the README gives, one host to a room, *)
(* do not bring the server down, and it leaves none of their clients       *)
(* behind.                                                                 *)
THEOREM ProgramsAreServed ==
    OneHost /\ PeersStay => (PunchSpec => [](NoCrash /\ NobodyStranded))
<1> SUFFICES ASSUME OneHost, PeersStay
             PROVE  PunchSpec => [](NoCrash /\ NobodyStranded)
  OBVIOUS
<1>1. OrderKept
  BY DEF PeersStay, OrderKept
<1>2. QED
  BY <1>1, ProgramsArePeers, ServerSurvives, NobodyLeftBehind, PTL

(* A host that runs test1() never leaves before it is told to.             *)
LEMMA PunchDInv ==
    ASSUME IInv, DInv, [PunchNext]_punchVars
    PROVE  DInv'
<1>1. CASE UNCHANGED vars
  BY <1>1, UnchangedDInv
<1>2. ASSUME NEW p \in Peers, Plays(p) PROVE DInv'
  <2>1. Acts(p) /\ (p \in Hosts => Remains(p))
    BY <1>2, PlaysActs DEF Plays, Remains
  <2>2. QED
    BY <2>1, DInvKept
<1>3. QED
  BY <1>1, <1>2, PunchStepPlays

(* Whomever the server tells to leave while the test programs run, however *)
(* many of them, it has marked as leaving.                                 *)
THEOREM ProgramsAreMarked == PunchSpec => []DismissedIsLeaving
<1>1. PunchInit => IInv /\ DInv
  BY InitInv, InitDInv DEF PunchInit
<1>2. IInv /\ DInv /\ [PunchNext]_punchVars => (IInv /\ DInv)'
  BY PunchStepIs, NextInv, PunchDInv
<1>3. DInv => DismissedIsLeaving
  BY DEF DInv
<1>4. QED
  BY <1>1, <1>2, <1>3, PTL DEF PunchSpec

-----------------------------------------------------------------------------
(* Reading the server's messages                                           *)

ProgramTypes ==
    /\ program \in [Peers -> {"main", "sleep", "loop", "udp", "ask", "last", "aborted"}]
    /\ messagesRead \in [Peers -> Nat]
    /\ clientAddrVec \in [Peers -> Seq(Peers)]
    /\ datagrams \subseteq [from : Peers \cup {Server}, to : Peers \cup {Server}]
    /\ heard \in [Peers -> SUBSET (Peers \cup {Server})]

(* The message that is due is one the server has sent.                     *)
LEMMA MessageIs ==
    ASSUME TypeOK, ProgramTypes, NEW p \in Peers, MessageDue(p)
    PROVE  /\ NextMessage(p) \in Messages
           /\ NextMessage(p).type = "START_PUNCH" =>
                 NextMessage(p).addr \in Peers /\ NextMessage(p) = Start(NextMessage(p).addr)
           /\ NextMessage(p).type = "LEAVE" => NextMessage(p) = Leave
<1>1. told[p] \in Seq(Messages) /\ messagesRead[p] \in Nat /\ messagesRead[p] < Len(told[p])
  BY DEF TypeOK, ProgramTypes, MessageDue, Messages
<1>2. messagesRead[p] + 1 \in 1..Len(told[p])
  BY <1>1
<1>3. told[p][messagesRead[p] + 1] \in Messages
  BY <1>1, <1>2
<1>4. \A m \in Messages : m = Leave \/ \E q \in Peers : m = Start(q)
  BY DEF Messages
<1>5. \A q \in Peers : Start(q).type = "START_PUNCH" /\ Start(q).addr = q
  BY DEF Start
<1>6. Leave.type = "LEAVE"
  BY DEF Leave
<1>7. QED
  BY <1>3, <1>4, <1>5, <1>6 DEF NextMessage

LEMMA ProgramTypesKept ==
    ASSUME TypeOK, ProgramTypes, [PunchNext]_punchVars
    PROVE  ProgramTypes'
<1>1. CASE UNCHANGED <<programVars, udpVars>>
  BY <1>1 DEF ProgramTypes, programVars, udpVars
<1>2. ASSUME NEW p \in Peers, EnterRoom(p) \/ (p \in Hosts /\ StartPunch(p)) \/ ReadLeave(p)
      PROVE  ProgramTypes'
  <2>1. PICK l \in {"sleep", "loop", "udp"} : RunTo(p, l)
    BY <1>2 DEF EnterRoom, StartPunch, ReadLeave
  <2>2. messagesRead' \in [Peers -> Nat] /\ UNCHANGED <<clientAddrVec, udpVars>>
    <3>1. CASE ReadLeave(p)
      <4>1. messagesRead[p] + 1 \in Nat
        BY DEF ProgramTypes
      <4>2. QED
        BY <3>1, <4>1 DEF ReadLeave, ProgramTypes
    <3>2. CASE EnterRoom(p) \/ (p \in Hosts /\ StartPunch(p))
      BY <3>2 DEF EnterRoom, StartPunch, ProgramTypes
    <3>3. QED
      BY <1>2, <3>1, <3>2
  <2>3. QED
    BY <2>1, <2>2 DEF RunTo, ProgramTypes, udpVars
<1>3. ASSUME NEW p \in Peers, ReadAddress(p) PROVE ProgramTypes'
  <2>1. NextMessage(p).addr \in Peers
    BY <1>3, MessageIs DEF ReadAddress
  <2>2. Append(clientAddrVec[p], NextMessage(p).addr) \in Seq(Peers)
    BY <2>1 DEF ProgramTypes
  <2>3. QED
    BY <1>3, <2>2 DEF ReadAddress, ProgramTypes, udpVars
<1>4. ASSUME NEW p \in Peers, AskServer(p) PROVE ProgramTypes'
  BY <1>4, SMTT(30) DEF AskServer, RunTo, ProgramTypes, Datagram
<1>5. ASSUME NEW h \in Peers, Punch(h) PROVE ProgramTypes'
  <2>1. ToSet(clientAddrVec[h]) \subseteq Peers
    BY DEF ProgramTypes, ToSet
  <2>2. QED
    BY <1>5, <2>1 DEF Punch, ProgramTypes, Datagram, programVars
<1>6. ASSUME NEW d \in datagrams, EchoAddress(d) \/ Lose(d) PROVE ProgramTypes'
  BY <1>6 DEF EchoAddress, Lose, ProgramTypes, Datagram, programVars
<1>7. ASSUME NEW d \in datagrams, ReceiveAnswer(d) \/ Listen(d) PROVE ProgramTypes'
  <2>1. CASE ReceiveAnswer(d)
    BY <2>1 DEF ReceiveAnswer, RunTo, ProgramTypes
  <2>2. CASE Listen(d)
    <3>1. d.to \in Peers /\ d.from \in Peers \cup {Server}
      BY <2>2 DEF Listen, ProgramTypes, Peers
    <3>2. QED
      BY <2>2, <3>1 DEF Listen, ProgramTypes, programVars
  <2>3. QED
    BY <1>7, <2>1, <2>2
<1>8. QED
  BY <1>1, <1>2, <1>3, <1>4, <1>5, <1>6, <1>7 DEF PunchNext, OverTCP, punchVars

LEMMA InitProgramTypes == PunchInit => ProgramTypes
  BY DEF PunchInit, ProgramTypes

(* The programs' variables keep their types; every address that a program  *)
(* has is that of a peer.                                                  *)
THEOREM PunchTypeCorrect == PunchSpec => []PunchTypeOK
<1>1. TypeOK /\ ProgramTypes => PunchTypeOK
  BY DEF ProgramTypes, PunchTypeOK
<1>2. TypeOK /\ ProgramTypes /\ [PunchNext]_punchVars => ProgramTypes'
  BY ProgramTypesKept
<1>3. PunchSpec => []TypeOK
  <2>1. Safety => []TypeOK
    BY TypeCorrect
  <2>2. QED
    BY <2>1, ProgramsArePeers, PTL
<1>4. QED
  BY <1>1, <1>2, <1>3, InitProgramTypes, PTL DEF PunchSpec

-----------------------------------------------------------------------------
(* The addresses in their places                                           *)

Collecting(p) == program[p] \in {"main", "sleep", "loop"}

(* A program has the addresses of the messages it has read; the last that  *)
(* it reads tells it to leave.                                             *)
ReadSoFar(p) ==
    /\ messagesRead[p] <= Len(told[p])
    /\ \A i \in 1..Len(clientAddrVec[p]) :
          i <= messagesRead[p] /\ told[p][i] = Start(clientAddrVec[p][i])
    /\ Collecting(p) => Len(clientAddrVec[p]) = messagesRead[p]
    /\ ~Collecting(p) =>
          Len(clientAddrVec[p]) + 1 = messagesRead[p] /\ told[p][messagesRead[p]] = Leave
    /\ program[p] = "aborted" => Len(clientAddrVec[p]) < 2

(* What has been told is not taken back.                                   *)
LEMMA ToldGrows ==
    ASSUME ProgramOrder, IInv, RInv, [Next]_vars, NEW q \in Peers
    PROVE  /\ Len(told[q]) <= Len(told'[q])
           /\ \A i \in 1..Len(told[q]) : told'[q][i] = told[q][i]
<1>1. TypeOK /\ told[q] \in Seq(Messages) /\ Leave \in Messages
  BY DEF IInv, TypeOK, Messages
<1>2. ASSUME NEW s \in Seq(Messages), told'[q] = told[q] \o s
      PROVE  /\ Len(told[q]) <= Len(told'[q])
             /\ \A i \in 1..Len(told[q]) : told'[q][i] = told[q][i]
  BY <1>1, <1>2
<1>3. Append(told[q], Leave) = told[q] \o <<Leave>> /\ <<Leave>> \in Seq(Messages)
  BY <1>1
<1>4. CASE told'[q] = told[q]
  BY <1>1, <1>4
<1>5. CASE told'[q] = Append(told[q], Leave)
  BY <1>2, <1>3, <1>5
<1>6. ASSUME NEW p \in Peers, Acts(p), q \in Hosts PROVE \/ told'[q] = told[q]
                                                     \/ told'[q] = Append(told[q], Leave)
                                                     \/ told'[q] = told[q] \o ForHost(q, ending[q].clients)
  BY <1>6, HostToldBy DEF RInv
<1>7. ASSUME NEW p \in Peers, Acts(p), q \in Clients
      PROVE  \/ told'[q] = told[q]
             \/ told'[q] = Append(told[q], Leave)
             \/ told'[q] = told[q] \o ForClient(p, q)
  BY <1>7, ClientToldBy
<1>8. q \in Hosts => ForHost(q, ending[q].clients) \in Seq(Messages)
  BY <1>1, ForHostSpeaks DEF TypeOK
<1>9. \A p \in Peers : ForClient(p, q) \in Seq(Messages)
  BY SaidTwice DEF ForClient, Messages
<1>10. CASE UNCHANGED vars
  BY <1>4, <1>10 DEF vars
<1>11. CASE Next
  <2>1. PICK p \in Peers : Acts(p)
    BY <1>11 DEF Next, Acts
  <2>2. CASE q \in Hosts
    BY <1>2, <1>4, <1>5, <1>6, <1>8, <2>1, <2>2
  <2>3. CASE q \in Clients
    BY <1>2, <1>4, <1>5, <1>7, <1>9, <2>1, <2>3
  <2>4. QED
    BY <2>2, <2>3 DEF Peers
<1>12. QED
  BY <1>10, <1>11

LEMMA ReadOn ==
    ASSUME ProgramOrder, IInv, RInv, TypeOK', ProgramTypes, [Next]_vars, NEW p \in Peers, ReadSoFar(p),
           messagesRead'[p] = messagesRead[p], clientAddrVec'[p] = clientAddrVec[p],
           \/ program'[p] = program[p]
           \/ Collecting(p) /\ Collecting(p)'
           \/ ~Collecting(p) /\ program'[p] \in {"ask", "last"}
           \/ ~Collecting(p) /\ program'[p] = "aborted" /\ Len(clientAddrVec[p]) < 2
    PROVE  ReadSoFar(p)'
<1>1. /\ messagesRead[p] \in Nat /\ Len(told[p]) \in Nat /\ Len(told'[p]) \in Nat
      /\ Len(clientAddrVec[p]) \in Nat
  BY DEF IInv, TypeOK, ProgramTypes
<1>2. /\ Len(told[p]) <= Len(told'[p])
      /\ \A i \in 1..Len(told[p]) : told'[p][i] = told[p][i]
  BY ToldGrows
<1>3. messagesRead'[p] <= Len(told'[p])
  BY <1>1, <1>2 DEF ReadSoFar
<1>4. \A i \in 1..Len(clientAddrVec'[p]) :
          i <= messagesRead'[p] /\ told'[p][i] = Start(clientAddrVec'[p][i])
  <2>1. \A i \in 1..Len(clientAddrVec[p]) : i \in 1..Len(told[p])
    BY <1>1 DEF ReadSoFar
  <2>2. QED
    BY <1>2, <2>1 DEF ReadSoFar
<1>5. ~Collecting(p)' =>
          Len(clientAddrVec'[p]) + 1 = messagesRead'[p] /\ told'[p][messagesRead'[p]] = Leave
  <2>1. ~Collecting(p)' => ~Collecting(p)
    BY DEF Collecting
  <2>2. ~Collecting(p) => messagesRead[p] \in 1..Len(told[p])
    BY <1>1 DEF ReadSoFar
  <2>3. QED
    BY <1>2, <2>1, <2>2 DEF ReadSoFar
<1>6. /\ Collecting(p)' => Len(clientAddrVec'[p]) = messagesRead'[p]
      /\ program'[p] = "aborted" => Len(clientAddrVec'[p]) < 2
  BY DEF ReadSoFar, Collecting
<1>7. QED
  BY <1>3, <1>4, <1>5, <1>6 DEF ReadSoFar

LEMMA ReadsAddress ==
    ASSUME TypeOK, ProgramTypes, NEW p \in Peers, ReadSoFar(p), ReadAddress(p)
    PROVE  ReadSoFar(p)'
<1> DEFINE vec == clientAddrVec[p]
           a == NextMessage(p).addr
<1>1. /\ messagesRead[p] \in Nat /\ Len(told[p]) \in Nat /\ vec \in Seq(Peers) /\ Len(vec) \in Nat
      /\ MessageDue(p) /\ program[p] = "loop" /\ messagesRead[p] < Len(told[p])
  BY DEF TypeOK, ProgramTypes, ReadAddress, MessageDue
<1>2. a \in Peers /\ told[p][messagesRead[p] + 1] = Start(a)
  BY <1>1, MessageIs DEF ReadAddress, NextMessage
<1>3. /\ clientAddrVec'[p] = Append(vec, a) /\ messagesRead'[p] = messagesRead[p] + 1
      /\ UNCHANGED <<told, program>>
  BY DEF ReadAddress, ProgramTypes, serverVars
<1> HIDE DEF a, vec
<1>4. /\ Len(Append(vec, a)) = Len(vec) + 1 /\ Append(vec, a)[Len(vec) + 1] = a
      /\ \A i \in 1..Len(vec) : Append(vec, a)[i] = vec[i]
  BY <1>1, <1>2
<1>5. Len(vec) = messagesRead[p]
  BY <1>1 DEF ReadSoFar, Collecting, vec
<1>6. \A i \in 1..Len(vec) : told[p][i] = Start(vec[i])
  BY DEF ReadSoFar, vec
<1>7. \A i \in 1..(Len(vec) + 1) : i \in 1..Len(vec) \/ i = Len(vec) + 1
  BY <1>1
<1>8. \A i \in 1..(Len(vec) + 1) :
          i <= messagesRead[p] + 1 /\ told[p][i] = Start(Append(vec, a)[i])
  BY <1>1, <1>2, <1>4, <1>5, <1>6, <1>7
<1>9. messagesRead[p] + 1 <= Len(told[p])
  BY <1>1
<1>10. QED
  BY <1>1, <1>3, <1>4, <1>5, <1>8, <1>9 DEF ReadSoFar, Collecting

LEMMA ReadsLeave ==
    ASSUME TypeOK, ProgramTypes, NEW p \in Peers, ReadSoFar(p), ReadLeave(p)
    PROVE  ReadSoFar(p)'
<1>1. /\ messagesRead[p] \in Nat /\ Len(told[p]) \in Nat /\ Len(clientAddrVec[p]) \in Nat
      /\ MessageDue(p) /\ program[p] = "loop" /\ messagesRead[p] < Len(told[p])
  BY DEF TypeOK, ProgramTypes, ReadLeave, MessageDue
<1>2. told[p][messagesRead[p] + 1] = Leave
  BY <1>1, MessageIs DEF ReadLeave, NextMessage
<1>3. /\ clientAddrVec'[p] = clientAddrVec[p] /\ messagesRead'[p] = messagesRead[p] + 1
      /\ told' = told /\ program'[p] = "udp"
  BY DEF ReadLeave, CloseWhenDismissed, RunTo, ProgramTypes
<1>4. /\ Len(clientAddrVec[p]) = messagesRead[p]
      /\ \A i \in 1..Len(clientAddrVec[p]) :
            i <= messagesRead[p] /\ told[p][i] = Start(clientAddrVec[p][i])
  BY <1>1 DEF ReadSoFar, Collecting
<1>5. QED
  BY <1>1, <1>2, <1>3, <1>4 DEF ReadSoFar, Collecting

LEMMA ReadKept ==
    ASSUME ProgramOrder, IInv, RInv, TypeOK', ProgramTypes, [PunchNext]_punchVars,
           NEW q \in Peers, ReadSoFar(q)
    PROVE  ReadSoFar(q)'
<1>1. TypeOK /\ [Next]_vars
  BY PunchStepIs DEF IInv
<1>2. CASE UNCHANGED programVars
  BY <1>1, <1>2, ReadOn DEF programVars
<1>3. ASSUME NEW p \in Peers, EnterRoom(p) \/ (p \in Hosts /\ StartPunch(p)) PROVE ReadSoFar(q)'
  <2>1. /\ program[p] \in {"main", "sleep"}
        /\ \E l \in {"sleep", "loop"} : program' = [program EXCEPT ![p] = l]
        /\ UNCHANGED <<messagesRead, clientAddrVec>>
    BY <1>3 DEF EnterRoom, StartPunch, RunTo
  <2>2. program'[q] = program[q] \/ (Collecting(q) /\ Collecting(q)')
    BY <2>1 DEF Collecting, ProgramTypes
  <2>3. QED
    BY <1>1, <2>1, <2>2, ReadOn
<1>4. ASSUME NEW p \in Peers, ReadAddress(p) \/ ReadLeave(p) PROVE ReadSoFar(q)'
  <2>1. CASE p = q
    BY <1>1, <1>4, <2>1, ReadsAddress, ReadsLeave
  <2>2. CASE p # q
    <3>1. /\ program'[q] = program[q] /\ messagesRead'[q] = messagesRead[q]
          /\ clientAddrVec'[q] = clientAddrVec[q]
      BY <1>4, <2>2 DEF ReadAddress, ReadLeave, RunTo, ProgramTypes
    <3>2. QED
      BY <1>1, <3>1, ReadOn
  <2>3. QED
    BY <2>1, <2>2
<1>5. ASSUME NEW p \in Peers, AskServer(p) PROVE ReadSoFar(q)'
  <2>1. /\ program[p] = "udp" /\ UNCHANGED <<messagesRead, clientAddrVec>>
        /\ \/ program' = [program EXCEPT ![p] = "ask"]
           \/ Len(clientAddrVec[p]) < 2 /\ program' = [program EXCEPT ![p] = "aborted"]
    BY <1>5 DEF AskServer, RunTo
  <2>2. \/ program'[q] = program[q]
        \/ ~Collecting(q) /\ program'[q] = "ask"
        \/ ~Collecting(q) /\ program'[q] = "aborted" /\ Len(clientAddrVec[q]) < 2
    BY <2>1 DEF Collecting, ProgramTypes
  <2>3. QED
    BY <1>1, <2>1, <2>2, ReadOn
<1>6. ASSUME NEW d \in datagrams, ReceiveAnswer(d) PROVE ReadSoFar(q)'
  <2>1. /\ program[d.to] = "ask" /\ program' = [program EXCEPT ![d.to] = "last"]
        /\ UNCHANGED <<messagesRead, clientAddrVec>>
    BY <1>6 DEF ReceiveAnswer, RunTo
  <2>2. program'[q] = program[q] \/ (~Collecting(q) /\ program'[q] = "last")
    BY <2>1 DEF Collecting, ProgramTypes
  <2>3. QED
    BY <1>1, <2>1, <2>2, ReadOn
<1>7. ASSUME NEW p \in Peers, Punch(p) PROVE UNCHANGED programVars
  BY <1>7 DEF Punch
<1>8. ASSUME NEW d \in datagrams, EchoAddress(d) \/ Listen(d) \/ Lose(d)
      PROVE  UNCHANGED programVars
  BY <1>8 DEF EchoAddress, Listen, Lose
<1>9. QED
  BY <1>2, <1>3, <1>4, <1>5, <1>6, <1>7, <1>8 DEF PunchNext, OverTCP, punchVars

(* Where the last message read is the one to leave, the addresses before   *)
(* it are those that the server has put there.                             *)
LEMMA ClientInPlace ==
    ASSUME ProgramOrder, IInv, RInv, ProgramTypes, NEW c \in Clients, ReadSoFar(c), ~Collecting(c)
    PROVE  \E h \in Hosts : RoomOf[h] = RoomOf[c] /\ clientAddrVec[c] = <<h, c>>
<1> DEFINE vec == clientAddrVec[c]
           k == messagesRead[c]
<1>1. /\ c \in Peers /\ vec \in Seq(Peers) /\ Len(vec) \in Nat /\ k \in Nat
      /\ told[c] \in Seq(Messages)
      /\ Len(vec) + 1 = k /\ k <= Len(told[c]) /\ told[c][k] = Leave
      /\ \A i \in 1..Len(vec) : told[c][i] = Start(vec[i])
  <2>1. c \in Peers /\ vec \in Seq(Peers) /\ k \in Nat
    BY DEF ProgramTypes, Peers
  <2>2. told[c] \in Seq(Messages)
    BY <2>1 DEF IInv, TypeOK, Messages
  <2>3. /\ Len(vec) + 1 = k /\ k <= Len(told[c]) /\ told[c][k] = Leave
        /\ \A i \in 1..Len(vec) : told[c][i] = Start(vec[i])
    BY DEF ReadSoFar
  <2>4. Len(vec) \in Nat
    BY <2>1
  <2>5. QED
    BY <2>1, <2>2, <2>3, <2>4
<1> HIDE DEF vec, k
<1>2. \A p, q : Start(p) # Leave /\ (Start(p) = Start(q) => p = q)
  BY DEF Start, Leave
<1>3. told[c] # <<>>
  BY <1>1
<1>4. PICK h \in Hosts : RoomOf[h] = RoomOf[c]
  BY <1>3 DEF RInv, NothingHeard
<1>5. told[c] \in {ForClient(h, c), Append(ForClient(h, c), Leave)}
  BY <1>3, <1>4 DEF RInv, ClientHears
<1>6. told[c] # <<Start(h), Start(c)>>
  <2>1. SUFFICES ASSUME told[c] = <<Start(h), Start(c)>> PROVE FALSE
    OBVIOUS
  <2>2. Len(told[c]) = 2 /\ told[c][1] = Start(h) /\ told[c][2] = Start(c)
    BY <2>1
  <2>3. k = 1 \/ k = 2
    BY <1>1, <2>2
  <2>4. QED
    BY <1>1, <1>2, <2>2, <2>3
<1>7. told[c] = <<Start(h), Start(c), Leave>>
  BY <1>5, <1>6 DEF ForClient
<1>8. Len(told[c]) = 3 /\ told[c][1] = Start(h) /\ told[c][2] = Start(c)
  BY <1>7
<1>9. k = 3
  BY <1>1, <1>2, <1>8
<1>10. Len(vec) = 2 /\ vec[1] = h /\ vec[2] = c
  <2>1. Len(vec) \in Nat /\ Len(vec) + 1 = 3
    BY <1>1, <1>9
  <2>2. Len(vec) = 2 /\ 1 \in 1..Len(vec) /\ 2 \in 1..Len(vec)
    <3>1. \A n \in Nat : n + 1 = 3 => n = 2
      OBVIOUS
    <3>2. Len(vec) = 2
      BY <2>1, <3>1, Zenon
    <3>3. QED
      BY <3>2
  <2>3. Start(vec[1]) = Start(h) /\ Start(vec[2]) = Start(c)
    BY <1>1, <1>8, <2>2
  <2>4. QED
    BY <1>2, <2>2, <2>3
<1>11. vec = <<h, c>>
  BY <1>1, <1>10
<1>12. QED
  BY <1>4, <1>11 DEF vec

LEMMA HostInPlace ==
    ASSUME ProgramOrder, IInv, RInv, ProgramTypes, NEW h \in Hosts, ReadSoFar(h), ~Collecting(h)
    PROVE  /\ clientAddrVec[h] # <<>> /\ Head(clientAddrVec[h]) = h
           /\ ToSet(Tail(clientAddrVec[h])) \subseteq Clients
           /\ IsInjective(clientAddrVec[h])
           /\ program[h] = "aborted" => clientAddrVec[h] = <<h>>
<1> DEFINE vec == clientAddrVec[h]
           k == messagesRead[h]
<1>1. /\ h \in Peers /\ vec \in Seq(Peers) /\ Len(vec) \in Nat /\ k \in Nat
      /\ told[h] \in Seq(Messages)
      /\ Len(vec) + 1 = k /\ k <= Len(told[h]) /\ told[h][k] = Leave
      /\ \A i \in 1..Len(vec) : told[h][i] = Start(vec[i])
      /\ ending[h].clients \in Seq(Clients)
      /\ h \notin Clients
  <2>1. h \in Peers /\ vec \in Seq(Peers) /\ k \in Nat /\ h \notin Clients
    BY PeersAssumption DEF ProgramTypes, Peers
  <2>2. told[h] \in Seq(Messages) /\ ending[h].clients \in Seq(Clients)
    BY <2>1 DEF IInv, TypeOK, Messages
  <2>3. /\ Len(vec) + 1 = k /\ k <= Len(told[h]) /\ told[h][k] = Leave
        /\ \A i \in 1..Len(vec) : told[h][i] = Start(vec[i])
    BY DEF ReadSoFar
  <2>4. Len(vec) \in Nat
    BY <2>1
  <2>5. QED
    BY <2>1, <2>2, <2>3, <2>4
<1> HIDE DEF k
<1>2. \A p, q : Start(p) # Leave /\ (Start(p) = Start(q) => p = q)
  BY DEF Start, Leave
<1>3. ASSUME NEW s \in Seq(Clients), NEW i \in 1..(Len(s) + 1)
      PROVE  /\ ForHost(h, s)[i] = IF i = 1 THEN Start(h) ELSE Start(s[i - 1])
             /\ i # 1 => i - 1 \in 1..Len(s)
  <2>1. i # 1 => i - 1 \in 1..Len(s) /\ i = (i - 1) + 1
    BY <1>3
  <2>2. i # 1 => ForHost(h, s)[i] = Start(s[i - 1])
    BY <2>1, ForHostSpeaks
  <2>3. QED
    BY <2>1, <2>2, ForHostSpeaks
<1>4. told[h] # <<>>
  BY <1>1
<1>5. ASSUME NEW s \in Seq(Clients) PROVE told[h] # ForHost(h, s)
  <2>1. SUFFICES ASSUME told[h] = ForHost(h, s) PROVE FALSE
    OBVIOUS
  <2>2. k \in 1..(Len(s) + 1)
    BY <1>1, <2>1, ForHostSpeaks
  <2>3. QED
    BY <1>1, <1>2, <1>3, <2>1, <2>2
<1>6. PICK s \in Seq(Clients) : IsInjective(s) /\ told[h] = Append(ForHost(h, s), Leave)
  BY <1>1, <1>4, <1>5 DEF RInv, HostHears, Addressed
<1>7. /\ Len(s) \in Nat /\ DOMAIN s = 1..Len(s) /\ Len(told[h]) = Len(s) + 2
      /\ \A i \in 1..(Len(s) + 1) : told[h][i] = ForHost(h, s)[i]
  <2>1. ForHost(h, s) \in Seq(Messages) /\ Len(ForHost(h, s)) = Len(s) + 1 /\ Len(s) \in Nat
    BY ForHostSpeaks
  <2>2. QED
    BY <1>6, <2>1
<1>8. k \notin 1..(Len(s) + 1)
  BY <1>1, <1>2, <1>3, <1>7
<1>9. Len(vec) = Len(s) + 1
  BY <1>1, <1>7, <1>8
<1>10. \A i \in 1..Len(vec) : vec[i] = IF i = 1 THEN h ELSE s[i - 1]
  BY <1>1, <1>2, <1>3, <1>7, <1>9
<1>11. vec # <<>> /\ Head(vec) = h
  <2>1. 1 \in 1..Len(vec) /\ vec # <<>>
    BY <1>1, <1>7, <1>9
  <2>2. QED
    BY <1>1, <1>10, <2>1
<1>12. ToSet(Tail(vec)) \subseteq Clients
  <2>1. /\ Tail(vec) \in Seq(Peers) /\ Len(Tail(vec)) = Len(s)
        /\ \A i \in 1..Len(s) : Tail(vec)[i] = vec[i + 1]
    BY <1>1, <1>7, <1>9, <1>11
  <2>2. \A i \in 1..Len(s) : Tail(vec)[i] = s[i]
    BY <1>7, <1>9, <1>10, <2>1
  <2>3. \A i \in 1..Len(s) : s[i] \in Clients
    BY <1>7
  <2>4. DOMAIN Tail(vec) = 1..Len(s)
    BY <2>1
  <2>5. QED
    BY <2>2, <2>3, <2>4 DEF ToSet
<1>13. IsInjective(vec)
  <2>1. \A i, j \in 1..Len(s) : s[i] = s[j] => i = j
    BY <1>6, <1>7 DEF IsInjective
  <2>2. \A i \in 1..Len(s) : s[i] # h
    BY <1>1, <1>7
  <2>3. SUFFICES ASSUME NEW i \in 1..(Len(s) + 1), NEW j \in 1..(Len(s) + 1), vec[i] = vec[j]
                 PROVE  i = j
    BY <1>1, <1>9 DEF IsInjective
  <2>4. /\ i = 1 \/ i - 1 \in 1..Len(s)
        /\ j = 1 \/ j - 1 \in 1..Len(s)
    BY <1>7
  <2>5. CASE i = 1
    BY <1>9, <1>10, <2>2, <2>3, <2>4, <2>5
  <2>6. CASE i # 1
    <3>1. vec[i] = s[i - 1] /\ i - 1 \in 1..Len(s)
      BY <1>9, <1>10, <2>4, <2>6
    <3>2. j # 1
      BY <1>9, <1>10, <2>2, <2>3, <3>1
    <3>3. vec[j] = s[j - 1] /\ j - 1 \in 1..Len(s)
      BY <1>9, <1>10, <2>4, <3>2
    <3>4. i - 1 = j - 1
      BY <2>1, <2>3, <3>1, <3>3
    <3>5. QED
      BY <1>7, <3>4
  <2>7. QED
    BY <2>5, <2>6
<1>14. program[h] = "aborted" => vec = <<h>>
  <2>1. program[h] = "aborted" => Len(vec) = 1
    BY <1>1, <1>7, <1>9 DEF ReadSoFar
  <2>2. Len(vec) = 1 => vec[1] = h
    BY <1>10
  <2>3. QED
    BY <1>1, <2>1, <2>2
<1>15. QED
  BY <1>11, <1>12, <1>13, <1>14

(* Where a room has one host and its clients join one after the other,     *)
(* each program finds the addresses where it looks for them, and only that *)
(* of a host nobody joined reads past their end.                           *)
THEOREM AddressesArrive == ProgramOrder => (PunchSpec => []AddressesInPlace)
<1> SUFFICES ASSUME ProgramOrder PROVE PunchSpec => []AddressesInPlace
  OBVIOUS
<1> DEFINE PInv == IInv /\ DInv /\ RInv /\ ProgramTypes /\ \A p \in Peers : ReadSoFar(p)
<1>1. PunchInit => PInv
  <2> SUFFICES ASSUME PunchInit PROVE PInv
    OBVIOUS
  <2>1. Init /\ ProgramTypes
    BY InitProgramTypes DEF PunchInit
  <2>2. \A p \in Peers : told[p] = <<>> /\ messagesRead[p] = 0 /\ clientAddrVec[p] = <<>>
                         /\ program[p] = "main"
    BY DEF PunchInit, Init
  <2>3. \A p \in Peers : ReadSoFar(p)
    BY <2>2 DEF ReadSoFar, Collecting
  <2>4. QED
    BY <2>1, <2>3, InitInv, InitDInv, InitRInv
<1>2. PInv /\ [PunchNext]_punchVars => PInv'
  <2> SUFFICES ASSUME PInv, [PunchNext]_punchVars PROVE PInv'
    OBVIOUS
  <2>1. [Next]_vars /\ TypeOK
    BY PunchStepIs DEF IInv
  <2>2. IInv' /\ DInv' /\ RInv'
    BY <2>1, NextInv, PunchDInv, PunchStepPlays, RInvKept
  <2>3. ProgramTypes'
    BY <2>1, ProgramTypesKept
  <2>4. TypeOK'
    BY <2>2 DEF IInv
  <2>5. \A p \in Peers : ReadSoFar(p)'
    BY <2>4, ReadKept
  <2>6. QED
    BY <2>2, <2>3, <2>5
<1>3. PInv => AddressesInPlace
  <2> SUFFICES ASSUME PInv PROVE AddressesInPlace
    OBVIOUS
  <2>1. \A p \in Peers : Informed(p) \/ program[p] = "aborted" => ~Collecting(p)
    BY DEF Informed, Collecting
  <2>2. \A c \in Clients : ~Collecting(c) =>
            \E h \in Hosts : RoomOf[h] = RoomOf[c] /\ clientAddrVec[c] = <<h, c>>
    BY ClientInPlace DEF Peers
  <2>3. \A h \in Hosts : ~Collecting(h) =>
            /\ clientAddrVec[h] # <<>> /\ Head(clientAddrVec[h]) = h
            /\ ToSet(Tail(clientAddrVec[h])) \subseteq Clients
            /\ IsInjective(clientAddrVec[h])
            /\ program[h] = "aborted" => clientAddrVec[h] = <<h>>
    BY HostInPlace DEF Peers
  <2>4. \A c \in Clients : program[c] # "aborted"
    <3>1. SUFFICES ASSUME NEW c \in Clients, program[c] = "aborted" PROVE FALSE
      OBVIOUS
    <3>2. PICK h \in Hosts : clientAddrVec[c] = <<h, c>>
      BY <2>1, <2>2, <3>1 DEF Peers
    <3>3. Len(clientAddrVec[c]) = 2
      BY <3>2
    <3>4. Len(clientAddrVec[c]) < 2
      BY <3>1 DEF ReadSoFar, Peers
    <3>5. QED
      BY <3>3, <3>4
  <2>5. QED
    BY <2>1, <2>2, <2>3, <2>4 DEF AddressesInPlace, Peers
<1>4. QED
  BY <1>1, <1>2, <1>3, PTL DEF PunchSpec

=============================================================================
