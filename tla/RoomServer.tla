----------------------------- MODULE RoomServer -----------------------------
(***************************************************************************)
(* The rendezvous server: RoomManager's map of rooms and one handler       *)
(* thread per accepted connection (clientHandlerFunc), with the peers that *)
(* connect, talk and close.  A Room and its RoomClients live on the stacks *)
(* of the handler threads; the map and the rooms are shared without a      *)
(* lock.  What the peers may do beyond the order the README gives (host    *)
(* creates the room, clients join, host starts) is listed in Faults.       *)
(***************************************************************************)
EXTENDS Integers, Sequences, FiniteSets, SequencesExt

CONSTANTS
    Hosts, Clients,     \* connections, by the isHost flag of their first message
    RoomOf,             \* the room each of them names
    Guessers,           \* clients with a wrong password
    Faults,             \* what peers do beyond the README's order (below)
    Absent, Null,       \* no entry in roomMap, an entry holding nullptr
    Crashed             \* where a handler that brings the process down ends

Peers == Hosts \cup Clients
Rooms == {RoomOf[p] : p \in Peers}

(* The places of a handler; "none" before its thread starts, "gone" after. *)
Places == {"none", "create", "lookup", "check", "add", "push", "loop", "switch",
           "remove", "end", "end_start", "end_start_clients", "end_leave", "end_host",
           "end_delete", "exit", "gone"}

(* early: clients need not wait for the room.  together: clients need not  *)
(* wait for each other.  late: nor for the host to start.  leave, reset:   *)
(* a client leaves on its own, its connection breaks.  hostLeave,          *)
(* hostReset: the host does, the former without starting the room.         *)
ASSUME PeersAssumption ==
    /\ Hosts \cap Clients = {} /\ Guessers \subseteq Clients
    /\ Peers \cap {Absent, Null, Crashed} = {} /\ Crashed \notin Places
    /\ Faults \subseteq {"early", "together", "late", "leave", "reset", "hostLeave",
                   "hostReset"}

VARIABLES
    roomMap,        \* roomMap: room -> Absent, Null or the host whose stack holds the Room
    roomVector,     \* the roomVector of each host's Room
    isLeaving,      \* RoomClient::isLeaving
    pc,             \* where each connection's handler is
    found,          \* its proom, from getRoomPtr()
    slot,           \* where its push_back will write
    ending,         \* its call of endRoom()
    msgBuffer,      \* its msgBuffer's message type
    told,           \* everything the server has sent to each peer
    peer,           \* the peer's end of the connection
    inbox           \* what the peer has sent and the handler not yet received

roomVars == <<roomMap, roomVector>>
localVars == <<found, slot, ending, msgBuffer>>
peerVars == <<peer, inbox>>
vars == <<roomVars, isLeaving, pc, localVars, told, peerVars>>

Start(p) == [type |-> "START_PUNCH", addr |-> p]
Leave == [type |-> "LEAVE", addr |-> Null]
CallOf(start, next) == [start |-> start, next |-> next, room |-> Null, clients |-> <<>>]
NotEnding == CallOf(FALSE, "exit")

TypeOK ==
    /\ roomMap \in [Rooms -> Hosts \cup {Absent, Null}]
    /\ roomVector \in [Hosts -> Seq(Clients)]
    /\ isLeaving \in [Peers -> BOOLEAN]
    /\ pc \in [Peers -> Places \cup {Crashed}]
    /\ found \in [Peers -> Hosts \cup {Null}]
    /\ slot \in [Peers -> Nat]
    /\ ending \in [Peers -> [start : BOOLEAN, next : {"loop", "exit"},
                             room : Hosts \cup {Null}, clients : Seq(Clients)]]
    /\ msgBuffer \in [Peers -> {"ENTRY", "LEAVE", "START_PUNCH"}]
    /\ told \in [Peers -> Seq({Start(p) : p \in Peers} \cup {Leave})]
    /\ peer \in [Peers -> {"out", "in", "closed", "reset"}]
    /\ inbox \in [Peers -> Seq({"LEAVE", "START_PUNCH"})]

Init ==
    /\ roomMap = [r \in Rooms |-> Absent]
    /\ roomVector = [h \in Hosts |-> <<>>]
    /\ isLeaving = [p \in Peers |-> FALSE]
    /\ pc = [p \in Peers |-> "none"]
    /\ found = [p \in Peers |-> Null]
    /\ slot = [p \in Peers |-> 0]
    /\ ending = [p \in Peers |-> NotEnding]
    /\ msgBuffer = [p \in Peers |-> "ENTRY"]
    /\ told = [p \in Peers |-> <<>>]
    /\ peer = [p \in Peers |-> "out"]
    /\ inbox = [p \in Peers |-> <<>>]

Goto(p, l) == pc' = [pc EXCEPT ![p] = l]
Room(p) == roomMap[RoomOf[p]]
Alive(p) == pc[p] # "gone"      \* is the stack of p's handler still there?

(* roomMap[roomID]: an absent key is inserted with nullptr.                *)
Subscript(p) == IF Room(p) = Absent THEN Null ELSE Room(p)
MapAfterSubscript(p) == [roomMap EXCEPT ![RoomOf[p]] = Subscript(p)]

-----------------------------------------------------------------------------
(* Joining: clientHandlerFunc() up to its loop *)

(* Mutant: the host is put into its own room's vector.                     *)
CreateWithHost(h) ==
    /\ pc[h] = "create" /\ Goto(h, "loop")
    /\ roomMap' = [roomMap EXCEPT ![RoomOf[h]] = h]
    /\ roomVector' = [roomVector EXCEPT ![h] = <<h>>]
    /\ UNCHANGED <<isLeaving, localVars, told, peerVars>>

(* createNewRoom(): insert() does nothing if the key is there.             *)
Create(h) ==
    /\ pc[h] = "create"
    /\ roomMap' = [roomMap EXCEPT ![RoomOf[h]] = IF @ = Absent THEN h ELSE @]
    /\ Goto(h, "loop")
    /\ UNCHANGED <<roomVector, isLeaving, localVars, told, peerVars>>

Lookup(c) ==
    /\ pc[c] = "lookup"
    /\ roomMap' = MapAfterSubscript(c)
    /\ found' = [found EXCEPT ![c] = Subscript(c)]
    /\ Goto(c, "check")
    /\ UNCHANGED <<roomVector, isLeaving, slot, ending, msgBuffer, told, peerVars>>

(* The room's password is read through the pointer; the Room may have gone *)
(* with its host's handler, and then anything may be read.                 *)
Check(c) ==
    /\ pc[c] = "check"
    /\ IF found[c] # Null /\ ~Alive(found[c])
       THEN \E l \in {"gone", "add", Crashed} : Goto(c, l)
       ELSE Goto(c, IF found[c] = Null \/ c \in Guessers THEN "gone" ELSE "add")
    /\ UNCHANGED <<roomVars, isLeaving, localVars, told, peerVars>>

(* addClientToRoom() looks the room up again; its result is not used.      *)
Add(c) ==
    /\ pc[c] = "add"
    /\ roomMap' = MapAfterSubscript(c)
    /\ IF Subscript(c) = Null
       THEN Goto(c, "loop") /\ UNCHANGED <<found, slot>>
       ELSE /\ found' = [found EXCEPT ![c] = Subscript(c)]
            /\ slot' = [slot EXCEPT ![c] = Len(roomVector[Subscript(c)])]
            /\ Goto(c, "push")
    /\ UNCHANGED <<roomVector, isLeaving, ending, msgBuffer, told, peerVars>>

(* Mutant: the new client takes the place of the last one.                 *)
PushBackOnLast(c) ==
    /\ pc[c] = "push" /\ Goto(c, "loop")
    /\ roomVector' = [roomVector EXCEPT ![found[c]] = SubSeq(@, 1, slot[c] - 1) \o <<c>>]
    /\ UNCHANGED <<roomMap, isLeaving, localVars, told, peerVars>>

(* push_back() stores at the end it has read: what another handler stored  *)
(* there meanwhile is overwritten, and if the others have taken the end    *)
(* back, what is left in the memory between belongs to the vector again.   *)
(* The Room may have gone with its host's handler.                         *)
PushBack(c) ==
    LET vector == roomVector[found[c]]
    IN /\ pc[c] = "push"
       /\ \E memory \in [1..slot[c] -> Clients] :
             /\ \A i \in 1..slot[c] : i <= Len(vector) => memory[i] = vector[i]
             /\ roomVector' = [roomVector EXCEPT ![found[c]] = Append(memory, c)]
       /\ Goto(c, "loop") \/ (~Alive(found[c]) /\ Goto(c, Crashed))
       /\ UNCHANGED <<roomMap, isLeaving, localVars, told, peerVars>>

-----------------------------------------------------------------------------
(* The loop: recv() returns a message, 0 when the peer has closed, or -1,  *)
(* which as a DWORD is not 0 and leaves the previous message in msgBuffer. *)

Receive(p) ==
    /\ pc[p] = "loop" /\ inbox[p] # <<>>
    /\ msgBuffer' = [msgBuffer EXCEPT ![p] = Head(inbox[p])]
    /\ inbox' = [inbox EXCEPT ![p] = Tail(@)]
    /\ Goto(p, "switch")
    /\ UNCHANGED <<roomVars, isLeaving, found, slot, ending, told, peer>>

ReceiveError(p) ==
    /\ pc[p] = "loop" /\ inbox[p] = <<>> /\ peer[p] = "reset"
    /\ Goto(p, "switch")
    /\ UNCHANGED <<roomVars, isLeaving, localVars, told, peerVars>>

CallEndRoom(p, start, next) ==
    /\ ending' = [ending EXCEPT ![p] = CallOf(start, next)]
    /\ Goto(p, "end")

ReceiveClosed(p) ==
    /\ pc[p] = "loop" /\ inbox[p] = <<>> /\ peer[p] = "closed"
    /\ \/ isLeaving[p] /\ Goto(p, "exit") /\ UNCHANGED ending
       \/ ~isLeaving[p] /\ p \in Hosts /\ CallEndRoom(p, FALSE, "exit")
       \/ ~isLeaving[p] /\ p \in Clients /\ Goto(p, "remove") /\ UNCHANGED ending
    /\ UNCHANGED <<roomVars, isLeaving, found, slot, msgBuffer, told, peerVars>>

Switch(p) ==
    /\ pc[p] = "switch"
    /\ \/ msgBuffer[p] = "LEAVE" /\ p \in Hosts /\ CallEndRoom(p, FALSE, "exit")
       \/ msgBuffer[p] = "LEAVE" /\ p \in Clients /\ Goto(p, "remove") /\ UNCHANGED ending
       \/ msgBuffer[p] = "START_PUNCH" /\ p \in Hosts /\ CallEndRoom(p, TRUE, "loop")
       \/ /\ msgBuffer[p] = "ENTRY" \/ (msgBuffer[p] = "START_PUNCH" /\ p \in Clients)
          /\ Goto(p, "loop") /\ UNCHANGED ending
    /\ UNCHANGED <<roomVars, isLeaving, found, slot, msgBuffer, told, peerVars>>

(* removeClientFromRoom(): nullptr is followed, and the loop asks at() for *)
(* getRoomSize() elements, a number that counts the host as well.          *)
RoomSize(h) == Len(roomVector[h]) + 1
AtThrows(h, c) ==
    LET erasedBefore == {i \in DOMAIN roomVector[h] :
                            i < RoomSize(h) /\ roomVector[h][i] = c}
    IN RoomSize(h) - 1 >= Len(roomVector[h]) - Cardinality(erasedBefore)

RemoveClient(c) ==
    /\ pc[c] = "remove"
    /\ roomMap' = MapAfterSubscript(c)
    /\ IF Subscript(c) = Null \/ ~Alive(Subscript(c)) \/ AtThrows(Subscript(c), c)
       THEN Goto(c, Crashed) /\ UNCHANGED roomVector
       ELSE /\ Goto(c, "exit")
            /\ roomVector' = [roomVector EXCEPT ![Subscript(c)] =
                                  SelectSeq(@, LAMBDA d : d # c)]
    /\ UNCHANGED <<isLeaving, localVars, told, peerVars>>

(* The handler returns and its stack goes with it.                         *)
Exit(p) ==
    /\ pc[p] = "exit"
    /\ Goto(p, "gone")
    /\ UNCHANGED <<roomVars, isLeaving, localVars, told, peerVars>>

-----------------------------------------------------------------------------
(* endRoom(), called by a host's handler *)

(* The room is whichever the map holds; its vector is copied.              *)
EndRoom(h) ==
    /\ pc[h] = "end"
    /\ roomMap' = MapAfterSubscript(h)
    /\ IF Subscript(h) = Null \/ ~Alive(Subscript(h))
       THEN Goto(h, Crashed) /\ UNCHANGED ending
       ELSE /\ ending' = [ending EXCEPT ![h].room = Subscript(h),
                                        ![h].clients = roomVector[Subscript(h)]]
            /\ Goto(h, IF ending[h].start THEN "end_start" ELSE "end_leave")
    /\ UNCHANGED <<roomVector, isLeaving, found, slot, msgBuffer, told, peerVars>>

(* What the host and a client are told, and who is marked as leaving.      *)
(* Mutants: itself first; nobody.                                          *)
ForHost(host, clients) ==
    <<Start(host)>> \o [i \in DOMAIN clients |-> Start(clients[i])]

ForClientSwapped(host, c) == <<Start(c), Start(host)>>
ForClient(host, c) == <<Start(host), Start(c)>>

MarkNobody(clients) == UNCHANGED isLeaving
MarkLeaving(clients) ==
    isLeaving' = [p \in Peers |-> isLeaving[p] \/ p \in ToSet(clients)]

(* The copied vector points to RoomClients on the stacks of the clients'   *)
(* handlers.  Where one has returned, its address reads as anything, a     *)
(* message for it reaches nobody, or following the pointer ends the        *)
(* process, here once the others have been served.                         *)
Dangling(clients) == \E c \in ToSet(clients) : ~Alive(c)
AddressesRead(clients) ==
    {read \in [DOMAIN clients -> Peers] :
        \A i \in DOMAIN clients : Alive(clients[i]) => read[i] = clients[i]}
AfterFollowing(h, l) ==
    Goto(h, l) \/ (Dangling(ending[h].clients) /\ Goto(h, Crashed))

(* First the host learns its own address and every client's ...            *)
EndStartHost(h) ==
    LET host == ending[h].room
    IN /\ pc[h] = "end_start"
       /\ \E read \in AddressesRead(ending[h].clients) :
             told' = [told EXCEPT ![host] = @ \o ForHost(host, read)]
       /\ AfterFollowing(h, "end_start_clients")
       /\ UNCHANGED <<roomVars, isLeaving, localVars, peerVars>>

(* ... then each client is marked as leaving and learns the host's address *)
(* and its own.  Mutant: the vector is read again instead of the copy.     *)
TellClients(h, clients) ==
    /\ pc[h] = "end_start_clients"
    /\ told' = [p \in Peers |-> IF p \in ToSet(clients) /\ Alive(p)
                                THEN told[p] \o ForClient(ending[h].room, p) ELSE told[p]]
    /\ MarkLeaving(clients)
    /\ AfterFollowing(h, "end_leave")
    /\ UNCHANGED <<roomVars, localVars, peerVars>>
EndStartLiveClients(h) == TellClients(h, roomVector[ending[h].room])
EndStartClients(h) == TellClients(h, ending[h].clients)

EndLeave(h) ==
    /\ pc[h] = "end_leave"
    /\ told' = [p \in Peers |-> IF p \in ToSet(ending[h].clients) /\ Alive(p)
                                THEN Append(told[p], Leave) ELSE told[p]]
    /\ AfterFollowing(h, "end_host")
    /\ UNCHANGED <<roomVars, isLeaving, localVars, peerVars>>

(* Mutant: the host is not told to leave.                                  *)
EndHostSilent(h) ==
    /\ pc[h] = "end_host" /\ Goto(h, "end_delete")
    /\ isLeaving' = [isLeaving EXCEPT ![ending[h].room] = TRUE]
    /\ UNCHANGED <<roomVars, localVars, told, peerVars>>

EndHost(h) ==
    /\ pc[h] = "end_host"
    /\ isLeaving' = [isLeaving EXCEPT ![ending[h].room] = TRUE]
    /\ told' = [told EXCEPT ![ending[h].room] = Append(@, Leave)]
    /\ \/ Goto(h, "end_delete")
       \/ ~Alive(ending[h].room) /\ Goto(h, Crashed)
    /\ UNCHANGED <<roomVars, localVars, peerVars>>

EndDelete(h) ==
    /\ pc[h] = "end_delete"
    /\ roomMap' = [roomMap EXCEPT ![RoomOf[h]] = Absent]
    /\ ending' = [ending EXCEPT ![h] = NotEnding]
    /\ Goto(h, ending[h].next)
    /\ UNCHANGED <<roomVector, isLeaving, found, slot, msgBuffer, told, peerVars>>

-----------------------------------------------------------------------------
(* The peers *)

Started(r) == \E h \in Hosts : RoomOf[h] = r /\
                  ("START_PUNCH" \in ToSet(inbox[h]) \/ msgBuffer[h] = "START_PUNCH")
Joining(r) == {c \in Clients : RoomOf[c] = r /\ pc[c] \in {"lookup", "check", "add", "push"}}
Dismissed(p) == Leave \in ToSet(told[p])

(* accept() and the start of the handler.                                  *)
Connect(p) ==
    /\ peer[p] = "out"
    /\ p \in Clients =>
          /\ "early" \in Faults \/ Room(p) \in Hosts
          /\ "together" \in Faults \/ Joining(RoomOf[p]) = {}
          /\ "late" \in Faults \/ ~Started(RoomOf[p])
    /\ peer' = [peer EXCEPT ![p] = "in"]
    /\ Goto(p, IF p \in Hosts THEN "create" ELSE "lookup")
    /\ UNCHANGED <<roomVars, isLeaving, localVars, told, inbox>>

Say(p, m) == inbox' = [inbox EXCEPT ![p] = Append(@, m)] /\ UNCHANGED peer

(* The test programs: the host starts once the clients have joined.        *)
HostStarts(h) ==
    /\ peer[h] = "in" /\ inbox[h] = <<>> /\ msgBuffer[h] = "ENTRY"
    /\ "late" \in Faults \/ Joining(RoomOf[h]) = {}
    /\ Say(h, "START_PUNCH")
    /\ UNCHANGED <<roomVars, isLeaving, pc, localVars, told>>

(* ... and everybody closes the connection when told to leave.             *)
CloseWhenDismissed(p) ==
    /\ peer[p] = "in" /\ Dismissed(p)
    /\ peer' = [peer EXCEPT ![p] = "closed"]
    /\ UNCHANGED <<roomVars, isLeaving, pc, localVars, told, inbox>>

LeaveAlone(p) ==
    /\ (p \in Clients /\ "leave" \in Faults) \/ (p \in Hosts /\ "hostLeave" \in Faults)
    /\ peer[p] = "in" /\ inbox[p] = <<>>
    /\ \/ Say(p, "LEAVE") /\ msgBuffer[p] # "LEAVE"
       \/ peer' = [peer EXCEPT ![p] = "closed"] /\ UNCHANGED inbox
    /\ UNCHANGED <<roomVars, isLeaving, pc, localVars, told>>

(* A broken connection may take with it what was not received yet.         *)
Reset(p) ==
    /\ (p \in Clients /\ "reset" \in Faults) \/ (p \in Hosts /\ "hostReset" \in Faults)
    /\ peer[p] = "in"
    /\ peer' = [peer EXCEPT ![p] = "reset"]
    /\ inbox' \in {inbox, [inbox EXCEPT ![p] = <<>>]}
    /\ UNCHANGED <<roomVars, isLeaving, pc, localVars, told>>

-----------------------------------------------------------------------------
Running == \A p \in Peers : pc[p] # Crashed

HandlerStep(p) ==
    \/ Receive(p) \/ ReceiveError(p) \/ ReceiveClosed(p) \/ Switch(p) \/ Exit(p)
    \/ p \in Hosts /\ (Create(p) \/ EndRoom(p) \/ EndStartHost(p) \/ EndStartClients(p)
                         \/ EndLeave(p) \/ EndHost(p) \/ EndDelete(p))
    \/ p \in Clients /\ (Lookup(p) \/ Check(p) \/ Add(p) \/ PushBack(p) \/ RemoveClient(p))

(* A crash takes the whole process down, and with it every connection.     *)
Handler(p) == Running /\ HandlerStep(p)
Peer(p) ==
    /\ Running
    /\ \/ Connect(p) \/ CloseWhenDismissed(p) \/ LeaveAlone(p) \/ Reset(p)
       \/ p \in Hosts /\ HostStarts(p)

Next == \E p \in Peers : Handler(p) \/ Peer(p)

(* Handler threads run; hosts start their rooms; whoever is told to leave  *)
(* does.  Nothing makes a peer connect.                                    *)
Fairness ==
    /\ \A p \in Peers : WF_vars(Handler(p)) /\ WF_vars(CloseWhenDismissed(p))
    /\ \A h \in Hosts : SF_vars(HostStarts(h))

Safety == Init /\ [][Next]_vars
Spec == Safety /\ Fairness

-----------------------------------------------------------------------------
(* The server survives what its peers do.                                  *)
NoCrash == Running

(* Hole punching needs both sides: a client that has been given a host's   *)
(* address is one whose address that host has been given before, whoever   *)
(* joins, leaves, breaks down or brings the server down meanwhile.         *)
PunchIsMutual ==
    \A h \in Hosts, c \in Clients :
        Start(h) \in ToSet(told[c]) => Start(c) \in ToSet(told[h])

(* A host whose handler has created its room is the owner of the room of   *)
(* that name until it is sent away.                                        *)
HostOwnsRoom ==
    \A h \in Hosts : pc[h] = "loop" /\ ~Dismissed(h) => Room(h) = h

(* A peer the server has told to leave is known to be leaving, so that its *)
(* closed connection is not taken for a departure of its own.              *)
DismissedIsLeaving == \A p \in Peers : Dismissed(p) => isLeaving[p]

(* Every client that a room has admitted is told of the host when the host *)
(* starts the room and is sent away with it.                               *)
NobodyStranded ==
    \A h \in Hosts, c \in Clients :
        (Dismissed(h) /\ RoomOf[h] = RoomOf[c] /\ pc[c] = "loop") => Dismissed(c)

(* Whoever connects is served to the end: refused, or told what it needs   *)
(* and let go, and its handler returns.                                    *)
HandlersReturn == \A p \in Peers : peer[p] = "in" ~> pc[p] = "gone"
=============================================================================
