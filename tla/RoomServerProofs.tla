-------------------------- MODULE RoomServerProofs --------------------------
(***************************************************************************)
(* The rendezvous server for every number of hosts, clients and rooms.     *)
(* Whatever the peers do, the punch is mutual, and no client that leaves   *)
(* is ever taken out of its room; as long as they keep an order, whoever   *)
(* is dismissed is known to be, and nobody is left behind.                 *)
(***************************************************************************)
EXTENDS RoomServer, FiniteSetTheorems, TLAPS

Messages == {Start(p) : p \in Peers} \cup {Leave}
EndingAt == {"end_start", "end_start_clients", "end_leave", "end_host"}

(* A handler inside endRoom() has found the room of a host.                *)
EndingFoundRoom == \A h \in Hosts : pc[h] \in EndingAt => ending[h].room \in Hosts

(* Before the clients are told of the host, the host has been told of      *)
(* every client of the copied vector whose handler is still there.         *)
ToldFirst(h) ==
    pc[h] = "end_start_clients" =>
        \A i \in DOMAIN ending[h].clients :
            Alive(ending[h].clients[i]) =>
                Start(ending[h].clients[i]) \in ToSet(told[ending[h].room])
HostToldFirst == \A h \in Hosts : ToldFirst(h)

(* A peer that has not connected has no handler yet.                       *)
NoHandlerYet == \A p \in Peers : peer[p] = "out" => pc[p] = "none"

IInv == TypeOK /\ EndingFoundRoom /\ HostToldFirst /\ PunchIsMutual /\ NoHandlerYet

-----------------------------------------------------------------------------
(* at() throws for every client that leaves: the loop's bound counts the   *)
(* host, and an erased element makes the vector shorter still.             *)
LEMMA AtAlwaysThrows ==
    ASSUME TypeOK, NEW h \in Hosts, NEW c \in Clients
    PROVE  AtThrows(h, c)
<1> DEFINE E == {i \in DOMAIN roomVector[h] : i < RoomSize(h) /\ roomVector[h][i] = c}
<1>1. roomVector[h] \in Seq(Clients) /\ Len(roomVector[h]) \in Nat
  BY DEF TypeOK
<1>2. DOMAIN roomVector[h] = 1..Len(roomVector[h])
  BY <1>1
<1>3. IsFiniteSet(1..Len(roomVector[h]))
  BY <1>1, FS_Interval
<1>4. E \subseteq 1..Len(roomVector[h])
  BY <1>2
<1>5. Cardinality(E) \in Nat
  BY <1>3, <1>4, FS_Subset, FS_CardinalityType
<1>6. RoomSize(h) - 1 >= Len(roomVector[h]) - Cardinality(E)
  BY <1>1, <1>5 DEF RoomSize
<1>7. QED
  BY <1>6 DEF AtThrows

(* What has been said stays said when more is said.                        *)
LEMMA AppendedMessages ==
    ASSUME NEW S, NEW s \in Seq(S), NEW t \in Seq(S)
    PROVE  /\ s \o t \in Seq(S)
           /\ ToSet(s \o t) = ToSet(s) \cup ToSet(t)
<1>1. /\ s \o t \in Seq(S) /\ Len(s \o t) = Len(s) + Len(t)
      /\ DOMAIN (s \o t) = 1..(Len(s) + Len(t))
      /\ Len(s) \in Nat /\ Len(t) \in Nat
      /\ DOMAIN s = 1..Len(s) /\ DOMAIN t = 1..Len(t)
  OBVIOUS
<1>2. \A i \in 1..Len(s) : (s \o t)[i] = s[i]
  OBVIOUS
<1>3. \A i \in 1..Len(t) : (s \o t)[i + Len(s)] = t[i]
  OBVIOUS
<1>4. ToSet(s \o t) \subseteq ToSet(s) \cup ToSet(t)
  <2>1. SUFFICES ASSUME NEW i \in 1..(Len(s) + Len(t))
                 PROVE  (s \o t)[i] \in ToSet(s) \cup ToSet(t)
    BY <1>1 DEF ToSet
  <2>2. CASE i \in 1..Len(s)
    BY <1>1, <1>2, <2>2 DEF ToSet
  <2>3. CASE i \notin 1..Len(s)
    <3>1. i - Len(s) \in 1..Len(t) /\ i = (i - Len(s)) + Len(s)
      BY <1>1, <2>3
    <3>2. (s \o t)[i] = t[i - Len(s)]
      BY <1>3, <3>1
    <3>3. QED
      BY <1>1, <3>1, <3>2 DEF ToSet
  <2>4. QED
    BY <2>2, <2>3
<1>5. ToSet(s) \subseteq ToSet(s \o t)
  <2>1. 1..Len(s) \subseteq 1..(Len(s) + Len(t))
    BY <1>1
  <2>2. QED
    BY <1>1, <1>2, <2>1 DEF ToSet
<1>6. ToSet(t) \subseteq ToSet(s \o t)
  <2>1. \A i \in 1..Len(t) : i + Len(s) \in 1..(Len(s) + Len(t))
    BY <1>1
  <2>2. QED
    BY <1>1, <1>3, <2>1 DEF ToSet
<1>7. QED
  BY <1>1, <1>4, <1>5, <1>6

(* One more message, and two.                                              *)
LEMMA SaidOnce ==
    ASSUME NEW S, NEW s \in Seq(S), NEW m \in S
    PROVE  Append(s, m) \in Seq(S) /\ ToSet(Append(s, m)) = ToSet(s) \cup {m}
<1>1. <<m>> \in Seq(S) /\ Append(s, m) = s \o <<m>>
  OBVIOUS
<1>2. DOMAIN <<m>> = {1} /\ <<m>>[1] = m
  OBVIOUS
<1>3. ToSet(<<m>>) = {m}
  BY <1>2 DEF ToSet
<1>4. s \o <<m>> \in Seq(S) /\ ToSet(s \o <<m>>) = ToSet(s) \cup ToSet(<<m>>)
  <2>1. <<m>> \in Seq(S)
    BY <1>1
  <2>2. QED
    BY <2>1, AppendedMessages, ZenonT(60)
<1>5. QED
  <2>1. Append(s, m) = s \o <<m>>
    BY <1>1
  <2>2. QED
    BY <1>3, <1>4, <2>1, Zenon

LEMMA SaidTwice ==
    ASSUME NEW S, NEW m \in S, NEW n \in S
    PROVE  <<m, n>> \in Seq(S) /\ ToSet(<<m, n>>) = {m, n}
<1>1. DOMAIN <<m, n>> = {1, 2} /\ <<m, n>>[1] = m /\ <<m, n>>[2] = n
  OBVIOUS
<1>2. ToSet(<<m, n>>) = {m, n}
  <2>1. ToSet(<<m, n>>) = {<<m, n>>[i] : i \in {1, 2}}
    BY <1>1 DEF ToSet
  <2>2. QED
    BY <1>1, <2>1
<1>3. QED
  BY <1>2

(* Whoever follows the pointers of the copied vector gets on, or nobody    *)
(* does any more.                                                          *)
LEMMA FollowsOn ==
    ASSUME NEW h, EndStartHost(h) \/ EndStartClients(h) \/ EndLeave(h)
    PROVE  /\ \E l \in {"end_start_clients", "end_leave", "end_host", Crashed} : Goto(h, l)
           /\ pc[h] = "end_start" => \E l \in {"end_start_clients", Crashed} : Goto(h, l)
           /\ pc[h] = "end_start_clients" => \E l \in {"end_leave", Crashed} : Goto(h, l)
           /\ pc[h] = "end_leave" => \E l \in {"end_host", Crashed} : Goto(h, l)
           /\ pc[h] \in {"end_start", "end_start_clients", "end_leave"}
           /\ UNCHANGED <<roomMap, roomVector, found, slot, ending, msgBuffer, peer, inbox>>
<1> USE DEF AfterFollowing, roomVars, localVars, peerVars
<1>1. CASE EndStartHost(h)
  BY <1>1 DEF EndStartHost
<1>2. CASE EndStartClients(h)
  BY <1>2 DEF EndStartClients, TellClients
<1>3. CASE EndLeave(h)
  BY <1>3 DEF EndLeave
<1>4. QED
  BY <1>1, <1>2, <1>3

-----------------------------------------------------------------------------
(* A step at a time                                                        *)

Acts(p) == Handler(p) \/ Peer(p)

(* A thread and a peer change nothing that is another's.                   *)
LEMMA ActsAlone ==
    ASSUME TypeOK, NEW p \in Peers, Acts(p), NEW q \in Peers, q # p
    PROVE  /\ pc'[q] = pc[q] /\ ending'[q] = ending[q] /\ msgBuffer'[q] = msgBuffer[q]
           /\ found'[q] = found[q] /\ slot'[q] = slot[q]
           /\ peer'[q] = peer[q] /\ inbox'[q] = inbox[q]
<1> USE DEF TypeOK, Goto, roomVars, localVars, peerVars
<1>1. CASE Receive(p) \/ ReceiveError(p) \/ ReceiveClosed(p) \/ Switch(p) \/ Exit(p)
  BY <1>1 DEF Receive, ReceiveError, ReceiveClosed, Switch, Exit, CallEndRoom
<1>2. CASE p \in Hosts /\ (Create(p) \/ EndRoom(p) \/ EndDelete(p))
  BY <1>2 DEF Create, EndRoom, EndDelete
<1>3. CASE p \in Hosts /\ (EndStartHost(p) \/ EndStartClients(p) \/ EndLeave(p) \/ EndHost(p))
  <2>1. CASE EndHost(p)
    BY <2>1 DEF EndHost
  <2>2. CASE EndStartHost(p) \/ EndStartClients(p) \/ EndLeave(p)
    <3>1. PICK l : Goto(p, l)
      BY <2>2, FollowsOn
    <3>2. UNCHANGED <<found, slot, ending, msgBuffer, peer, inbox>>
      BY <2>2, FollowsOn
    <3>3. QED
      BY <3>1, <3>2
  <2>3. QED
    BY <1>3, <2>1, <2>2
<1>4. CASE p \in Clients /\ (Lookup(p) \/ Check(p) \/ Add(p))
  BY <1>4 DEF Lookup, Check, Add
<1>5. CASE p \in Clients /\ (PushBack(p) \/ RemoveClient(p))
  BY <1>5 DEF PushBack, RemoveClient
<1>6. CASE Connect(p) \/ CloseWhenDismissed(p) \/ LeaveAlone(p) \/ Reset(p)
  BY <1>6 DEF Connect, CloseWhenDismissed, LeaveAlone, Reset, Say
<1>7. CASE HostStarts(p)
  BY <1>7 DEF HostStarts, Say
<1>8. QED
  BY <1>1, <1>2, <1>3, <1>4, <1>5, <1>6, <1>7 DEF Acts, Handler, HandlerStep, Peer

(* A peer connects once, and has no handler before.                        *)
LEMMA ConnectsFirst ==
    ASSUME TypeOK, NEW p \in Peers, Acts(p), NEW q \in Peers
    PROVE  /\ peer'[q] = "out" => peer[q] = "out" /\ ~(p = q /\ Connect(q))
           /\ pc[q] = "none" => pc'[q] = "none" \/ (p = q /\ Connect(q))
<1>1. CASE p # q
  BY <1>1, ActsAlone
<1>2. CASE p = q /\ Handler(q)
  <2>1. peer' = peer /\ pc[q] # "none"
    BY <1>2
       DEF Handler, HandlerStep, Receive, ReceiveError, ReceiveClosed, Switch, Exit,
           Create, EndRoom, EndStartHost, EndStartClients, TellClients, EndLeave, EndHost,
           EndDelete, Lookup, Check, Add, PushBack, RemoveClient, peerVars
  <2>2. ~Connect(q)
    BY <2>1, <1>2 DEF Connect, TypeOK
  <2>3. QED
    BY <1>2, <2>1, <2>2
<1>3. CASE p = q /\ Connect(q)
  BY <1>3 DEF Connect, TypeOK
<1>4. CASE p = q /\ ~Connect(q) /\ Peer(q)
  <2>1. pc' = pc /\ (peer'[q] = "out" => peer[q] = "out")
    BY <1>4 DEF Peer, CloseWhenDismissed, LeaveAlone, Reset, HostStarts, Say, TypeOK
  <2>2. QED
    BY <1>4, <2>1
<1>5. QED
  BY <1>1, <1>2, <1>3, <1>4 DEF Acts

(* Handlers that have returned do not come back.                           *)
Lasting ==
    /\ NoHandlerYet'
    /\ \A p \in Peers : Alive(p)' => Alive(p)

LEMMA StepLasts ==
    ASSUME TypeOK, NoHandlerYet, NEW p \in Peers, Acts(p)
    PROVE  Lasting
<1>1. NoHandlerYet'
  BY ConnectsFirst DEF NoHandlerYet
<1>2. ASSUME NEW q \in Peers, pc[q] = "gone" PROVE pc'[q] = "gone"
  <2>1. CASE p # q
    BY <1>2, <2>1, ActsAlone
  <2>2. CASE p = q /\ Connect(q)
    BY <1>2, <2>2 DEF NoHandlerYet, Connect
  <2>3. CASE p = q /\ ~Connect(q) /\ Peer(q)
    BY <1>2, <2>3 DEF Peer, CloseWhenDismissed, LeaveAlone, Reset, HostStarts
  <2>4. CASE p = q /\ Handler(q)
    BY <1>2, <2>4
       DEF Handler, HandlerStep, Receive, ReceiveError, ReceiveClosed, Switch, Exit,
           Create, EndRoom, EndStartHost, EndStartClients, TellClients, EndLeave, EndHost,
           EndDelete, Lookup, Check, Add, PushBack, RemoveClient
  <2>5. QED
    BY <2>1, <2>2, <2>3, <2>4 DEF Acts
<1>3. QED
  BY <1>1, <1>2 DEF Lasting, Alive

LEMMA StillLasts == IInv /\ UNCHANGED vars => Lasting
  BY DEF IInv, NoHandlerYet, Lasting, Alive, vars, peerVars

-----------------------------------------------------------------------------
(* The program starts in the invariant.                                    *)
LEMMA InitInv == Init => IInv
<1> SUFFICES ASSUME Init PROVE IInv
  OBVIOUS
<1>1. TypeOK
  BY PeersAssumption DEF Init, TypeOK, Peers, Places, NotEnding, CallOf
<1>2. EndingFoundRoom /\ HostToldFirst
  BY DEF Init, EndingFoundRoom, HostToldFirst, ToldFirst, EndingAt, Peers
<1>3. PunchIsMutual
  BY DEF Init, PunchIsMutual, ToSet, Peers
<1>4. NoHandlerYet
  BY DEF Init, NoHandlerYet
<1>5. QED
  BY <1>1, <1>2, <1>3, <1>4 DEF IInv

(* A host that has been told first still has when more is said.            *)
LEMMA ToldFirstKept ==
    ASSUME IInv, Lasting, NEW h \in Hosts,
           pc'[h] = "end_start_clients" =>
               /\ pc[h] = "end_start_clients" /\ ending'[h] = ending[h]
               /\ ToSet(told[ending[h].room]) \subseteq ToSet(told'[ending[h].room])
    PROVE  ToldFirst(h)'
<1>1. SUFFICES ASSUME pc'[h] = "end_start_clients",
                      NEW i \in DOMAIN ending[h].clients, pc'[ending[h].clients[i]] # "gone"
               PROVE  Start(ending[h].clients[i]) \in ToSet(told'[ending[h].room])
  BY DEF ToldFirst, Start, Alive
<1>2. ending[h].clients[i] \in Peers
  BY DEF IInv, TypeOK, Peers
<1>3. Alive(ending[h].clients[i])
  BY <1>1, <1>2 DEF Lasting, Alive
<1>4. QED
  BY <1>1, <1>3 DEF IInv, HostToldFirst, ToldFirst

(* A step that tells nobody anything and leads no handler further into     *)
(* endRoom().                                                              *)
LEMMA QuietStep ==
    ASSUME IInv, Lasting, TypeOK', told' = told,
           \A h \in Hosts : pc'[h] \in EndingAt =>
                                pc'[h] = pc[h] /\ ending'[h] = ending[h]
    PROVE  IInv'
<1>1. EndingFoundRoom'
  BY DEF IInv, EndingFoundRoom
<1>2. HostToldFirst'
  BY ToldFirstKept DEF HostToldFirst, EndingAt
<1>3. PunchIsMutual'
  BY DEF IInv, PunchIsMutual
<1>4. QED
  BY <1>1, <1>2, <1>3 DEF IInv, Lasting

(* roomMap[roomID] keeps to hosts, nullptr and the absence of an entry.    *)
LEMMA SubscriptType ==
    ASSUME TypeOK, NEW p \in Peers
    PROVE  /\ Subscript(p) \in Hosts \cup {Null}
           /\ MapAfterSubscript(p) \in [Rooms -> Hosts \cup {Absent, Null}]
<1>1. RoomOf[p] \in Rooms
  BY DEF Rooms
<1>2. QED
  BY <1>1 DEF TypeOK, Subscript, MapAfterSubscript, Room

(* A handler goes where it is sent; the others stay.                       *)
LEMMA Went ==
    ASSUME TypeOK, NEW p \in Peers, NEW l \in Places \cup {Crashed}, Goto(p, l)
    PROVE  /\ pc' \in [Peers -> Places \cup {Crashed}]
           /\ \A q \in Peers : pc'[q] = IF q = p THEN l ELSE pc[q]
  BY DEF TypeOK, Goto

-----------------------------------------------------------------------------
(* Steps in which nobody is told anything and the handler is not inside    *)
(* endRoom(): TypeOK and QuietStep.                                        *)
LEMMA CreateInv ==
    ASSUME IInv, Lasting, NEW h \in Hosts, Create(h) PROVE IInv'
<1>1. TypeOK /\ h \in Peers /\ RoomOf[h] \in Rooms
  BY DEF IInv, Peers, Rooms
<1>2. "loop" \in Places /\ "loop" \notin EndingAt
  BY DEF Places, EndingAt
<1>3. TypeOK'
  BY <1>1, <1>2, Went DEF TypeOK, Create, localVars, peerVars
<1>4. QED
  BY <1>1, <1>2, <1>3, Went, QuietStep DEF Create, localVars, Peers

LEMMA LookupInv ==
    ASSUME IInv, Lasting, NEW c \in Clients, Lookup(c) PROVE IInv'
<1>1. TypeOK /\ c \in Peers
  BY DEF IInv, Peers
<1>2. "check" \in Places /\ "check" \notin EndingAt
  BY DEF Places, EndingAt
<1>3. TypeOK'
  BY <1>1, <1>2, Went, SubscriptType DEF TypeOK, Lookup, peerVars
<1>4. QED
  BY <1>1, <1>2, <1>3, Went, QuietStep DEF Lookup, Peers

LEMMA CheckInv ==
    ASSUME IInv, Lasting, NEW c \in Clients, Check(c) PROVE IInv'
<1>1. TypeOK /\ c \in Peers
  BY DEF IInv, Peers
<1>2. PICK l \in {"gone", "add", Crashed} : Goto(c, l)
  BY DEF Check
<1>3. l \in Places \cup {Crashed} /\ l \notin EndingAt
  BY PeersAssumption DEF Places, EndingAt
<1>4. TypeOK'
  BY <1>1, <1>2, <1>3, Went DEF TypeOK, Check, roomVars, localVars, peerVars
<1>5. QED
  BY <1>1, <1>2, <1>3, <1>4, Went, QuietStep DEF Check, localVars, Peers

LEMMA AddInv ==
    ASSUME IInv, Lasting, NEW c \in Clients, Add(c) PROVE IInv'
<1>1. TypeOK /\ c \in Peers
  BY DEF IInv, Peers
<1>2. PICK l \in {"loop", "push"} : Goto(c, l)
  BY DEF Add
<1>3. l \in Places \cup {Crashed} /\ l \notin EndingAt
  BY DEF Places, EndingAt
<1>4. found' \in [Peers -> Hosts \cup {Null}]
  BY <1>1, SubscriptType DEF TypeOK, Add
<1>5. slot' \in [Peers -> Nat]
  <2>1. CASE Subscript(c) = Null
    BY <1>1, <2>1 DEF TypeOK, Add
  <2>2. CASE Subscript(c) # Null
    <3>1. Len(roomVector[Subscript(c)]) \in Nat
      BY <1>1, <2>2, SubscriptType DEF TypeOK
    <3>2. QED
      BY <1>1, <2>2, <3>1 DEF TypeOK, Add
  <2>3. QED
    BY <2>1, <2>2
<1>6. TypeOK'
  BY <1>1, <1>2, <1>3, <1>4, <1>5, Went, SubscriptType DEF TypeOK, Add, peerVars
<1>7. QED
  BY <1>1, <1>2, <1>3, <1>6, Went, QuietStep DEF Add, Peers

(* push_back: the vector stays a vector of clients, whatever lay in the    *)
(* memory.                                                                 *)
LEMMA PushBackInv ==
    ASSUME IInv, Lasting, NEW c \in Clients, PushBack(c) PROVE IInv'
<1>1. TypeOK /\ c \in Peers
  BY DEF IInv, Peers
<1>2. PICK l \in {"loop", Crashed} :
           Goto(c, l) /\ l \in Places \cup {Crashed} /\ l \notin EndingAt
  BY PeersAssumption DEF Places, EndingAt, PushBack
<1>3. PICK memory \in [1..slot[c] -> Clients] :
           roomVector' = [roomVector EXCEPT ![found[c]] = Append(memory, c)]
  BY DEF PushBack
<1>4. Append(memory, c) \in Seq(Clients)
  <2>1. slot[c] \in Nat
    BY <1>1 DEF TypeOK
  <2>2. memory \in Seq(Clients)
    BY <1>3, <2>1
  <2>3. QED
    BY <2>2
<1>5. TypeOK'
  BY <1>1, <1>2, <1>3, <1>4, Went DEF TypeOK, PushBack, localVars, peerVars
<1>6. QED
  BY <1>1, <1>2, <1>5, Went, QuietStep DEF PushBack, localVars, Peers

LEMMA ReceiveInv ==
    ASSUME IInv, Lasting, NEW p \in Peers, Receive(p) PROVE IInv'
<1>1. TypeOK /\ "switch" \in Places /\ "switch" \notin EndingAt
  BY DEF IInv, Places, EndingAt
<1>2. Head(inbox[p]) \in {"LEAVE", "START_PUNCH"} /\ Tail(inbox[p]) \in Seq({"LEAVE", "START_PUNCH"})
  BY <1>1 DEF TypeOK, Receive
<1>3. TypeOK'
  BY <1>1, <1>2, Went DEF TypeOK, Receive, roomVars
<1>4. QED
  BY <1>1, <1>3, Went, QuietStep DEF Receive, Peers

LEMMA ReceiveErrorInv ==
    ASSUME IInv, Lasting, NEW p \in Peers, ReceiveError(p) PROVE IInv'
<1>1. TypeOK /\ "switch" \in Places /\ "switch" \notin EndingAt
  BY DEF IInv, Places, EndingAt
<1>2. TypeOK'
  BY <1>1, Went DEF TypeOK, ReceiveError, roomVars, localVars, peerVars
<1>3. QED
  BY <1>1, <1>2, Went, QuietStep DEF ReceiveError, localVars, Peers

LEMMA EndingCalled ==
    ASSUME TypeOK, NEW p \in Peers, NEW start \in BOOLEAN, NEW next \in {"loop", "exit"},
           CallEndRoom(p, start, next)
    PROVE  /\ ending' \in [Peers -> [start : BOOLEAN, next : {"loop", "exit"},
                                      room : Hosts \cup {Null}, clients : Seq(Clients)]]
           /\ Goto(p, "end")
  BY DEF TypeOK, CallEndRoom, CallOf

LEMMA ReceiveClosedInv ==
    ASSUME IInv, Lasting, NEW p \in Peers, ReceiveClosed(p) PROVE IInv'
<1>1. TypeOK
  BY DEF IInv
<1>2. ending' \in [Peers -> [start : BOOLEAN, next : {"loop", "exit"},
                             room : Hosts \cup {Null}, clients : Seq(Clients)]]
  BY <1>1, EndingCalled DEF ReceiveClosed, TypeOK
<1>3. PICK l \in {"exit", "end", "remove"} : Goto(p, l)
  BY DEF ReceiveClosed, CallEndRoom
<1>4. l \in Places \cup {Crashed} /\ l \notin EndingAt
  BY DEF Places, EndingAt
<1>5. TypeOK'
  BY <1>1, <1>2, <1>3, <1>4, Went DEF TypeOK, ReceiveClosed, roomVars, peerVars
<1>6. \A q \in Peers : q # p => ending'[q] = ending[q]
  BY <1>1 DEF TypeOK, ReceiveClosed, CallEndRoom
<1>7. QED
  BY <1>1, <1>3, <1>4, <1>5, <1>6, Went, QuietStep DEF ReceiveClosed, Peers

LEMMA SwitchInv ==
    ASSUME IInv, Lasting, NEW p \in Peers, Switch(p) PROVE IInv'
<1>1. TypeOK
  BY DEF IInv
<1>2. ending' \in [Peers -> [start : BOOLEAN, next : {"loop", "exit"},
                             room : Hosts \cup {Null}, clients : Seq(Clients)]]
  BY <1>1, EndingCalled DEF Switch, TypeOK
<1>3. PICK l \in {"loop", "end", "remove"} : Goto(p, l)
  BY DEF Switch, CallEndRoom
<1>4. l \in Places \cup {Crashed} /\ l \notin EndingAt
  BY DEF Places, EndingAt
<1>5. TypeOK'
  BY <1>1, <1>2, <1>3, <1>4, Went DEF TypeOK, Switch, roomVars, peerVars
<1>6. \A q \in Peers : q # p => ending'[q] = ending[q]
  BY <1>1 DEF TypeOK, Switch, CallEndRoom
<1>7. QED
  BY <1>1, <1>3, <1>4, <1>5, <1>6, Went, QuietStep DEF Switch, Peers

(* A client that leaves brings the server down; no vector loses anybody.   *)
LEMMA RemoveClientCrashes ==
    ASSUME TypeOK, NEW c \in Clients, RemoveClient(c)
    PROVE  Goto(c, Crashed) /\ pc'[c] = Crashed /\ roomVector' = roomVector
<1>1. c \in Peers /\ Subscript(c) \in Hosts \cup {Null}
  BY SubscriptType DEF Peers
<1>2. Goto(c, Crashed) /\ roomVector' = roomVector
  BY <1>1, AtAlwaysThrows DEF RemoveClient
<1>3. QED
  BY <1>1, <1>2, Went DEF Peers

LEMMA RemoveClientInv ==
    ASSUME IInv, Lasting, NEW c \in Clients, RemoveClient(c) PROVE IInv'
<1>1. TypeOK /\ c \in Peers
  BY DEF IInv, Peers
<1>2. Goto(c, Crashed) /\ roomVector' = roomVector
  BY <1>1, RemoveClientCrashes
<1>3. Crashed \notin EndingAt
  BY PeersAssumption DEF Places, EndingAt
<1>4. TypeOK'
  BY <1>1, <1>2, Went, SubscriptType DEF TypeOK, RemoveClient, localVars, peerVars
<1>5. QED
  BY <1>1, <1>2, <1>3, <1>4, Went, QuietStep DEF RemoveClient, localVars, Peers

LEMMA ExitInv ==
    ASSUME IInv, Lasting, NEW p \in Peers, Exit(p) PROVE IInv'
<1>1. TypeOK /\ "gone" \in Places /\ "gone" \notin EndingAt
  BY DEF IInv, Places, EndingAt
<1>2. TypeOK'
  BY <1>1, Went DEF TypeOK, Exit, roomVars, localVars, peerVars
<1>3. QED
  BY <1>1, <1>2, Went, QuietStep DEF Exit, localVars, Peers

-----------------------------------------------------------------------------
(* endRoom(): the room and the clients are taken once, under pc "end".     *)
LEMMA EndRoomInv ==
    ASSUME IInv, Lasting, NEW h \in Hosts, EndRoom(h) PROVE IInv'
<1>1. TypeOK /\ h \in Peers /\ Subscript(h) \in Hosts \cup {Null}
  BY SubscriptType DEF IInv, Peers
<1>2. CASE Subscript(h) = Null \/ ~Alive(Subscript(h))
  <2>1. Goto(h, Crashed) /\ ending' = ending
    BY <1>2 DEF EndRoom
  <2>2. Crashed \notin EndingAt
    BY PeersAssumption DEF Places, EndingAt
  <2>3. TypeOK'
    BY <1>1, <2>1, Went, SubscriptType DEF TypeOK, EndRoom, peerVars
  <2>4. QED
    BY <1>1, <2>1, <2>2, <2>3, Went, QuietStep DEF EndRoom, Peers
<1>3. CASE ~(Subscript(h) = Null \/ ~Alive(Subscript(h)))
  <2>1. PICK l \in {"end_start", "end_leave"} : Goto(h, l)
    BY <1>3 DEF EndRoom
  <2>2. l \in Places
    BY DEF Places
  <2>3. Subscript(h) \in Hosts /\ roomVector[Subscript(h)] \in Seq(Clients)
    BY <1>1, <1>3 DEF TypeOK
  <2>4. /\ ending' \in [Peers -> [start : BOOLEAN, next : {"loop", "exit"},
                                  room : Hosts \cup {Null}, clients : Seq(Clients)]]
        /\ \A q \in Peers : ending'[q].room = IF q = h THEN Subscript(h) ELSE ending[q].room
        /\ \A q \in Peers : q # h => ending'[q] = ending[q]
    <3>1. ending' = [ending EXCEPT ![h] = [@ EXCEPT !.room = Subscript(h),
                                       !.clients = roomVector[Subscript(h)]]]
      BY <1>3 DEF EndRoom
    <3>2. ending[h] \in [start : BOOLEAN, next : {"loop", "exit"},
                         room : Hosts \cup {Null}, clients : Seq(Clients)]
      BY <1>1 DEF TypeOK
    <3>3. /\ ending'[h] \in [start : BOOLEAN, next : {"loop", "exit"},
                             room : Hosts \cup {Null}, clients : Seq(Clients)]
          /\ ending'[h].room = Subscript(h)
      BY <1>1, <2>3, <3>1, <3>2 DEF TypeOK
    <3>4. QED
      BY <1>1, <3>1, <3>3 DEF TypeOK
  <2>5. TypeOK'
    BY <1>1, <2>1, <2>2, <2>4, Went, SubscriptType DEF TypeOK, EndRoom, peerVars
  <2>6. EndingFoundRoom'
    BY <1>1, <2>1, <2>2, <2>3, <2>4, Went, ZenonT(60) DEF IInv, EndingFoundRoom, Peers
  <2>7. HostToldFirst'
    <3>1. \A g \in Hosts : pc'[g] = "end_start_clients" =>
             pc[g] = "end_start_clients" /\ ending'[g] = ending[g]
      BY <1>1, <2>1, <2>2, <2>4, Went DEF Peers
    <3>2. told' = told
      BY DEF EndRoom
    <3>3. QED
      BY <3>1, <3>2, ToldFirstKept DEF HostToldFirst
  <2>8. PunchIsMutual'
    BY DEF IInv, PunchIsMutual, EndRoom
  <2>9. QED
    BY <2>5, <2>6, <2>7, <2>8 DEF IInv, Lasting
<1>4. QED
  BY <1>2, <1>3

(* More said, nothing taken back: the host has still been told first.      *)
LEMMA MoreSaid ==
    ASSUME IInv, Lasting, NEW h \in Hosts, NEW l \in Places \cup {Crashed}, Goto(h, l),
           l \in EndingAt => pc[h] \in EndingAt,
           l # "end_start_clients", UNCHANGED ending,
           \A p \in Peers : ToSet(told[p]) \subseteq ToSet(told'[p])
    PROVE  EndingFoundRoom' /\ HostToldFirst'
<1>1. TypeOK /\ h \in Peers
  BY DEF IInv, Peers
<1>2. EndingFoundRoom'
  BY <1>1, Went DEF IInv, EndingFoundRoom, Peers
<1>3. ASSUME NEW g \in Hosts PROVE ToldFirst(g)'
  <2>1. pc'[g] = "end_start_clients" => pc[g] = "end_start_clients"
    BY <1>1, Went DEF Peers
  <2>2. pc[g] = "end_start_clients" => ending[g].room \in Peers
    BY DEF IInv, EndingFoundRoom, EndingAt, Peers
  <2>3. QED
    BY <2>1, <2>2, ToldFirstKept
<1>4. QED
  BY <1>2, <1>3 DEF HostToldFirst

(* Nobody but hosts learns anything, or clients learn no address.          *)
LEMMA NoAddressForClients ==
    ASSUME IInv,
           \A p \in Peers : ToSet(told[p]) \subseteq ToSet(told'[p]),
           \A c \in Clients : ToSet(told'[c]) \subseteq ToSet(told[c]) \cup {Leave}
    PROVE  PunchIsMutual'
<1>1. SUFFICES ASSUME NEW h \in Hosts, NEW c \in Clients, Start(h) \in ToSet(told'[c])
               PROVE  Start(c) \in ToSet(told'[h])
  BY DEF PunchIsMutual, Start
<1>2. Start(h) # Leave
  BY DEF Start, Leave
<1>3. Start(c) \in ToSet(told[h])
  BY <1>1, <1>2 DEF IInv, PunchIsMutual
<1>4. QED
  BY <1>3 DEF Peers

(* What a host is told while its room starts: its own address and those of *)
(* the clients.                                                            *)
LEMMA ForHostIs ==
    ASSUME NEW host, NEW clients, <<Start(host)>> \in Seq(Messages),
           [i \in DOMAIN clients |-> Start(clients[i])] \in Seq(Messages)
    PROVE  /\ ForHost(host, clients) \in Seq(Messages)
           /\ ToSet(ForHost(host, clients)) =
                 ToSet(<<Start(host)>>) \cup ToSet([i \in DOMAIN clients |-> Start(clients[i])])
<1> DEFINE first == <<Start(host)>>
           others == [i \in DOMAIN clients |-> Start(clients[i])]
<1>1. ForHost(host, clients) = first \o others
  BY DEF ForHost
<1>2. first \in Seq(Messages) /\ others \in Seq(Messages)
  OBVIOUS
<1>3. SUFFICES /\ first \o others \in Seq(Messages)
               /\ ToSet(first \o others) = ToSet(first) \cup ToSet(others)
  BY <1>1, Zenon
<1> HIDE DEF first, others
<1>4. QED
  BY <1>2, AppendedMessages

LEMMA ReadIs ==
    ASSUME NEW clients \in Seq(Clients), NEW read \in AddressesRead(clients)
    PROVE  /\ read \in Seq(Peers) /\ DOMAIN read = DOMAIN clients
           /\ \A i \in DOMAIN clients : Alive(clients[i]) => read[i] = clients[i]
<1>1. DOMAIN clients = 1..Len(clients) /\ Len(clients) \in Nat
  OBVIOUS
<1>2. read \in [1..Len(clients) -> Peers]
  BY <1>1 DEF AddressesRead
<1>3. QED
  BY <1>1, <1>2 DEF AddressesRead

LEMMA EndStartHostInv ==
    ASSUME IInv, Lasting, NEW h \in Hosts, EndStartHost(h) PROVE IInv'
<1> DEFINE host == ending[h].room
           clients == ending[h].clients
<1>1. /\ TypeOK /\ h \in Peers /\ host \in Hosts /\ host \in Peers
      /\ clients \in Seq(Clients) /\ told[host] \in Seq(Messages)
  BY DEF IInv, TypeOK, EndStartHost, EndingFoundRoom, EndingAt, Peers, Messages
<1>2. PICK l \in {"end_start_clients", Crashed} : Goto(h, l)
  BY DEF EndStartHost, AfterFollowing
<1>3. l \in Places \cup {Crashed} /\ (l \in EndingAt => l = "end_start_clients")
  BY PeersAssumption DEF Places, EndingAt
<1>4. PICK read \in AddressesRead(clients) :
           told' = [told EXCEPT ![host] = @ \o ForHost(host, read)]
  BY DEF EndStartHost
<1>5. /\ read \in Seq(Peers) /\ DOMAIN read = DOMAIN clients
      /\ \A i \in DOMAIN clients : Alive(clients[i]) => read[i] = clients[i]
  BY <1>1, <1>4, ReadIs, Zenon
<1>6. /\ ForHost(host, read) \in Seq(Messages)
      /\ \A i \in DOMAIN clients :
            Alive(clients[i]) => Start(clients[i]) \in ToSet(ForHost(host, read))
  <2>1. /\ <<Start(host)>> \in Seq(Messages)
        /\ [i \in DOMAIN read |-> Start(read[i])] \in Seq(Messages)
    BY <1>1, <1>5 DEF Messages
  <2>2. \A i \in DOMAIN read :
           Start(read[i]) \in ToSet([j \in DOMAIN read |-> Start(read[j])])
    BY DEF ToSet
  <2>3. /\ ForHost(host, read) \in Seq(Messages)
        /\ ToSet(ForHost(host, read)) =
              ToSet(<<Start(host)>>) \cup ToSet([j \in DOMAIN read |-> Start(read[j])])
    BY <2>1, ForHostIs, Zenon
  <2>4. QED
    BY <1>5, <2>2, <2>3
<1>7. /\ told[host] \o ForHost(host, read) \in Seq(Messages)
      /\ ToSet(told[host] \o ForHost(host, read))
            = ToSet(told[host]) \cup ToSet(ForHost(host, read))
  BY <1>1, <1>6, AppendedMessages
<1>8. /\ told' \in [Peers -> Seq(Messages)]
      /\ \A p \in Peers : told'[p] = IF p = host THEN told[host] \o ForHost(host, read)
                                      ELSE told[p]
  BY <1>1, <1>4, <1>7 DEF TypeOK, Messages
<1>9. TypeOK'
  BY <1>1, <1>2, <1>3, <1>8, Went
     DEF TypeOK, EndStartHost, roomVars, localVars, peerVars, Messages
<1>10. \A p \in Peers : ToSet(told[p]) \subseteq ToSet(told'[p])
  BY <1>7, <1>8
<1>11. ending' = ending /\ pc[h] = "end_start"
  BY DEF EndStartHost, localVars
<1>12. EndingFoundRoom'
  BY <1>1, <1>2, <1>3, <1>11, Went DEF IInv, EndingFoundRoom, Peers, EndingAt
<1>13. ASSUME NEW g \in Hosts PROVE ToldFirst(g)'
  <2>1. CASE g = h
    <3>1. SUFFICES ASSUME NEW i \in DOMAIN clients, pc'[clients[i]] # "gone"
                   PROVE  Start(clients[i]) \in ToSet(told'[host])
      BY <1>11, <2>1 DEF ToldFirst, Start, Alive
    <3>2. Alive(clients[i])
      BY <1>1, <3>1 DEF Lasting, Alive, Peers
    <3>3. QED
      BY <1>1, <1>6, <1>7, <1>8, <3>2
  <2>2. CASE g # h
    <3>1. pc'[g] = pc[g] /\ g \in Peers
      BY <1>1, <1>2, <1>3, <2>2, Went DEF Peers
    <3>2. pc[g] = "end_start_clients" => ending[g].room \in Peers
      BY <3>1 DEF IInv, EndingFoundRoom, EndingAt, Peers
    <3>3. QED
      BY <1>10, <1>11, <3>1, <3>2, ToldFirstKept
  <2>3. QED
    BY <2>1, <2>2
<1>14. PunchIsMutual'
  <2>1. \A c \in Clients : told'[c] = told[c]
    BY <1>1, <1>8, PeersAssumption DEF Peers
  <2>2. QED
    BY <1>10, <2>1, NoAddressForClients
<1>15. QED
  BY <1>9, <1>12, <1>13, <1>14 DEF IInv, HostToldFirst, Lasting

(* Each client that learns the host's address is one of the copied vector, *)
(* and the host has learned of all of those.                               *)
LEMMA EndStartClientsInv ==
    ASSUME IInv, Lasting, NEW h \in Hosts, EndStartClients(h) PROVE IInv'
<1> DEFINE host == ending[h].room
           clients == ending[h].clients
<1>1. /\ TypeOK /\ h \in Peers /\ host \in Hosts /\ host \in Peers
      /\ clients \in Seq(Clients) /\ pc[h] = "end_start_clients"
  BY DEF IInv, TypeOK, EndStartClients, TellClients, EndingFoundRoom, EndingAt, Peers
<1>2. PICK l \in {"end_leave", Crashed} : Goto(h, l)
  BY DEF EndStartClients, TellClients, AfterFollowing
<1>3. l \in Places \cup {Crashed} /\ l # "end_start_clients" /\ pc[h] \in EndingAt
  BY <1>1, PeersAssumption DEF Places, EndingAt
<1>4. \A p \in Peers : told'[p] = IF p \in ToSet(clients) /\ Alive(p)
                                 THEN told[p] \o ForClient(host, p) ELSE told[p]
  BY DEF EndStartClients, TellClients
<1>5. \A p \in Peers : /\ told[p] \in Seq(Messages)
                       /\ ForClient(host, p) \in Seq(Messages)
                       /\ ToSet(ForClient(host, p)) = {Start(host), Start(p)}
  <2>1. TAKE p \in Peers
  <2>2. told[p] \in Seq(Messages) /\ Start(host) \in Messages /\ Start(p) \in Messages
    BY <1>1 DEF TypeOK, Messages
  <2>3. QED
    BY <2>2, SaidTwice DEF ForClient
<1>6. \A p \in Peers :
         /\ told'[p] \in Seq(Messages)
         /\ ToSet(told'[p]) = ToSet(told[p]) \cup
                (IF p \in ToSet(clients) /\ Alive(p) THEN {Start(host), Start(p)} ELSE {})
  <2>1. TAKE p \in Peers
  <2>2. /\ told[p] \o ForClient(host, p) \in Seq(Messages)
        /\ ToSet(told[p] \o ForClient(host, p)) = ToSet(told[p]) \cup {Start(host), Start(p)}
    BY <1>5, AppendedMessages
  <2>3. QED
    BY <1>4, <1>5, <2>2
<1>7. told' \in [Peers -> Seq(Messages)]
  BY <1>6 DEF EndStartClients, TellClients
<1>8. isLeaving' \in [Peers -> BOOLEAN]
  BY <1>1 DEF EndStartClients, TellClients, MarkLeaving, TypeOK
<1>9. TypeOK'
  BY <1>1, <1>2, <1>3, <1>7, <1>8, Went
     DEF TypeOK, EndStartClients, TellClients, roomVars, localVars, peerVars, Messages
<1>10. EndingFoundRoom' /\ HostToldFirst'
  BY <1>2, <1>3, <1>6, MoreSaid DEF EndStartClients, TellClients, localVars
<1>11. PunchIsMutual'
  <2>1. SUFFICES ASSUME NEW g \in Hosts, NEW c \in Clients, Start(g) \in ToSet(told'[c])
                 PROVE  Start(c) \in ToSet(told'[g])
    BY DEF PunchIsMutual, Start
  <2>2. c \in Peers /\ g \in Peers /\ g # c
    BY PeersAssumption DEF Peers
  <2>3. CASE Start(g) \in ToSet(told[c])
    BY <1>6, <2>2, <2>3 DEF IInv, PunchIsMutual
  <2>4. CASE Start(g) \notin ToSet(told[c])
    <3>1. c \in ToSet(clients) /\ Alive(c) /\ Start(g) \in {Start(host), Start(c)}
      BY <1>6, <2>1, <2>2, <2>4
    <3>2. g = host
      BY <2>2, <3>1 DEF Start
    <3>3. Start(c) \in ToSet(told[host])
      BY <1>1, <3>1 DEF IInv, HostToldFirst, ToldFirst, ToSet
    <3>4. QED
      BY <1>6, <2>2, <3>2, <3>3
  <2>5. QED
    BY <2>3, <2>4
<1>12. QED
  BY <1>9, <1>10, <1>11 DEF IInv, Lasting

LEMMA EndLeaveInv ==
    ASSUME IInv, Lasting, NEW h \in Hosts, EndLeave(h) PROVE IInv'
<1>1. TypeOK /\ h \in Peers
  BY DEF IInv, Peers
<1>2. PICK l \in {"end_host", Crashed} : Goto(h, l)
  BY DEF EndLeave, AfterFollowing
<1>3. l \in Places \cup {Crashed} /\ l # "end_start_clients" /\ pc[h] \in EndingAt
  BY PeersAssumption DEF Places, EndLeave, EndingAt
<1>4. \A p \in Peers : /\ told[p] \in Seq(Messages)
                       /\ Append(told[p], Leave) \in Seq(Messages)
                       /\ ToSet(Append(told[p], Leave)) = ToSet(told[p]) \cup {Leave}
  <2>1. TAKE p \in Peers
  <2>2. told[p] \in Seq(Messages) /\ Leave \in Messages
    BY <1>1 DEF TypeOK, Messages
  <2>3. QED
    BY <2>2, SaidOnce
<1>5. \A p \in Peers : /\ told'[p] \in Seq(Messages)
                       /\ ToSet(told[p]) \subseteq ToSet(told'[p])
                       /\ ToSet(told'[p]) \subseteq ToSet(told[p]) \cup {Leave}
  BY <1>4 DEF EndLeave
<1>6. told' \in [Peers -> Seq(Messages)]
  BY <1>5 DEF EndLeave
<1>7. TypeOK'
  BY <1>1, <1>2, <1>3, <1>6, Went DEF TypeOK, EndLeave, roomVars, localVars, peerVars, Messages
<1>8. EndingFoundRoom' /\ HostToldFirst'
  BY <1>2, <1>3, <1>5, MoreSaid DEF EndLeave, localVars
<1>9. PunchIsMutual'
  BY <1>5, NoAddressForClients DEF Peers
<1>10. QED
  BY <1>7, <1>8, <1>9 DEF IInv, Lasting

LEMMA EndHostInv ==
    ASSUME IInv, Lasting, NEW h \in Hosts, EndHost(h) PROVE IInv'
<1> DEFINE host == ending[h].room
<1>1. TypeOK /\ h \in Peers /\ host \in Hosts /\ host \in Peers
  BY DEF IInv, EndHost, EndingFoundRoom, EndingAt, Peers
<1>2. PICK l \in {"end_delete", Crashed} : Goto(h, l)
  BY DEF EndHost
<1>3. l \in Places \cup {Crashed} /\ l \notin EndingAt /\ l # "end_start_clients"
  BY PeersAssumption DEF Places, EndingAt
<1>4. told[host] \in Seq(Messages) /\ Leave \in Messages
  BY <1>1 DEF TypeOK, Messages
<1>5. /\ Append(told[host], Leave) \in Seq(Messages)
      /\ ToSet(Append(told[host], Leave)) = ToSet(told[host]) \cup {Leave}
  BY <1>4, SaidOnce
<1>6. /\ told' \in [Peers -> Seq(Messages)]
      /\ \A p \in Peers : told'[p] = IF p = host THEN Append(told[host], Leave) ELSE told[p]
  BY <1>1, <1>5 DEF EndHost, TypeOK, Messages
<1>7. \A p \in Peers : /\ ToSet(told[p]) \subseteq ToSet(told'[p])
                       /\ ToSet(told'[p]) \subseteq ToSet(told[p]) \cup {Leave}
  BY <1>5, <1>6
<1>8. TypeOK'
  BY <1>1, <1>2, <1>3, <1>6, Went DEF TypeOK, EndHost, roomVars, localVars, peerVars, Messages
<1>9. EndingFoundRoom' /\ HostToldFirst'
  BY <1>2, <1>3, <1>7, MoreSaid DEF EndHost, localVars
<1>10. PunchIsMutual'
  BY <1>7, NoAddressForClients DEF Peers
<1>11. QED
  BY <1>8, <1>9, <1>10 DEF IInv, Lasting

LEMMA EndDeleteInv ==
    ASSUME IInv, Lasting, NEW h \in Hosts, EndDelete(h) PROVE IInv'
<1>1. TypeOK /\ h \in Peers /\ RoomOf[h] \in Rooms
  BY DEF IInv, Peers, Rooms
<1>2. ending[h].next \in {"loop", "exit"} /\ Goto(h, ending[h].next)
  BY <1>1 DEF TypeOK, EndDelete
<1>3. ending[h].next \in Places /\ ending[h].next \notin EndingAt
  BY <1>2 DEF Places, EndingAt
<1>4. ending' \in [Peers -> [start : BOOLEAN, next : {"loop", "exit"},
                             room : Hosts \cup {Null}, clients : Seq(Clients)]]
  BY <1>1 DEF TypeOK, EndDelete, NotEnding, CallOf
<1>5. TypeOK'
  BY <1>1, <1>2, <1>3, <1>4, Went DEF TypeOK, EndDelete, peerVars
<1>6. \A q \in Peers : q # h => ending'[q] = ending[q]
  BY <1>1 DEF TypeOK, EndDelete
<1>7. told' = told
  BY DEF EndDelete
<1>8. \A g \in Hosts : pc'[g] \in EndingAt => pc'[g] = pc[g] /\ ending'[g] = ending[g]
  BY <1>1, <1>2, <1>3, <1>6, Went DEF Peers
<1>9. QED
  BY <1>5, <1>7, <1>8, QuietStep

-----------------------------------------------------------------------------
(* The peers say no more to the clients than the server does.              *)
LEMMA ConnectInv ==
    ASSUME IInv, Lasting, NEW p \in Peers, Connect(p) PROVE IInv'
<1>1. TypeOK
  BY DEF IInv
<1>2. PICK l \in {"create", "lookup"} : Goto(p, l)
  BY DEF Connect
<1>3. l \in Places \cup {Crashed} /\ l \notin EndingAt
  BY DEF Places, EndingAt
<1>4. TypeOK'
  BY <1>1, <1>2, <1>3, Went DEF TypeOK, Connect, roomVars, localVars
<1>5. QED
  BY <1>1, <1>2, <1>3, <1>4, Went, QuietStep DEF Connect, localVars, Peers

LEMMA PeerInv ==
    ASSUME IInv, Lasting, NEW p \in Peers,
           CloseWhenDismissed(p) \/ LeaveAlone(p) \/ Reset(p) \/ HostStarts(p)
    PROVE  IInv'
<1>1. TypeOK
  BY DEF IInv
<1>2. UNCHANGED <<roomVars, isLeaving, pc, localVars, told>>
  BY DEF CloseWhenDismissed, LeaveAlone, Reset, HostStarts
<1>3. peer' \in [Peers -> {"out", "in", "closed", "reset"}]
  BY <1>1, ZenonT(60) DEF TypeOK, CloseWhenDismissed, LeaveAlone, Reset, HostStarts, Say
<1>4. inbox' \in [Peers -> Seq({"LEAVE", "START_PUNCH"})]
  <2>1. /\ inbox[p] \in Seq({"LEAVE", "START_PUNCH"})
        /\ <<>> \in Seq({"LEAVE", "START_PUNCH"})
    BY <1>1 DEF TypeOK
  <2>2. \A m \in {"LEAVE", "START_PUNCH"} :
           Append(inbox[p], m) \in Seq({"LEAVE", "START_PUNCH"})
    BY <2>1
  <2>3. PICK s \in Seq({"LEAVE", "START_PUNCH"}) :
           inbox' = inbox \/ inbox' = [inbox EXCEPT ![p] = s]
    BY <2>1, <2>2 DEF CloseWhenDismissed, LeaveAlone, Reset, HostStarts, Say
  <2>4. QED
    BY <1>1, <2>3 DEF TypeOK
<1>5. TypeOK'
  BY <1>1, <1>2, <1>3, <1>4 DEF TypeOK, roomVars, localVars
<1>6. QED
  BY <1>2, <1>5, QuietStep DEF localVars

-----------------------------------------------------------------------------
LEMMA NextInv == IInv /\ [Next]_vars => IInv'
<1> SUFFICES ASSUME IInv, [Next]_vars PROVE IInv'
  OBVIOUS
<1>1. CASE UNCHANGED vars
  <2>1. TypeOK'
    BY <1>1 DEF IInv, TypeOK, vars, roomVars, localVars, peerVars
  <2>2. Lasting
    BY <1>1, StillLasts
  <2>3. QED
    BY <1>1, <2>1, <2>2, QuietStep DEF vars, localVars
<1>2. ASSUME NEW p \in Peers, Acts(p) PROVE IInv'
  <2>1. Lasting
    BY <1>2, StepLasts DEF IInv
  <2>2. CASE Receive(p) \/ ReceiveError(p) \/ ReceiveClosed(p) \/ Switch(p) \/ Exit(p)
    BY <2>1, <2>2, ReceiveInv, ReceiveErrorInv, ReceiveClosedInv, SwitchInv, ExitInv
  <2>3. CASE p \in Hosts /\ (Create(p) \/ EndRoom(p) \/ EndStartHost(p) \/ EndStartClients(p)
                               \/ EndLeave(p) \/ EndHost(p) \/ EndDelete(p))
    BY <2>1, <2>3, CreateInv, EndRoomInv, EndStartHostInv, EndStartClientsInv, EndLeaveInv,
       EndHostInv, EndDeleteInv
  <2>4. CASE p \in Clients /\ (Lookup(p) \/ Check(p) \/ Add(p) \/ PushBack(p)
                                 \/ RemoveClient(p))
    BY <2>1, <2>4, LookupInv, CheckInv, AddInv, PushBackInv, RemoveClientInv
  <2>5. CASE Peer(p)
    BY <2>1, <2>5, ConnectInv, PeerInv DEF Peer
  <2>6. QED
    BY <1>2, <2>2, <2>3, <2>4, <2>5 DEF Acts, Handler, HandlerStep
<1>3. QED
  BY <1>1, <1>2 DEF Next, Acts

(* The inductive invariant holds in every reachable state.                 *)
LEMMA IInvHolds == Safety => []IInv
<1>1. QED
  BY InitInv, NextInv, PTL DEF Safety

(* The map, the rooms, the messages and the places of the handlers keep    *)
(* their types, whatever garbage push_back finds in the memory.            *)
THEOREM TypeCorrect == Safety => []TypeOK
<1>1. IInv => TypeOK
  BY DEF IInv
<1>2. QED
  BY <1>1, IInvHolds, PTL

(* Whatever the peers do and however the handlers interleave, a client the *)
(* server tells of a host is one that host has been told of.               *)
THEOREM PunchMutual == Safety => []PunchIsMutual
<1>1. IInv => PunchIsMutual
  BY DEF IInv
<1>2. QED
  BY <1>1, IInvHolds, PTL

(* removeClientFromRoom() never removes a client from a room: the handler  *)
(* that calls it brings the process down instead, for every number of      *)
(* clients in the room and wherever in its vector the client is.           *)
THEOREM NoClientEverRemoved ==
    Safety => [][\A c \in Clients : RemoveClient(c) =>
                     pc'[c] = Crashed /\ UNCHANGED roomVector]_vars
<1>1. IInv => \A c \in Clients : RemoveClient(c) => pc'[c] = Crashed /\ UNCHANGED roomVector
  BY RemoveClientCrashes DEF IInv
<1>2. QED
  BY <1>1, IInvHolds, PTL

-----------------------------------------------------------------------------
(* Who is told what                                                        *)

(* A host is told nothing but addresses while its room starts.             *)
LEMMA ForHostSays ==
    ASSUME NEW host \in Peers, NEW clients \in Seq(Peers)
    PROVE  ForHost(host, clients) \in Seq(Messages) /\ Leave \notin ToSet(ForHost(host, clients))
<1> DEFINE others == [i \in DOMAIN clients |-> Start(clients[i])]
<1>1. \A i \in DOMAIN clients : clients[i] \in Peers
  OBVIOUS
<1>2. <<Start(host)>> \in Seq(Messages) /\ others \in Seq(Messages)
  BY <1>1 DEF Messages, Peers
<1>3. /\ ForHost(host, clients) \in Seq(Messages)
      /\ ToSet(ForHost(host, clients)) = ToSet(<<Start(host)>>) \cup ToSet(others)
  BY <1>2, ForHostIs, Zenon
<1>4. Leave \notin ToSet(others)
  BY DEF ToSet, Start, Leave
<1>5. Leave \notin ToSet(<<Start(host)>>)
  BY DEF ToSet, Start, Leave
<1>6. QED
  BY <1>3, <1>4, <1>5

(* Who is told to leave, and by which step; nobody is taken back.          *)
LEMMA DismissedBy ==
    ASSUME IInv, NEW p \in Peers, Acts(p), NEW q \in Peers
    PROVE  /\ Dismissed(q) => Dismissed(q)'
           /\ Dismissed(q)' =>
                 \/ Dismissed(q)
                 \/ p \in Hosts /\ EndLeave(p) /\ q \in ToSet(ending[p].clients)
                 \/ p \in Hosts /\ EndHost(p) /\ q = ending[p].room
           /\ isLeaving[q] => isLeaving'[q]
<1>1. TypeOK /\ told[q] \in Seq(Messages) /\ Leave \in Messages
  BY DEF IInv, TypeOK, Messages
<1>2. CASE UNCHANGED <<told, isLeaving>>
  BY <1>2 DEF Dismissed
<1>3. CASE p \in Hosts /\ EndStartHost(p)
  <2> DEFINE host == ending[p].room
  <2>1. host \in Peers /\ ending[p].clients \in Seq(Clients) /\ isLeaving' = isLeaving
    BY <1>1, <1>3 DEF EndStartHost, IInv, EndingFoundRoom, EndingAt, Peers, TypeOK
  <2>6. PICK read \in AddressesRead(ending[p].clients) :
             told' = [told EXCEPT ![host] = @ \o ForHost(host, read)]
    BY <1>3 DEF EndStartHost
  <2> DEFINE says == ForHost(host, read)
  <2>2. told'[q] = IF q = host THEN told[q] \o says ELSE told[q]
    BY <1>1, <2>1, <2>6 DEF TypeOK
  <2>3. says \in Seq(Messages) /\ Leave \notin ToSet(says)
    <3>1. read \in Seq(Peers)
      BY <2>1, <2>6, ReadIs, Zenon
    <3>2. QED
      BY <2>1, <3>1, ForHostSays
  <2>4. ToSet(told[q] \o says) = ToSet(told[q]) \cup ToSet(says)
    BY <1>1, <2>3, AppendedMessages
  <2> HIDE DEF says
  <2>5. QED
    BY <2>1, <2>2, <2>3, <2>4 DEF Dismissed
<1>4. CASE p \in Hosts /\ EndStartClients(p)
  <2> DEFINE host == ending[p].room
  <2>1. host \in Peers /\ (isLeaving[q] => isLeaving'[q])
    BY <1>1, <1>4
       DEF EndStartClients, TellClients, MarkLeaving, IInv, EndingFoundRoom, EndingAt, Peers
  <2>2. told'[q] \in {told[q], told[q] \o ForClient(host, q)}
    BY <1>4 DEF EndStartClients, TellClients
  <2>3. /\ ForClient(host, q) \in Seq(Messages)
        /\ ToSet(ForClient(host, q)) = {Start(host), Start(q)}
    <3>1. Start(host) \in Messages /\ Start(q) \in Messages
      BY <2>1 DEF Messages
    <3>2. QED
      BY <3>1, SaidTwice DEF ForClient
  <2>4. ToSet(told[q] \o ForClient(host, q)) = ToSet(told[q]) \cup {Start(host), Start(q)}
    BY <1>1, <2>3, AppendedMessages
  <2>5. Start(host) # Leave /\ Start(q) # Leave
    BY DEF Start, Leave
  <2>6. QED
    BY <2>1, <2>2, <2>4, <2>5 DEF Dismissed
<1>5. CASE p \in Hosts /\ EndLeave(p)
  <2>1. /\ isLeaving' = isLeaving
        /\ told'[q] = IF q \in ToSet(ending[p].clients) /\ Alive(q)
                      THEN Append(told[q], Leave) ELSE told[q]
    BY <1>5 DEF EndLeave, localVars
  <2>2. ToSet(Append(told[q], Leave)) = ToSet(told[q]) \cup {Leave}
    BY <1>1, SaidOnce
  <2>3. QED
    BY <1>5, <2>1, <2>2 DEF Dismissed
<1>6. CASE p \in Hosts /\ EndHost(p)
  <2>1. ending[p].room \in Peers
    BY <1>6 DEF EndHost, IInv, EndingFoundRoom, EndingAt, Peers
  <2>2. /\ told'[q] = IF q = ending[p].room THEN Append(told[q], Leave) ELSE told[q]
        /\ isLeaving[q] => isLeaving'[q]
    BY <1>1, <1>6, <2>1 DEF EndHost, TypeOK
  <2>3. ToSet(Append(told[q], Leave)) = ToSet(told[q]) \cup {Leave}
    BY <1>1, SaidOnce
  <2>4. QED
    BY <1>6, <2>2, <2>3 DEF Dismissed
<1>7. QED
  BY <1>2, <1>3, <1>4, <1>5, <1>6
     DEF Acts, Handler, HandlerStep, Peer, Receive, ReceiveError, ReceiveClosed, Switch, Exit,
         Create, EndRoom, EndDelete, Lookup, Check, Add, PushBack, RemoveClient,
         Connect, CloseWhenDismissed, LeaveAlone, Reset, HostStarts, localVars

-----------------------------------------------------------------------------
(* Dismissal, as long as no host leaves before it has started its room     *)

InEndRoom == {"end", "end_start", "end_start_clients", "end_leave", "end_host", "end_delete"}

(* A host that stays has nothing to say but that it starts, and only that  *)
(* leads its handler to endRoom(); it closes when told to.                 *)
HostStays(h) ==
    /\ \A i \in 1..Len(inbox[h]) : inbox[h][i] = "START_PUNCH"
    /\ msgBuffer[h] # "LEAVE"
    /\ peer[h] = "closed" => Dismissed(h)
    /\ pc[h] \in InEndRoom => msgBuffer[h] = "START_PUNCH"
    /\ pc[h] = "end" => ending[h].start
    /\ pc[h] = "end_leave" => \A c \in ToSet(ending[h].clients) : isLeaving[c]
DInv == (\A h \in Hosts : HostStays(h)) /\ DismissedIsLeaving

(* What a host may do that stays, the breakdown of its connection included. *)
Remains(h) ==
    Handler(h) \/ Connect(h) \/ CloseWhenDismissed(h) \/ Reset(h) \/ HostStarts(h)

LEMMA InitDInv == Init => DInv
<1> SUFFICES ASSUME Init PROVE DInv
  OBVIOUS
<1>1. \A p \in Peers : told[p] = <<>> /\ ~Dismissed(p)
  BY DEF Init, Dismissed, ToSet
<1>2. \A h \in Hosts : HostStays(h)
  BY DEF Init, HostStays, InEndRoom, Peers
<1>3. QED
  BY <1>1, <1>2 DEF DInv, DismissedIsLeaving

(* The clients of the vector that was copied are peers.                    *)
LEMMA CopiedArePeers ==
    ASSUME TypeOK, NEW h \in Hosts
    PROVE  ToSet(ending[h].clients) \subseteq Clients
<1>1. ending[h].clients \in Seq(Clients)
  BY DEF TypeOK, Peers
<1>2. \A i \in DOMAIN ending[h].clients : ending[h].clients[i] \in Clients
  BY <1>1
<1>3. QED
  BY <1>2 DEF ToSet

(* What others do does not concern a host.                                 *)
LEMMA OthersStay ==
    ASSUME IInv, DInv, NEW p \in Peers, Acts(p), NEW h \in Hosts, h # p
    PROVE  HostStays(h)'
<1>1. TypeOK /\ h \in Peers /\ ToSet(ending[h].clients) \subseteq Peers /\ HostStays(h)
  BY CopiedArePeers DEF IInv, DInv, Peers
<1>2. /\ pc'[h] = pc[h] /\ ending'[h] = ending[h] /\ msgBuffer'[h] = msgBuffer[h]
      /\ peer'[h] = peer[h] /\ inbox'[h] = inbox[h]
  BY <1>1, ActsAlone
<1>3. /\ Dismissed(h) => Dismissed(h)'
      /\ \A c \in ToSet(ending[h].clients) : isLeaving[c] => isLeaving'[c]
  BY <1>1, DismissedBy
<1>4. QED
  BY <1>1, <1>2, <1>3 DEF HostStays

(* What the host's handler does ...                                        *)
LEMMA HandlerStays ==
    ASSUME IInv, DInv, NEW h \in Hosts, Handler(h)
    PROVE  HostStays(h)'
<1>1. /\ TypeOK /\ h \in Peers /\ h \notin Clients /\ HostStays(h)
      /\ (Dismissed(h) => isLeaving[h]) /\ (Dismissed(h) => Dismissed(h)')
  BY PeersAssumption, DismissedBy DEF IInv, DInv, Peers, DismissedIsLeaving, Acts
<1>2. CASE Receive(h)
  <2>1. /\ inbox[h] \in Seq({"LEAVE", "START_PUNCH"}) /\ inbox[h] # <<>>
        /\ msgBuffer'[h] = Head(inbox[h]) /\ inbox'[h] = Tail(inbox[h]) /\ pc'[h] = "switch"
        /\ peer' = peer
    BY <1>1, <1>2 DEF Receive, TypeOK, Goto
  <2>2. /\ Head(inbox[h]) = "START_PUNCH"
        /\ \A i \in 1..Len(Tail(inbox[h])) : Tail(inbox[h])[i] = "START_PUNCH"
    BY <1>1, <2>1 DEF HostStays
  <2>3. QED
    BY <1>1, <2>1, <2>2 DEF HostStays, InEndRoom
<1>3. CASE ReceiveError(h) \/ Exit(h) \/ Create(h)
  BY <1>1, <1>3
     DEF ReceiveError, Exit, Create, HostStays, InEndRoom, Goto, TypeOK, localVars, peerVars
<1>4. CASE ReceiveClosed(h)
  <2>1. /\ isLeaving[h] = TRUE
    BY <1>1, <1>4 DEF ReceiveClosed, HostStays, TypeOK
  <2>2. pc'[h] = "exit" /\ UNCHANGED <<msgBuffer, peer, inbox>>
    BY <1>1, <1>4, <2>1 DEF ReceiveClosed, Goto, TypeOK, peerVars
  <2>3. QED
    BY <1>1, <2>2 DEF HostStays, InEndRoom
<1>5. CASE Switch(h)
  <2>1. /\ \/ pc'[h] = "end" /\ ending'[h].start = TRUE /\ msgBuffer[h] = "START_PUNCH"
           \/ pc'[h] = "loop"
        /\ UNCHANGED <<msgBuffer, peer, inbox>>
    BY <1>1, <1>5 DEF Switch, HostStays, CallEndRoom, CallOf, Goto, TypeOK, peerVars
  <2>2. QED
    BY <1>1, <2>1 DEF HostStays, InEndRoom
<1>6. CASE EndRoom(h)
  <2>1. /\ pc'[h] \in {Crashed, "end_start", "end_leave"} /\ pc[h] = "end"
        /\ UNCHANGED <<msgBuffer, peer, inbox>>
        /\ pc'[h] = "end_leave" => ~ending[h].start
    BY <1>1, <1>6, PeersAssumption DEF EndRoom, Goto, TypeOK, peerVars, Places
  <2>2. Crashed \notin InEndRoom
    BY PeersAssumption DEF InEndRoom, Places
  <2>3. QED
    BY <1>1, <2>1, <2>2 DEF HostStays, InEndRoom
<1>7. CASE EndStartHost(h)
  <2>1. /\ pc[h] = "end_start" /\ pc'[h] \in {"end_start_clients", Crashed}
        /\ UNCHANGED <<ending, msgBuffer, peer, inbox>>
    <3>1. pc[h] = "end_start"
      BY <1>7 DEF EndStartHost
    <3>2. /\ \E l \in {"end_start_clients", Crashed} : Goto(h, l)
          /\ UNCHANGED <<ending, msgBuffer, peer, inbox>>
      BY <1>7, <3>1, FollowsOn
    <3>3. QED
      BY <1>1, <3>1, <3>2 DEF Goto, TypeOK
  <2>2. Crashed \notin InEndRoom
    BY PeersAssumption DEF InEndRoom, Places
  <2>3. QED
    BY <1>1, <2>1, <2>2 DEF HostStays, InEndRoom
<1>8. CASE EndStartClients(h)
  <2>1. /\ pc'[h] \in {"end_leave", Crashed} /\ pc[h] = "end_start_clients"
        /\ UNCHANGED <<ending, msgBuffer, peer, inbox>>
    <3>1. pc[h] = "end_start_clients"
      BY <1>8 DEF EndStartClients, TellClients
    <3>2. /\ \E l \in {"end_leave", Crashed} : Goto(h, l)
          /\ UNCHANGED <<ending, msgBuffer, peer, inbox>>
      BY <1>8, <3>1, FollowsOn
    <3>3. QED
      BY <1>1, <3>1, <3>2 DEF Goto, TypeOK
  <2>2. \A c \in ToSet(ending[h].clients) : isLeaving'[c]
    BY <1>1, <1>8, CopiedArePeers DEF EndStartClients, TellClients, MarkLeaving, Peers
  <2>3. Crashed \notin InEndRoom
    BY PeersAssumption DEF InEndRoom, Places
  <2>4. QED
    BY <1>1, <2>1, <2>2, <2>3 DEF HostStays, InEndRoom
<1>9. CASE EndLeave(h)
  <2>4. pc[h] = "end_leave"
    BY <1>9 DEF EndLeave
  <2>1. /\ pc'[h] \in {"end_host", Crashed}
        /\ UNCHANGED <<ending, msgBuffer, peer, inbox>>
    BY <1>1, <1>9, <2>4, FollowsOn DEF Goto, TypeOK
  <2>2. Crashed \notin InEndRoom
    BY PeersAssumption DEF InEndRoom, Places
  <2>3. QED
    BY <1>1, <2>1, <2>2, <2>4 DEF HostStays, InEndRoom
<1>10. CASE EndHost(h)
  <2>1. /\ pc'[h] \in {Crashed, "end_delete"} /\ pc[h] = "end_host"
        /\ UNCHANGED <<msgBuffer, peer, inbox>>
    BY <1>1, <1>10 DEF EndHost, Goto, TypeOK, localVars, peerVars
  <2>2. Crashed \notin InEndRoom
    BY PeersAssumption DEF InEndRoom, Places
  <2>3. QED
    BY <1>1, <2>1, <2>2 DEF HostStays, InEndRoom
<1>11. CASE EndDelete(h)
  <2>1. pc'[h] \in {"loop", "exit"} /\ UNCHANGED <<msgBuffer, peer, inbox>>
    BY <1>1, <1>11 DEF EndDelete, Goto, TypeOK, peerVars
  <2>2. QED
    BY <1>1, <2>1 DEF HostStays, InEndRoom
<1>12. QED
  BY <1>1, <1>2, <1>3, <1>4, <1>5, <1>6, <1>7, <1>8, <1>9, <1>10, <1>11
     DEF Handler, HandlerStep

(* ... and what the host itself does, unless it leaves.                    *)
LEMMA PeerStays ==
    ASSUME IInv, DInv, NEW h \in Hosts, Peer(h), Remains(h)
    PROVE  HostStays(h)'
<1>1. /\ TypeOK /\ h \in Peers /\ h \notin Clients /\ HostStays(h)
      /\ (Dismissed(h) => Dismissed(h)') /\ inbox[h] \in Seq({"LEAVE", "START_PUNCH"})
  BY PeersAssumption, DismissedBy DEF IInv, DInv, Peers, Acts, TypeOK
<1>2. CASE Connect(h)
  BY <1>1, <1>2 DEF Connect, HostStays, InEndRoom, Goto, TypeOK, localVars
<1>3. CASE CloseWhenDismissed(h)
  BY <1>1, <1>3 DEF CloseWhenDismissed, HostStays, InEndRoom, TypeOK, localVars
<1>4. CASE Handler(h)
  BY <1>4, HandlerStays
<1>5. CASE Reset(h)
  <2>1. /\ inbox'[h] \in {inbox[h], <<>>} /\ peer'[h] = "reset"
        /\ UNCHANGED <<pc, msgBuffer, ending, isLeaving>>
    BY <1>1, <1>5 DEF Reset, TypeOK, localVars
  <2>2. QED
    BY <1>1, <2>1 DEF HostStays
<1>6. CASE HostStarts(h)
  <2>1. /\ inbox'[h] = <<"START_PUNCH">> /\ peer'[h] = peer[h]
        /\ UNCHANGED <<pc, msgBuffer, ending, isLeaving>>
    BY <1>1, <1>6 DEF HostStarts, Say, TypeOK, localVars
  <2>2. QED
    BY <1>1, <2>1 DEF HostStays
<1>7. QED
  BY <1>2, <1>3, <1>4, <1>5, <1>6 DEF Remains

LEMMA DInvKept ==
    ASSUME IInv, DInv, NEW p \in Peers, Acts(p), p \in Hosts => Remains(p)
    PROVE  DInv'
<1>1. \A h \in Hosts : HostStays(h)'
  BY OthersStay, HandlerStays, PeerStays DEF Acts
<1>2. ASSUME NEW q \in Peers, Dismissed(q)' PROVE isLeaving'[q]
  <2>1. CASE Dismissed(q)
    BY <2>1, DismissedBy DEF DInv, DismissedIsLeaving
  <2>2. CASE p \in Hosts /\ EndLeave(p) /\ q \in ToSet(ending[p].clients)
    <3>1. isLeaving[q]
      BY <2>2 DEF EndLeave, DInv, HostStays
    <3>2. QED
      BY <3>1, DismissedBy
  <2>3. CASE p \in Hosts /\ EndHost(p) /\ q = ending[p].room
    BY <2>3 DEF EndHost, IInv, TypeOK
  <2>4. QED
    BY <1>2, <2>1, <2>2, <2>3, DismissedBy
<1>3. QED
  BY <1>1, <1>2 DEF DInv, DismissedIsLeaving

LEMMA UnchangedDInv == DInv /\ UNCHANGED vars => DInv'
  BY DEF vars, localVars, peerVars, DInv, HostStays, DismissedIsLeaving, Dismissed

LEMMA NextDInv ==
    ASSUME "hostLeave" \notin Faults, IInv, DInv, [Next]_vars
    PROVE  DInv'
<1>1. CASE UNCHANGED vars
  BY <1>1, UnchangedDInv
<1>2. ASSUME NEW p \in Peers, Acts(p) PROVE DInv'
  <2>1. p \in Hosts => ~LeaveAlone(p)
    BY PeersAssumption DEF LeaveAlone
  <2>2. QED
    BY <1>2, <2>1, DInvKept DEF Acts, Peer, Remains
<1>3. QED
  BY <1>1, <1>2 DEF Next, Acts

(* Unless a host leaves before it has started its room, whoever the server *)
(* tells to leave is marked as leaving first, whatever else the peers do.  *)
THEOREM DismissalsAreMarked ==
    "hostLeave" \notin Faults => (Safety => []DismissedIsLeaving)
<1> SUFFICES ASSUME "hostLeave" \notin Faults PROVE Safety => []DismissedIsLeaving
  OBVIOUS
<1>1. IInv /\ DInv /\ [Next]_vars => (IInv /\ DInv)'
  BY NextInv, NextDInv
<1>2. DInv => DismissedIsLeaving
  BY DEF DInv
<1>3. QED
  BY <1>1, <1>2, InitInv, InitDInv, PTL DEF Safety

-----------------------------------------------------------------------------
(* Nobody is left behind, as long as clients come after their room, before *)
(* it starts and one by one, and hosts start before they leave             *)

OrderKept == Faults \cap {"early", "together", "late", "hostLeave"} = {}

Joins(c) == pc[c] \in {"lookup", "check", "add", "push"}
Within(c) == pc[c] \in {"loop", "switch"}
Said(h) == msgBuffer[h] = "START_PUNCH"
Starts(h) == Said(h) \/ \E i \in 1..Len(inbox[h]) : inbox[h][i] = "START_PUNCH"

(* A room belongs to a host that names it, also inside endRoom().          *)
RoomsOfHosts ==
    /\ \A r \in Rooms : roomMap[r] \in Hosts => RoomOf[roomMap[r]] = r
    /\ \A h \in Hosts : pc[h] \in EndingAt => RoomOf[ending[h].room] = RoomOf[h]

(* Once a host has said that it starts, nobody joins any more.             *)
Sealed ==
    /\ \A h \in Hosts, c \in Clients : RoomOf[h] = RoomOf[c] /\ Starts(h) => ~Joins(c)
    /\ \A h \in Hosts : Dismissed(h) => \E k \in Hosts : RoomOf[k] = RoomOf[h] /\ Said(k)

(* One client joins at a time, and finds the end of the vector.            *)
OneByOne ==
    /\ \A c, d \in Clients : Joins(c) /\ Joins(d) /\ RoomOf[c] = RoomOf[d] => c = d
    /\ \A c \in Clients : Joins(c) => Room(c) \in Hosts
    /\ \A c \in Clients : pc[c] = "push" =>
          found[c] = Room(c) /\ slot[c] = Len(roomVector[Room(c)])

(* Whoever is within is in the vector of the room's host, then in the copy *)
(* that endRoom() has made of it, until it is told to leave.               *)
Counted ==
    /\ \A c \in Clients : Within(c) =>
          Dismissed(c) \/ (Room(c) \in Hosts /\ c \in ToSet(roomVector[Room(c)]))
    /\ \A h \in Hosts, c \in Clients : RoomOf[h] = RoomOf[c] /\ Within(c) =>
          /\ pc[h] \in {"end_start", "end_start_clients", "end_leave"} =>
                Dismissed(c) \/ c \in ToSet(ending[h].clients)
          /\ (pc[h] \in {"end_host", "end_delete"} \/ Dismissed(h)) => Dismissed(c)

NInv == RoomsOfHosts /\ Sealed /\ OneByOne /\ Counted

LEMMA InitNInv == Init => NInv
<1> SUFFICES ASSUME Init PROVE NInv
  OBVIOUS
<1>1. \A p \in Peers : pc[p] = "none" /\ ~Dismissed(p)
  BY DEF Init, Dismissed, ToSet
<1>2. \A r \in Rooms : roomMap[r] \notin Hosts
  BY PeersAssumption DEF Init, Peers
<1>3. QED
  BY <1>1, <1>2 DEF NInv, RoomsOfHosts, EndingAt, Sealed, OneByOne, Counted, Joins, Within, Peers

(* The entry of a room changes where the room is created, where an absent  *)
(* one is looked for, and where it ends.                                   *)
LEMMA MapStep ==
    ASSUME TypeOK, NEW p \in Peers, Acts(p), NEW r \in Rooms
    PROVE  \/ roomMap'[r] = roomMap[r]
           \/ p \in Hosts /\ Create(p) /\ r = RoomOf[p] /\ roomMap[r] = Absent /\ roomMap'[r] = p
           \/ /\ roomMap[r] = Absent /\ roomMap'[r] = Null
              /\ r = RoomOf[p] /\ pc[p] \in {"lookup", "add", "remove", "end"}
           \/ p \in Hosts /\ EndDelete(p) /\ r = RoomOf[p] /\ roomMap'[r] = Absent
<1>1. RoomOf[p] \in Rooms /\ roomMap \in [Rooms -> Hosts \cup {Absent, Null}]
  BY DEF Rooms, TypeOK
<1>2. roomMap' = MapAfterSubscript(p) =>
         \/ roomMap'[r] = roomMap[r]
         \/ roomMap[r] = Absent /\ roomMap'[r] = Null /\ r = RoomOf[p]
  BY <1>1 DEF MapAfterSubscript, Subscript, Room
<1>3. CASE UNCHANGED roomMap
  BY <1>3
<1>4. CASE p \in Hosts /\ Create(p)
  BY <1>1, <1>4 DEF Create
<1>5. CASE p \in Hosts /\ EndDelete(p)
  BY <1>1, <1>5 DEF EndDelete
<1>6. CASE roomMap' = MapAfterSubscript(p) /\ pc[p] \in {"lookup", "add", "remove", "end"}
  BY <1>2, <1>6
<1>7. QED
  BY <1>3, <1>4, <1>5, <1>6
     DEF Acts, Handler, HandlerStep, Peer, Receive, ReceiveError, ReceiveClosed, Switch, Exit,
         EndRoom, EndStartHost, EndStartClients, TellClients, EndLeave, EndHost,
         Lookup, Check, Add, PushBack, RemoveClient,
         Connect, CloseWhenDismissed, LeaveAlone, Reset, HostStarts, roomVars

(* A vector changes where a client is pushed onto it ...                   *)
LEMMA VectorStep ==
    ASSUME TypeOK, NEW p \in Peers, Acts(p), NEW h \in Hosts
    PROVE  roomVector'[h] = roomVector[h] \/ (p \in Clients /\ PushBack(p) /\ found[p] = h)
<1>1. CASE UNCHANGED roomVector
  BY <1>1
<1>2. CASE p \in Clients /\ PushBack(p)
  BY <1>2 DEF PushBack, TypeOK
<1>3. CASE p \in Clients /\ RemoveClient(p)
  <2>1. Subscript(p) \in Hosts \cup {Null}
    BY SubscriptType
  <2>2. UNCHANGED roomVector
    BY <1>3, <2>1, AtAlwaysThrows DEF RemoveClient
  <2>3. QED
    BY <2>2
<1>4. QED
  BY <1>1, <1>2, <1>3
     DEF Acts, Handler, HandlerStep, Peer, Receive, ReceiveError, ReceiveClosed, Switch, Exit,
         Create, EndRoom, EndStartHost, EndStartClients, TellClients, EndLeave, EndHost,
         EndDelete, Lookup, Check, Add,
         Connect, CloseWhenDismissed, LeaveAlone, Reset, HostStarts, roomVars

(* ... and where its end was read before anybody else pushed, it grows by  *)
(* that client.                                                            *)
LEMMA PushedAtTheEnd ==
    ASSUME TypeOK, NEW c \in Clients, PushBack(c), found[c] \in Hosts,
           slot[c] = Len(roomVector[found[c]])
    PROVE  /\ roomVector'[found[c]] = Append(roomVector[found[c]], c)
           /\ ToSet(roomVector'[found[c]]) = ToSet(roomVector[found[c]]) \cup {c}
<1> DEFINE v == roomVector[found[c]]
<1>1. v \in Seq(Clients) /\ Len(v) \in Nat
  BY DEF TypeOK
<1>2. PICK memory \in [1..slot[c] -> Clients] :
         /\ \A i \in 1..slot[c] : i <= Len(v) => memory[i] = v[i]
         /\ roomVector' = [roomVector EXCEPT ![found[c]] = Append(memory, c)]
  BY DEF PushBack
<1>3. memory = v
  <2>1. memory \in Seq(Clients) /\ Len(memory) = Len(v)
    BY <1>1, <1>2, SMTT(30)
  <2>2. \A i \in 1..Len(v) : memory[i] = v[i]
    BY <1>1, <1>2
  <2>3. QED
    BY <1>1, <2>1, <2>2
<1>4. roomVector'[found[c]] = Append(v, c)
  BY <1>2, <1>3 DEF TypeOK
<1>5. QED
  BY <1>1, <1>4, SaidOnce

(* What a host has said stays said, and it says it once the others have    *)
(* joined; a client joins once the others have, and before the start.      *)
LEMMA SaidBy ==
    ASSUME IInv, DInv, NEW p \in Peers, Acts(p), NEW h \in Hosts
    PROVE  /\ Said(h) => Said(h)'
           /\ Starts(h)' => Starts(h) \/ (p = h /\ HostStarts(h))
<1>1. TypeOK /\ h \in Peers /\ HostStays(h) /\ inbox[h] \in Seq({"LEAVE", "START_PUNCH"})
  BY DEF IInv, DInv, TypeOK, Peers
<1>2. CASE p # h
  BY <1>1, <1>2, ActsAlone DEF Said, Starts
<1>3. CASE p = h /\ Receive(h)
  <2>1. /\ msgBuffer'[h] = Head(inbox[h]) /\ inbox[h] # <<>>
    BY <1>1, <1>3 DEF Receive, TypeOK
  <2>2. Head(inbox[h]) = "START_PUNCH" /\ 1 \in 1..Len(inbox[h]) /\ inbox[h][1] = "START_PUNCH"
    BY <1>1, <2>1 DEF HostStays
  <2>3. QED
    BY <1>3, <2>1, <2>2 DEF Said, Starts
<1>4. CASE p = h /\ msgBuffer' = msgBuffer /\ (inbox' = inbox \/ inbox'[h] = <<>>)
  BY <1>1, <1>4 DEF Said, Starts
<1>5. CASE p = h /\ HostStarts(h)
  BY <1>1, <1>5 DEF HostStarts, Said, localVars
<1>6. CASE p = h /\ LeaveAlone(h)
  <2>1. /\ \/ inbox' = inbox
           \/ inbox' = [inbox EXCEPT ![h] = <<"LEAVE">>]
        /\ msgBuffer' = msgBuffer
    BY <1>1, <1>6 DEF LeaveAlone, Say, localVars
  <2>2. inbox'[h] = inbox[h] \/ inbox'[h] = <<"LEAVE">>
    BY <1>1, <2>1 DEF TypeOK
  <2>3. \A i \in 1..Len(<<"LEAVE">>) : <<"LEAVE">>[i] # "START_PUNCH"
    OBVIOUS
  <2>4. QED
    BY <2>1, <2>2, <2>3 DEF Said, Starts
<1>7. CASE p = h /\ Reset(h)
  BY <1>1, <1>4, <1>7 DEF Reset, TypeOK, localVars
<1>8. h \notin Clients
  BY PeersAssumption
<1>9. QED
  BY <1>2, <1>3, <1>4, <1>5, <1>6, <1>7, <1>8
     DEF Acts, Handler, HandlerStep, Peer, ReceiveError, ReceiveClosed, Switch, Exit,
         Create, EndRoom, EndStartHost, EndStartClients, TellClients, EndLeave, EndHost,
         EndDelete, Connect, CloseWhenDismissed, localVars, peerVars

LEMMA JoinsBy ==
    ASSUME TypeOK, NEW p \in Peers, Acts(p), NEW c \in Clients
    PROVE  /\ Joins(c)' => Joins(c) \/ (p = c /\ Connect(c))
           /\ pc'[c] = "push" =>
                 \/ p = c /\ Add(c)
                 \/ /\ pc[c] = "push" /\ ~(p = c /\ PushBack(c))
                    /\ found'[c] = found[c] /\ slot'[c] = slot[c]
           /\ Within(c)' => \/ Within(c) \/ (p = c /\ PushBack(c))
                            \/ (p = c /\ Add(c) /\ Subscript(c) = Null)
<1>1. c \in Peers /\ c \notin Hosts /\ Crashed \notin Places
  BY PeersAssumption DEF Peers
<1>2. CASE p # c
  BY <1>1, <1>2, ActsAlone DEF Joins, Within
<1> USE DEF Goto, TypeOK, Joins, Within, Places
<1>3. CASE p = c /\ (Receive(c) \/ ReceiveError(c) \/ ReceiveClosed(c) \/ Switch(c) \/ Exit(c))
  BY <1>1, <1>3 DEF Receive, ReceiveError, ReceiveClosed, Switch, Exit, CallEndRoom
<1>4. CASE p = c /\ (Lookup(c) \/ Check(c) \/ Add(c) \/ PushBack(c) \/ RemoveClient(c))
  <2>1. CASE Lookup(c)
    BY <1>1, <1>4, <2>1 DEF Lookup
  <2>2. CASE Check(c)
    <3>1. PICK l \in {"gone", "add", Crashed} : Goto(c, l) /\ pc[c] = "check"
      BY <2>2 DEF Check
    <3>2. QED
      BY <1>1, <1>4, <3>1
  <2>3. CASE Add(c)
    BY <1>1, <1>4, <2>3 DEF Add
  <2>4. CASE PushBack(c)
    BY <1>1, <1>4, <2>4 DEF PushBack
  <2>5. CASE RemoveClient(c)
    <3>1. PICK l \in {"exit", Crashed} : Goto(c, l)
      BY <2>5 DEF RemoveClient
    <3>2. QED
      BY <1>1, <1>4, <3>1
  <2>6. QED
    BY <1>4, <2>1, <2>2, <2>3, <2>4, <2>5
<1>5. CASE p = c /\ (CloseWhenDismissed(c) \/ LeaveAlone(c) \/ Reset(c))
  <2>1. UNCHANGED <<pc, found, slot>>
    BY <1>5 DEF CloseWhenDismissed, LeaveAlone, Reset, localVars
  <2>2. pc[c] = "push" => ~PushBack(c)
    BY <1>1, <2>1 DEF PushBack
  <2>3. QED
    BY <1>1, <2>1, <2>2
<1>6. CASE p = c /\ Connect(c)
  <2>1. Goto(c, "lookup")
    BY <1>1, <1>6 DEF Connect
  <2>2. QED
    BY <1>1, <1>6, <2>1
<1>7. QED
  BY <1>1, <1>2, <1>3, <1>4, <1>5, <1>6 DEF Acts, Handler, HandlerStep, Peer

(* The clients that join a room are those that the peers look at.          *)
LEMMA JoiningIs ==
    \A c \in Clients : Joins(c) <=> c \in Joining(RoomOf[c])
  BY DEF Joins, Joining

LEMMA StartedIs ==
    ASSUME TypeOK
    PROVE  \A h \in Hosts : Starts(h) => Started(RoomOf[h])
<1>1. \A h \in Hosts : DOMAIN inbox[h] = 1..Len(inbox[h])
  BY DEF TypeOK, Peers
<1>2. QED
  BY <1>1 DEF Starts, Said, Started, ToSet

(* Inside endRoom() a handler keeps what it has found in the map and copied *)
(* from the room, and gets from one call to the next.                      *)
Copying == {"end_start", "end_start_clients", "end_leave"}

LEMMA EndingBy ==
    ASSUME IInv, NEW p \in Peers, Acts(p), NEW h \in Hosts
    PROVE  /\ pc'[h] \in Copying =>
                 \/ pc[h] \in Copying /\ ending'[h] = ending[h]
                 \/ /\ p = h /\ EndRoom(h) /\ Subscript(h) \in Hosts
                    /\ ending'[h].room = Subscript(h)
                    /\ ending'[h].clients = roomVector[Subscript(h)]
           /\ pc'[h] = "end_host" =>
                 /\ pc[h] = "end_host" \/ (p = h /\ EndLeave(h))
                 /\ ending'[h] = ending[h]
           /\ pc'[h] = "end_delete" => pc[h] \in {"end_host", "end_delete"}
<1>1. /\ TypeOK /\ h \in Peers /\ h \notin Clients
      /\ Crashed \notin Copying /\ Crashed # "end_host" /\ Crashed # "end_delete"
  BY PeersAssumption DEF IInv, Peers, Copying, Places
<1>2. CASE p # h
  BY <1>1, <1>2, ActsAlone
<1> USE DEF Copying, Goto, TypeOK
<1>3. CASE p = h /\ EndRoom(h)
  <2>1. CASE Subscript(h) = Null \/ ~Alive(Subscript(h))
    BY <1>1, <1>3, <2>1 DEF EndRoom
  <2>2. CASE ~(Subscript(h) = Null \/ ~Alive(Subscript(h)))
    <3>1. Subscript(h) \in Hosts
      BY <1>1, <2>2, SubscriptType
    <3>2. PICK l \in {"end_start", "end_leave"} : Goto(h, l)
      BY <1>3, <2>2 DEF EndRoom
    <3>3. ending' = [ending EXCEPT ![h].room = Subscript(h),
                                   ![h].clients = roomVector[Subscript(h)]]
      BY <1>3, <2>2 DEF EndRoom
    <3>4. /\ ending'[h].room = Subscript(h)
          /\ ending'[h].clients = roomVector[Subscript(h)]
      BY <1>1, <3>3
    <3>5. QED
      BY <1>1, <1>3, <3>1, <3>2, <3>4
  <2>3. QED
    BY <2>1, <2>2
<1>4. CASE p = h /\ (EndStartHost(h) \/ EndStartClients(h) \/ EndLeave(h) \/ EndHost(h))
  <2>1. CASE EndHost(h)
    BY <1>1, <1>4, <2>1 DEF EndHost, localVars
  <2>2. CASE EndStartHost(h)
    <3>1. /\ pc[h] = "end_start" /\ pc'[h] \in {"end_start_clients", Crashed}
          /\ ending' = ending
      BY <1>1, <2>2, FollowsOn DEF EndStartHost
    <3>2. QED
      BY <1>1, <3>1
  <2>3. CASE EndStartClients(h)
    <3>1. /\ pc[h] = "end_start_clients" /\ pc'[h] \in {"end_leave", Crashed}
          /\ ending' = ending
      BY <1>1, <2>3, FollowsOn DEF EndStartClients, TellClients
    <3>2. QED
      BY <1>1, <3>1
  <2>4. CASE EndLeave(h)
    <3>1. /\ pc[h] = "end_leave" /\ pc'[h] \in {"end_host", Crashed}
          /\ ending' = ending
      BY <1>1, <2>4, FollowsOn DEF EndLeave
    <3>2. QED
      BY <1>1, <1>4, <2>4, <3>1
  <2>5. QED
    BY <1>4, <2>1, <2>2, <2>3, <2>4
<1>5. CASE p = h /\ EndDelete(h)
  BY <1>1, <1>5 DEF EndDelete
<1>6. CASE p = h /\ (Receive(h) \/ ReceiveError(h) \/ ReceiveClosed(h) \/ Switch(h) \/ Exit(h)
                       \/ Create(h))
  BY <1>1, <1>6
     DEF Receive, ReceiveError, ReceiveClosed, Switch, Exit, Create, CallEndRoom
<1>7. CASE p = h /\ Peer(h)
  <2>1. CASE Connect(h)
    BY <1>1, <1>7, <2>1 DEF Connect
  <2>2. CASE ~Connect(h)
    BY <1>1, <1>7, <2>2 DEF Peer, CloseWhenDismissed, LeaveAlone, Reset, HostStarts, localVars
  <2>3. QED
    BY <2>1, <2>2
<1>8. QED
  BY <1>1, <1>2, <1>3, <1>4, <1>5, <1>6, <1>7 DEF Acts, Handler, HandlerStep

(* Everybody in the copy who is still there is told to leave.              *)
LEMMA LeaveReaches ==
    ASSUME TypeOK, NEW h \in Hosts, EndLeave(h), NEW c \in ToSet(ending[h].clients), Alive(c)
    PROVE  Dismissed(c)'
<1>1. c \in Peers /\ told[c] \in Seq(Messages) /\ Leave \in Messages
  BY CopiedArePeers DEF TypeOK, Messages, Peers
<1>2. told'[c] = Append(told[c], Leave)
  BY <1>1 DEF EndLeave
<1>3. ToSet(Append(told[c], Leave)) = ToSet(told[c]) \cup {Leave}
  BY <1>1, SaidOnce
<1>4. QED
  BY <1>2, <1>3 DEF Dismissed

(* Each of the parts is kept by every step.                                *)
LEMMA RoomsOfHostsKept ==
    ASSUME IInv, RoomsOfHosts, NEW p \in Peers, Acts(p)
    PROVE  RoomsOfHosts'
<1>1. TypeOK /\ RoomsOfHosts /\ Absent \notin Hosts /\ Null \notin Hosts
  BY PeersAssumption DEF IInv, Peers
<1>2. ASSUME NEW r \in Rooms, roomMap'[r] \in Hosts PROVE RoomOf[roomMap'[r]] = r
  BY <1>1, <1>2, MapStep DEF RoomsOfHosts
<1>3. ASSUME NEW h \in Hosts, pc'[h] \in EndingAt PROVE RoomOf[ending'[h].room] = RoomOf[h]
  <2>1. RoomOf[h] \in Rooms
    BY DEF Rooms, Peers
  <2>2. CASE EndRoom(h) /\ Subscript(h) \in Hosts /\ ending'[h].room = Subscript(h)
    <3>1. Subscript(h) = roomMap[RoomOf[h]]
      BY <1>1, <2>2 DEF Subscript, Room
    <3>2. QED
      BY <1>1, <2>1, <2>2, <3>1 DEF RoomsOfHosts
  <2>3. CASE pc[h] \in EndingAt /\ ending'[h] = ending[h]
    BY <1>1, <2>3 DEF RoomsOfHosts
  <2>4. QED
    BY <1>1, <1>3, <2>2, <2>3, EndingBy DEF EndingAt, Copying, EndLeave
<1>4. QED
  BY <1>2, <1>3 DEF RoomsOfHosts

(* Nobody joins a room that starts, and no host starts while somebody      *)
(* joins, unless clients come late.                                        *)
LEMMA StartSeals ==
    ASSUME "late" \notin Faults, IInv, DInv, NEW p \in Peers, Acts(p),
           NEW h \in Hosts, NEW c \in Clients, RoomOf[h] = RoomOf[c], ~(Starts(h) /\ Joins(c))
    PROVE  ~(Starts(h)' /\ Joins(c)')
<1>1. TypeOK /\ Hosts \cap Clients = {}
  BY PeersAssumption DEF IInv
<1> SUFFICES ASSUME Starts(h)', Joins(c)' PROVE FALSE
  OBVIOUS
<1>2. Starts(h) \/ (p = h /\ HostStarts(h))
  BY SaidBy
<1>3. Joins(c) \/ (p = c /\ Connect(c))
  BY <1>1, JoinsBy
<1>4. CASE Starts(h) /\ p = c /\ Connect(c)
  BY <1>1, <1>4, StartedIs DEF Connect
<1>5. CASE HostStarts(h) /\ Joins(c)
  BY <1>5, JoiningIs DEF HostStarts
<1>6. QED
  BY <1>1, <1>2, <1>3, <1>4, <1>5

LEMMA SealedKept ==
    ASSUME OrderKept, IInv, DInv, NInv, NEW p \in Peers, Acts(p)
    PROVE  Sealed'
<1>1. /\ TypeOK /\ Sealed /\ RoomsOfHosts /\ Hosts \cap Clients = {} /\ "late" \notin Faults
      /\ Hosts \subseteq Peers
  BY PeersAssumption DEF IInv, NInv, OrderKept, Peers
<1>2. ASSUME NEW h \in Hosts, NEW c \in Clients, RoomOf[h] = RoomOf[c], Starts(h)', Joins(c)'
      PROVE  FALSE
  BY <1>1, <1>2, StartSeals DEF Sealed
<1>3. ASSUME NEW h \in Hosts, Dismissed(h)'
      PROVE  \E k \in Hosts : RoomOf[k] = RoomOf[h] /\ Said(k)'
  <2>1. CASE Dismissed(h)
    BY <1>1, <2>1, SaidBy DEF Sealed
  <2>2. CASE p \in Hosts /\ EndLeave(p) /\ h \in ToSet(ending[p].clients)
    BY <1>1, <2>2, CopiedArePeers
  <2>3. CASE p \in Hosts /\ EndHost(p) /\ h = ending[p].room
    <3>1. pc[p] = "end_host" /\ Said(p)
      BY <2>3 DEF EndHost, DInv, HostStays, InEndRoom, Said
    <3>2. RoomOf[p] = RoomOf[h]
      BY <1>1, <2>3, <3>1 DEF RoomsOfHosts, EndingAt
    <3>3. QED
      BY <2>3, <3>1, <3>2, SaidBy
  <2>4. QED
    BY <1>1, <1>3, <2>1, <2>2, <2>3, DismissedBy
<1>4. QED
  BY <1>2, <1>3 DEF Sealed

(* While somebody joins a room, it stays in the map.                       *)
LEMMA RoomKept ==
    ASSUME OrderKept, IInv, DInv, NInv, NEW p \in Peers, Acts(p), NEW c \in Clients,
           Joins(c) \/ (p = c /\ Connect(c))
    PROVE  Room(c) \in Hosts /\ Room(c)' = Room(c)
<1>1. /\ TypeOK /\ Sealed /\ OneByOne /\ Hosts \cap Clients = {} /\ "early" \notin Faults
      /\ Absent \notin Hosts /\ RoomOf[c] \in Rooms
  BY PeersAssumption DEF IInv, NInv, OrderKept, Peers, Rooms
<1>2. Room(c) \in Hosts
  BY <1>1 DEF OneByOne, Connect
<1>3. ASSUME p \in Hosts, EndDelete(p), RoomOf[c] = RoomOf[p] PROVE FALSE
  <2>1. Said(p)
    BY <1>3 DEF EndDelete, DInv, HostStays, InEndRoom, Said
  <2>2. ~Joins(c)
    BY <1>1, <1>3, <2>1 DEF Sealed, Starts
  <2>3. QED
    BY <1>1, <1>3, <2>2
<1>4. QED
  BY <1>1, <1>2, <1>3, MapStep DEF Room

LEMMA OneByOneKept ==
    ASSUME OrderKept, IInv, DInv, NInv, NEW p \in Peers, Acts(p)
    PROVE  OneByOne'
<1>1. /\ TypeOK /\ OneByOne /\ RoomsOfHosts /\ Hosts \cap Clients = {}
      /\ "together" \notin Faults /\ Absent \notin Hosts
  BY PeersAssumption DEF IInv, NInv, OrderKept, Peers
<1>2. \A c \in Clients : Joins(c)' => Joins(c) \/ (p = c /\ Connect(c))
  BY <1>1, JoinsBy
<1>3. ASSUME NEW c \in Clients, NEW d \in Clients, Joins(c)', Joins(d)', RoomOf[c] = RoomOf[d]
      PROVE  c = d
  <2>1. \A e \in Clients : p = e /\ Connect(e) => Joining(RoomOf[e]) = {}
    BY <1>1 DEF Connect
  <2>2. QED
    BY <1>1, <1>2, <1>3, <2>1, JoiningIs DEF OneByOne
<1>4. \A c \in Clients : Joins(c)' => Room(c)' \in Hosts
  BY <1>2, RoomKept
<1>5. ASSUME NEW c \in Clients, pc'[c] = "push"
      PROVE  found'[c] = Room(c)' /\ slot'[c] = Len(roomVector'[Room(c)'])
  <2>1. CASE p = c /\ Add(c)
    <3>1. Joins(c)
      BY <2>1 DEF Add, Joins
    <3>2. Room(c) \in Hosts /\ Room(c)' = Room(c) /\ Subscript(c) = Room(c)
      BY <1>1, <3>1, RoomKept DEF Subscript
    <3>3. /\ found' = [found EXCEPT ![c] = Subscript(c)]
          /\ slot' = [slot EXCEPT ![c] = Len(roomVector[Subscript(c)])]
          /\ roomVector' = roomVector
      <4>1. Subscript(c) # Null
        BY <3>2, PeersAssumption DEF Peers
      <4>2. QED
        BY <2>1, <4>1 DEF Add
    <3>4. QED
      BY <1>1, <3>2, <3>3 DEF TypeOK, Peers
  <2>2. CASE /\ pc[c] = "push" /\ ~(p = c /\ PushBack(c))
             /\ found'[c] = found[c] /\ slot'[c] = slot[c]
    <3>1. Joins(c) /\ found[c] = Room(c) /\ slot[c] = Len(roomVector[Room(c)])
      BY <1>1, <2>2 DEF Joins, OneByOne
    <3>2. Room(c) \in Hosts /\ Room(c)' = Room(c)
      BY <3>1, RoomKept
    <3>3. ASSUME p \in Clients, PushBack(p), found[p] = Room(c) PROVE FALSE
      <4>1. pc[p] = "push" /\ Joins(p) /\ Room(p) = Room(c)
        BY <1>1, <3>3 DEF PushBack, Joins, OneByOne
      <4>2. RoomOf[p] \in Rooms /\ RoomOf[c] \in Rooms
        BY DEF Rooms, Peers
      <4>3. RoomOf[p] = RoomOf[c]
        BY <1>1, <3>2, <4>1, <4>2 DEF RoomsOfHosts, Room
      <4>4. QED
        BY <1>1, <2>2, <3>1, <3>3, <4>1, <4>3 DEF OneByOne
    <3>4. roomVector'[Room(c)] = roomVector[Room(c)]
      BY <1>1, <3>2, <3>3, VectorStep
    <3>5. QED
      BY <2>2, <3>1, <3>2, <3>4
  <2>3. QED
    BY <1>1, <1>5, <2>1, <2>2, JoinsBy
<1>6. QED
  BY <1>3, <1>4, <1>5 DEF OneByOne

(* Who comes to be within has been pushed onto the room's vector.          *)
LEMMA ComesWithin ==
    ASSUME OrderKept, IInv, DInv, NInv, NEW p \in Peers, Acts(p), NEW c \in Clients,
           Within(c)', ~Within(c)
    PROVE  p = c /\ PushBack(c) /\ Joins(c)
<1>1. TypeOK /\ OneByOne /\ Absent \notin Hosts /\ Null \notin Hosts
  BY PeersAssumption DEF IInv, NInv, Peers
<1>2. ASSUME p = c, Add(c), Subscript(c) = Null PROVE FALSE
  BY <1>1, <1>2 DEF Add, Joins, OneByOne, Subscript
<1>3. p = c /\ PushBack(c)
  BY <1>1, <1>2, JoinsBy
<1>4. QED
  BY <1>3 DEF PushBack, Joins

LEMMA CountedInVector ==
    ASSUME OrderKept, IInv, DInv, NInv, NEW p \in Peers, Acts(p), NEW c \in Clients, Within(c)'
    PROVE  Dismissed(c)' \/ (Room(c)' \in Hosts /\ c \in ToSet(roomVector'[Room(c)']))
<1>1. /\ TypeOK /\ OneByOne /\ Counted /\ Hosts \cap Clients = {} /\ Absent \notin Hosts
      /\ c \in Peers /\ RoomOf[c] \in Rooms
  BY PeersAssumption DEF IInv, NInv, Peers, Rooms
<1>2. ASSUME NEW d \in Clients, PushBack(d)
      PROVE  /\ found[d] = Room(d) /\ Room(d) \in Hosts
             /\ ToSet(roomVector'[found[d]]) = ToSet(roomVector[found[d]]) \cup {d}
  <2>1. /\ found[d] = Room(d) /\ Room(d) \in Hosts
        /\ slot[d] = Len(roomVector[found[d]])
    BY <1>1, <1>2 DEF PushBack, OneByOne, Joins
  <2>2. QED
    BY <1>1, <1>2, <2>1, PushedAtTheEnd
<1>3. CASE ~Within(c)
  <2>1. p = c /\ PushBack(c) /\ Joins(c)
    BY <1>3, ComesWithin
  <2>2. Room(c) \in Hosts /\ Room(c)' = Room(c)
    BY <2>1, RoomKept
  <2>3. QED
    BY <1>2, <2>1, <2>2
<1>4. CASE Within(c) /\ Dismissed(c)
  BY <1>1, <1>4, DismissedBy
<1>5. CASE Within(c) /\ ~Dismissed(c)
  <2>1. Room(c) \in Hosts /\ c \in ToSet(roomVector[Room(c)])
    BY <1>1, <1>5 DEF Counted
  <2>2. ASSUME p \in Hosts, EndDelete(p), RoomOf[c] = RoomOf[p] PROVE FALSE
    BY <1>1, <1>5, <2>2 DEF Counted, EndDelete
  <2>3. Room(c)' = Room(c)
    BY <1>1, <2>1, <2>2, MapStep DEF Room
  <2>4. c \in ToSet(roomVector'[Room(c)])
    BY <1>1, <1>2, <2>1, VectorStep
  <2>5. QED
    BY <2>1, <2>3, <2>4
<1>6. QED
  BY <1>3, <1>4, <1>5

LEMMA CountedInCopy ==
    ASSUME OrderKept, IInv, DInv, NInv, NEW p \in Peers, Acts(p),
           NEW h \in Hosts, NEW c \in Clients, RoomOf[h] = RoomOf[c], Within(c)'
    PROVE  /\ pc'[h] \in Copying => Dismissed(c)' \/ c \in ToSet(ending'[h].clients)
           /\ (pc'[h] \in {"end_host", "end_delete"} \/ Dismissed(h)') => Dismissed(c)'
<1>1. /\ TypeOK /\ Sealed /\ Counted /\ RoomsOfHosts /\ Hosts \cap Clients = {}
      /\ h \in Peers /\ c \in Peers /\ Absent \notin Hosts /\ Null \notin Hosts
  BY PeersAssumption DEF IInv, NInv, Peers
<1>2. CASE ~Within(c)
  <2>1. p = c /\ PushBack(c) /\ Joins(c) /\ h # p
    BY <1>1, <1>2, ComesWithin
  <2>2. \A k \in Hosts : RoomOf[k] = RoomOf[c] => ~Said(k)
    BY <1>1, <2>1 DEF Sealed, Starts
  <2>3. pc[h] \notin InEndRoom /\ ~Dismissed(h)
    BY <1>1, <2>2 DEF DInv, HostStays, Said, Sealed
  <2>4. pc'[h] = pc[h] /\ ~Dismissed(h)'
    BY <1>1, <2>1, <2>3, ActsAlone, DismissedBy
  <2>5. QED
    BY <2>3, <2>4 DEF Copying, InEndRoom
<1>3. CASE Within(c)
  <2>1. Dismissed(c) => Dismissed(c)'
    BY <1>1, DismissedBy
  <2>2. ASSUME pc'[h] \in Copying PROVE Dismissed(c)' \/ c \in ToSet(ending'[h].clients)
    <3>1. CASE pc[h] \in Copying /\ ending'[h] = ending[h]
      BY <1>1, <1>3, <2>1, <3>1 DEF Counted, Copying
    <3>2. CASE Subscript(h) \in Hosts /\ ending'[h].clients = roomVector[Subscript(h)]
      <4>1. Subscript(h) = Room(c)
        BY <1>1, <3>2 DEF Subscript, Room
      <4>2. QED
        BY <1>1, <1>3, <2>1, <3>2, <4>1 DEF Counted
    <3>3. QED
      BY <2>2, <3>1, <3>2, EndingBy
  <2>3. ASSUME pc'[h] \in {"end_host", "end_delete"} PROVE Dismissed(c)'
    <3>1. CASE EndLeave(h)
      <4>1. pc[h] = "end_leave"
        BY <3>1 DEF EndLeave
      <4>2. Dismissed(c) \/ c \in ToSet(ending[h].clients)
        BY <1>1, <1>3, <4>1 DEF Counted
      <4>3. Alive(c)
        BY <1>3 DEF Within, Alive
      <4>4. QED
        BY <1>1, <2>1, <3>1, <4>2, <4>3, LeaveReaches
    <3>2. CASE pc[h] \in {"end_host", "end_delete"}
      BY <1>1, <1>3, <2>1, <3>2 DEF Counted
    <3>3. QED
      BY <2>3, <3>1, <3>2, EndingBy
  <2>4. ASSUME Dismissed(h)' PROVE Dismissed(c)'
    <3>1. CASE Dismissed(h)
      BY <1>1, <1>3, <2>1, <3>1 DEF Counted
    <3>2. CASE p \in Hosts /\ EndLeave(p) /\ h \in ToSet(ending[p].clients)
      BY <1>1, <3>2, CopiedArePeers
    <3>3. CASE p \in Hosts /\ EndHost(p) /\ h = ending[p].room
      <4>1. pc[p] = "end_host"
        BY <3>3 DEF EndHost
      <4>2. RoomOf[p] = RoomOf[c]
        BY <1>1, <3>3, <4>1 DEF RoomsOfHosts, EndingAt
      <4>3. QED
        BY <1>1, <1>3, <2>1, <3>3, <4>1, <4>2 DEF Counted
    <3>4. QED
      BY <1>1, <2>4, <3>1, <3>2, <3>3, DismissedBy
  <2>5. QED
    BY <2>2, <2>3, <2>4
<1>4. QED
  BY <1>2, <1>3

LEMMA NextNInv ==
    ASSUME OrderKept, IInv, DInv, NInv, [Next]_vars
    PROVE  NInv'
<1>1. CASE UNCHANGED vars
  <2>1. UNCHANGED <<roomMap, roomVector, pc, found, slot, ending, msgBuffer, told, inbox>>
    BY <1>1 DEF vars, roomVars, localVars, peerVars
  <2>2. RoomsOfHosts' /\ Sealed'
    BY <2>1 DEF NInv, RoomsOfHosts, Sealed, Starts, Said, Joins, Dismissed
  <2>3. OneByOne' /\ Counted'
    BY <2>1 DEF NInv, OneByOne, Counted, Joins, Within, Room, Dismissed
  <2>4. QED
    BY <2>2, <2>3 DEF NInv
<1>2. ASSUME NEW p \in Peers, Acts(p) PROVE NInv'
  <2>1. RoomsOfHosts' /\ Sealed' /\ OneByOne'
    BY <1>2, RoomsOfHostsKept, SealedKept, OneByOneKept DEF NInv
  <2>2. Counted'
    BY <1>2, CountedInVector, CountedInCopy DEF Counted, Copying
  <2>3. QED
    BY <2>1, <2>2 DEF NInv
<1>3. QED
  BY <1>1, <1>2 DEF Next, Acts

(* Where clients wait for their room, for each other and join before the   *)
(* start, and hosts start before they leave, every client that is within   *)
(* is sent away with its host, whoever leaves or breaks down.              *)
THEOREM NobodyLeftBehind == OrderKept => (Safety => []NobodyStranded)
<1> SUFFICES ASSUME OrderKept PROVE Safety => []NobodyStranded
  OBVIOUS
<1>1. "hostLeave" \notin Faults
  BY DEF OrderKept
<1>2. IInv /\ DInv /\ NInv /\ [Next]_vars => (IInv /\ DInv /\ NInv)'
  BY <1>1, NextInv, NextDInv, NextNInv
<1>3. NInv => NobodyStranded
  BY DEF NInv, Counted, Within, NobodyStranded
<1>4. QED
  BY <1>2, <1>3, InitInv, InitDInv, InitNInv, PTL DEF Safety
-----------------------------------------------------------------------------
(* Who owns a room, where each room has one host and clients come after it *)

OneHost == \A g, h \in Hosts : RoomOf[g] = RoomOf[h] => g = h

(* The places of a host between the making of its room and its end.        *)
Owning == {"loop", "switch", "end"} \cup EndingAt

Owner(h) ==
    /\ pc[h] \in {"none", "create"} =>
          Room(h) = Absent /\ \A c \in Clients : RoomOf[c] = RoomOf[h] => pc[c] = "none"
    /\ pc[h] \in Owning => Dismissed(h) \/ Room(h) = h
    /\ pc[h] = "end_delete" => Dismissed(h)

OInv ==
    /\ RoomsOfHosts
    /\ \A h \in Hosts : Owner(h)

LEMMA InitOInv == Init => OInv
<1> SUFFICES ASSUME Init PROVE OInv
  OBVIOUS
<1>1. /\ \A p \in Peers : pc[p] = "none" /\ RoomOf[p] \in Rooms
      /\ Hosts \subseteq Peers /\ Clients \subseteq Peers
  BY DEF Init, Rooms, Peers
<1>2. \A r \in Rooms : roomMap[r] = Absent /\ Absent \notin Hosts
  BY PeersAssumption DEF Init, Peers
<1>3. RoomsOfHosts
  BY <1>1, <1>2 DEF RoomsOfHosts, EndingAt
<1>4. \A h \in Hosts : Owner(h)
  BY <1>1, <1>2 DEF Owner, Owning, EndingAt, Room
<1>5. QED
  BY <1>3, <1>4 DEF OInv

(* How a host comes to its places.                                         *)
LEMMA HostGoes ==
    ASSUME TypeOK, NEW p \in Peers, Acts(p), NEW h \in Hosts
    PROVE  /\ pc'[h] \in {"none", "create"} => pc'[h] = pc[h] \/ (p = h /\ Connect(h))
           /\ pc'[h] \in Owning => \/ pc[h] \in Owning \cup {"end_delete"}
                                   \/ p = h /\ Create(h)
           /\ pc'[h] = "end_delete" => pc[h] = "end_delete" \/ (p = h /\ EndHost(h))
<1>1. h \in Peers /\ h \notin Clients /\ Crashed \notin Places
  BY PeersAssumption DEF Peers
<1>2. CASE p # h
  BY <1>1, <1>2, ActsAlone
<1> USE DEF Goto, TypeOK, Owning, EndingAt, Places
<1>3. CASE p = h /\ (Receive(h) \/ ReceiveError(h) \/ ReceiveClosed(h) \/ Switch(h) \/ Exit(h))
  BY <1>1, <1>3 DEF Receive, ReceiveError, ReceiveClosed, Switch, Exit, CallEndRoom
<1>4. CASE p = h /\ (Create(h) \/ EndStartHost(h) \/ EndStartClients(h) \/ EndLeave(h))
  <2>1. CASE Create(h)
    BY <1>1, <1>4, <2>1 DEF Create
  <2>2. CASE EndStartHost(h) \/ EndStartClients(h) \/ EndLeave(h)
    <3>1. PICK l \in {"end_start_clients", "end_leave", "end_host", Crashed} :
               Goto(h, l) /\ pc[h] \in {"end_start", "end_start_clients", "end_leave"}
      BY <2>2, FollowsOn
    <3>2. QED
      BY <1>1, <3>1
  <2>3. QED
    BY <1>4, <2>1, <2>2
<1>5. CASE p = h /\ EndRoom(h)
  <2>1. PICK l \in {Crashed, "end_start", "end_leave"} : Goto(h, l) /\ pc[h] = "end"
    BY <1>5 DEF EndRoom
  <2>2. QED
    BY <1>1, <1>5, <2>1
<1>6. CASE p = h /\ EndHost(h)
  <2>1. PICK l \in {Crashed, "end_delete"} : Goto(h, l) /\ pc[h] = "end_host"
    BY <1>6 DEF EndHost
  <2>2. QED
    BY <1>1, <1>6, <2>1
<1>7. CASE p = h /\ EndDelete(h)
  BY <1>1, <1>7 DEF EndDelete
<1>8. CASE p = h /\ Connect(h)
  BY <1>1, <1>8 DEF Connect
<1>9. CASE p = h /\ ~Connect(h) /\ Peer(h)
  BY <1>9 DEF Peer, CloseWhenDismissed, LeaveAlone, Reset, HostStarts
<1>10. QED
  BY <1>1, <1>2, <1>3, <1>4, <1>5, <1>6, <1>7, <1>8, <1>9 DEF Acts, Handler, HandlerStep

(* With one host to a room, endRoom() ends the room of the host whose      *)
(* handler calls it, and nobody else sends a host away.                    *)
LEMMA EndsItsOwn ==
    ASSUME OneHost, IInv, RoomsOfHosts, NEW h \in Hosts, pc[h] \in EndingAt
    PROVE  ending[h].room = h
  BY DEF OneHost, IInv, EndingFoundRoom, RoomsOfHosts

LEMMA HostDismissedBy ==
    ASSUME OneHost, IInv, RoomsOfHosts, NEW p \in Peers, Acts(p), NEW h \in Hosts
    PROVE  /\ Dismissed(h)' => Dismissed(h) \/ (p = h /\ EndHost(h))
           /\ p = h /\ EndHost(h) => Dismissed(h)'
<1>1. TypeOK /\ h \in Peers /\ Hosts \cap Clients = {}
  BY PeersAssumption DEF IInv, Peers
<1>2. \A k \in Hosts : EndHost(k) => ending[k].room = k
  BY EndsItsOwn DEF EndHost, EndingAt
<1>3. ASSUME EndHost(h) PROVE Dismissed(h)'
  <2>1. told[h] \in Seq(Messages) /\ Leave \in Messages
    BY <1>1 DEF TypeOK, Messages
  <2>2. told'[h] = Append(told[h], Leave)
    BY <1>1, <1>2, <1>3 DEF EndHost, TypeOK
  <2>3. QED
    BY <2>1, <2>2, SaidOnce DEF Dismissed
<1>4. ASSUME Dismissed(h)', ~Dismissed(h) PROVE p = h /\ EndHost(h)
  <2>1. ~(p \in Hosts /\ EndLeave(p) /\ h \in ToSet(ending[p].clients))
    BY <1>1, CopiedArePeers
  <2>2. p \in Hosts /\ EndHost(p) /\ h = ending[p].room
    BY <1>1, <1>4, <2>1, DismissedBy
  <2>3. QED
    BY <1>2, <2>2
<1>5. QED
  BY <1>3, <1>4

LEMMA OwnerKept ==
    ASSUME OneHost, "early" \notin Faults, IInv, OInv, NEW p \in Peers, Acts(p), NEW h \in Hosts
    PROVE  Owner(h)'
<1>1. /\ TypeOK /\ Owner(h) /\ RoomsOfHosts /\ h \in Peers /\ RoomOf[h] \in Rooms
      /\ Absent \notin Hosts /\ Hosts \cap Clients = {} /\ Clients \subseteq Peers
  BY PeersAssumption DEF IInv, OInv, Peers, Rooms
<1>2. Dismissed(h) => Dismissed(h)'
  BY <1>1, DismissedBy
<1>3. ASSUME pc'[h] \in {"none", "create"}
      PROVE  Room(h)' = Absent /\ \A c \in Clients : RoomOf[c] = RoomOf[h] => pc'[c] = "none"
  <2>1. pc[h] \in {"none", "create"} /\ ~(p = h /\ Create(h))
    <3>1. p = h /\ Connect(h) => pc[h] = "none"
      BY <1>1 DEF Connect, IInv, NoHandlerYet
    <3>2. p = h /\ Create(h) => pc'[h] = "loop"
      BY <1>1 DEF Create, Goto, TypeOK
    <3>3. QED
      BY <1>1, <1>3, <3>1, <3>2, HostGoes
  <2>2. Room(h) = Absent /\ \A c \in Clients : RoomOf[c] = RoomOf[h] => pc[c] = "none"
    BY <1>1, <2>1 DEF Owner
  <2>3. \A g \in Hosts : RoomOf[g] = RoomOf[h] => g = h
    BY DEF OneHost
  <2>4. ~(RoomOf[p] = RoomOf[h] /\ pc[p] \in {"lookup", "add", "remove", "end"})
    BY <2>1, <2>2, <2>3 DEF Peers
  <2>5. roomMap'[RoomOf[h]] = Absent
    BY <1>1, <2>1, <2>2, <2>3, <2>4, MapStep DEF Room
  <2>6. ASSUME NEW c \in Clients, RoomOf[c] = RoomOf[h] PROVE pc'[c] = "none"
    <3>1. pc[c] = "none" /\ c \in Peers
      BY <1>1, <2>2, <2>6
    <3>2. ~Connect(c)
      BY <1>1, <2>2, <2>6 DEF Connect, Room
    <3>3. QED
      BY <1>1, <3>1, <3>2, ConnectsFirst
  <2>7. QED
    BY <2>5, <2>6 DEF Room
<1>4. ASSUME pc'[h] \in Owning, ~Dismissed(h)' PROVE Room(h)' = h
  <2>1. CASE p = h /\ Create(h)
    <3>1. roomMap[RoomOf[h]] = Absent
      BY <1>1, <2>1 DEF Owner, Create, Room
    <3>2. QED
      BY <1>1, <2>1, <3>1 DEF Create, TypeOK, Room
  <2>2. CASE pc[h] \in Owning
    <3>1. roomMap[RoomOf[h]] = h
      BY <1>1, <1>2, <1>4, <2>2 DEF Owner, Room
    <3>2. pc[h] # "end_delete"
      BY <2>2 DEF Owning, EndingAt
    <3>3. \A g \in Hosts : RoomOf[g] = RoomOf[h] => ~EndDelete(g)
      BY <3>2 DEF OneHost, EndDelete
    <3>4. roomMap'[RoomOf[h]] = h
      BY <1>1, <3>1, <3>3, MapStep
    <3>5. QED
      BY <3>4 DEF Room
  <2>3. pc[h] # "end_delete"
    BY <1>1, <1>2, <1>4 DEF Owner
  <2>4. QED
    BY <1>1, <1>4, <2>1, <2>2, <2>3, HostGoes
<1>5. ASSUME pc'[h] = "end_delete" PROVE Dismissed(h)'
  BY <1>1, <1>2, <1>5, HostGoes, HostDismissedBy DEF Owner
<1>6. QED
  BY <1>3, <1>4, <1>5 DEF Owner

LEMMA NextOInv ==
    ASSUME OneHost, "early" \notin Faults, IInv, OInv, [Next]_vars
    PROVE  OInv'
<1>1. CASE UNCHANGED vars
  BY <1>1
     DEF vars, roomVars, localVars, peerVars, OInv, RoomsOfHosts, Owner, Room, Dismissed
<1>2. ASSUME NEW p \in Peers, Acts(p) PROVE OInv'
  <2>1. RoomsOfHosts'
    BY <1>2, RoomsOfHostsKept DEF OInv
  <2>2. \A h \in Hosts : Owner(h)'
    BY <1>2, OwnerKept
  <2>3. QED
    BY <2>1, <2>2 DEF OInv
<1>3. QED
  BY <1>1, <1>2 DEF Next, Acts

(* Where a room has one host and clients come after it, a host whose       *)
(* handler has made its room keeps it until it is sent away, whoever       *)
(* leaves, breaks down, joins late or together with others.                *)
THEOREM HostsKeepTheirRooms ==
    OneHost /\ "early" \notin Faults => (Safety => []HostOwnsRoom)
<1> SUFFICES ASSUME OneHost, "early" \notin Faults PROVE Safety => []HostOwnsRoom
  OBVIOUS
<1>1. IInv /\ OInv /\ [Next]_vars => (IInv /\ OInv)'
  BY NextInv, NextOInv
<1>2. OInv => HostOwnsRoom
  BY DEF OInv, Owner, Owning, HostOwnsRoom
<1>3. QED
  BY <1>1, <1>2, InitInv, InitOInv, PTL DEF Safety
-----------------------------------------------------------------------------
(* The server survives, where moreover clients come one by one and before  *)
(* the start, and clients stay until they are sent away and hosts until    *)
(* they have started their room                                            *)

PeersStay ==
    Faults \cap {"early", "together", "late", "leave", "hostLeave", "hostReset"} = {}

(* A host starts once, and its handler is in endRoom() for that alone.     *)
HostServed(h) ==
    /\ peer[h] # "reset"
    /\ inbox[h] # <<>> => msgBuffer[h] = "ENTRY" /\ inbox[h] = <<"START_PUNCH">>
    /\ msgBuffer[h] = "ENTRY" => pc[h] \in {"none", "create", "loop"} /\ ~Dismissed(h)
    /\ pc[h] \in {"switch", "end"} \cup EndingAt => ~Dismissed(h)

(* A client says nothing, and finds the room of its own host, which has    *)
(* not started it yet.                                                     *)
ClientServed(c) ==
    /\ inbox[c] = <<>> /\ msgBuffer[c] = "ENTRY" /\ pc[c] # "remove"
    /\ peer[c] = "closed" => Dismissed(c)
    /\ pc[c] = "check" => found[c] = Null \/ RoomOf[found[c]] = RoomOf[c]
    /\ Joins(c) => \A h \in Hosts : RoomOf[h] = RoomOf[c] => ~Starts(h)

(* Everybody whom a room's vector or its copy points to is one of its      *)
(* clients, and still there until it is sent away.                         *)
VectorServed(h) ==
    /\ \A c \in ToSet(roomVector[h]) : RoomOf[c] = RoomOf[h] /\ (Within(c) \/ Dismissed(c))
    /\ pc[h] \in Copying =>
          \A c \in ToSet(ending[h].clients) : RoomOf[c] = RoomOf[h] /\ Within(c)
    /\ \A c \in Clients : RoomOf[c] = RoomOf[h] /\ Dismissed(c) =>
          pc[h] = "end_host" \/ Dismissed(h)

SInv ==
    /\ Running
    /\ \A h \in Hosts : HostServed(h) /\ VectorServed(h)
    /\ \A c \in Clients : ClientServed(c)

LEMMA InitSInv == Init => SInv
<1> SUFFICES ASSUME Init PROVE SInv
  OBVIOUS
<1>1. /\ \A p \in Peers : /\ pc[p] = "none" /\ ~Dismissed(p) /\ inbox[p] = <<>>
                          /\ msgBuffer[p] = "ENTRY" /\ peer[p] = "out"
      /\ Hosts \subseteq Peers /\ Clients \subseteq Peers /\ Crashed # "none"
  BY PeersAssumption DEF Init, Dismissed, ToSet, Peers, Places
<1>2. \A h \in Hosts : ToSet(roomVector[h]) = {}
  BY DEF Init, ToSet
<1>3. \A h \in Hosts : VectorServed(h)
  BY <1>1, <1>2 DEF VectorServed, Copying
<1>4. QED
  BY <1>1, <1>3 DEF SInv, Running, HostServed, ClientServed, Joins, EndingAt

(* A host's room is there as long as somebody joins it.                    *)
LEMMA JoinsALiveHost ==
    ASSUME DInv, SInv, NEW h \in Hosts, NEW c \in Clients, RoomOf[h] = RoomOf[c], Joins(c),
           TypeOK
    PROVE  Alive(h)
<1>1. ~Said(h) /\ msgBuffer[h] # "LEAVE" /\ h \in Peers
  BY DEF SInv, ClientServed, Starts, DInv, HostStays, Peers
<1>2. msgBuffer[h] = "ENTRY"
  BY <1>1 DEF Said, TypeOK
<1>3. QED
  BY <1>2 DEF SInv, HostServed, Alive

(* Each handler step goes on: the places where the code could go wrong are *)
(* not come to, or what they look at is there.                             *)
LEMMA GoesOn ==
    ASSUME OneHost, IInv, DInv, NInv, OInv, SInv, NEW p \in Peers, Acts(p)
    PROVE  Running'
<1>1. /\ TypeOK /\ p \in Peers /\ Crashed \notin Places /\ Hosts \cap Clients = {}
      /\ Null \notin Hosts /\ Absent \notin Hosts /\ Hosts \subseteq Peers
  BY PeersAssumption DEF IInv, Peers
<1>2. SUFFICES pc'[p] # Crashed
  BY <1>1, ActsAlone DEF Running, SInv
<1>3. pc[p] # Crashed
  BY DEF SInv, Running
<1> USE DEF Goto, TypeOK, Places
<1>4. CASE Receive(p) \/ ReceiveError(p) \/ ReceiveClosed(p) \/ Switch(p) \/ Exit(p)
  BY <1>1, <1>3, <1>4 DEF Receive, ReceiveError, ReceiveClosed, Switch, Exit, CallEndRoom
<1>5. CASE p \in Hosts /\ (Create(p) \/ EndDelete(p))
  <2>1. ending[p].next \in {"loop", "exit"}
    BY <1>1
  <2>2. PICK l \in {"loop", "exit"} : Goto(p, l)
    BY <1>5, <2>1 DEF Create, EndDelete
  <2>3. QED
    BY <1>1, <2>2
<1>13. CASE p \in Hosts /\ (EndStartHost(p) \/ EndStartClients(p) \/ EndLeave(p))
  <2>1. pc[p] \in Copying
    BY <1>13, FollowsOn DEF Copying
  <2>2. ~Dangling(ending[p].clients)
    BY <1>13, <2>1 DEF SInv, VectorServed, Within, Dangling, Alive
  <2>3. PICK l \in {"end_start_clients", "end_leave", "end_host"} : Goto(p, l)
    BY <1>13, <2>2 DEF EndStartHost, EndStartClients, TellClients, EndLeave, AfterFollowing
  <2>4. QED
    BY <1>1, <2>3
<1>6. CASE p \in Hosts /\ EndRoom(p)
  <2>1. pc[p] = "end"
    BY <1>6 DEF EndRoom
  <2>2. Room(p) = p
    BY <1>6, <2>1 DEF SInv, HostServed, OInv, Owner, Owning
  <2>3. Subscript(p) = p /\ Alive(p) /\ Subscript(p) # Null
    BY <1>1, <1>6, <2>1, <2>2 DEF Subscript, Alive
  <2>4. PICK l \in {"end_start", "end_leave"} : Goto(p, l)
    BY <1>6, <2>3 DEF EndRoom
  <2>5. QED
    BY <1>1, <2>4
<1>7. CASE p \in Hosts /\ EndHost(p)
  <2>1. pc[p] = "end_host"
    BY <1>7 DEF EndHost
  <2>2. ending[p].room = p
    BY <1>7, <2>1, EndsItsOwn DEF OInv, EndingAt
  <2>3. Goto(p, "end_delete")
    BY <1>7, <2>1, <2>2 DEF EndHost, Alive
  <2>4. QED
    BY <1>1, <2>3
<1>8. CASE p \in Clients /\ (Lookup(p) \/ Add(p))
  BY <1>1, <1>8 DEF Lookup, Add
<1>14. CASE p \in Clients /\ PushBack(p)
  <2>1. pc[p] = "push" /\ Joins(p) /\ RoomOf[p] \in Rooms
    BY <1>14 DEF PushBack, Joins, Rooms
  <2>2. found[p] = Room(p) /\ Room(p) \in Hosts /\ RoomOf[Room(p)] = RoomOf[p]
    BY <1>14, <2>1 DEF NInv, OneByOne, RoomsOfHosts, Room
  <2>3. Alive(found[p])
    BY <1>1, <1>14, <2>1, <2>2, JoinsALiveHost
  <2>4. Goto(p, "loop")
    BY <1>14, <2>3 DEF PushBack
  <2>5. QED
    BY <1>1, <2>4
<1>9. CASE p \in Clients /\ Check(p)
  <2>1. pc[p] = "check" /\ Joins(p)
    BY <1>9 DEF Check, Joins
  <2>2. found[p] # Null => found[p] \in Hosts /\ RoomOf[found[p]] = RoomOf[p]
    BY <1>1, <1>9, <2>1 DEF SInv, ClientServed
  <2>3. found[p] = Null \/ Alive(found[p])
    BY <1>1, <1>9, <2>1, <2>2, JoinsALiveHost
  <2>4. PICK l \in {"gone", "add"} : Goto(p, l)
    BY <1>9, <2>3 DEF Check
  <2>5. QED
    BY <1>1, <2>4
<1>10. ~(p \in Clients /\ RemoveClient(p))
  BY DEF SInv, ClientServed, RemoveClient
<1>11. CASE Peer(p)
  BY <1>1, <1>3, <1>11 DEF Peer, Connect, CloseWhenDismissed, LeaveAlone, Reset, HostStarts
<1>12. QED
  BY <1>4, <1>5, <1>6, <1>7, <1>8, <1>9, <1>10, <1>11, <1>13, <1>14
     DEF Acts, Handler, HandlerStep

LEMMA HostServedKept ==
    ASSUME OneHost, PeersStay, IInv, DInv, OInv, SInv, NEW p \in Peers, Acts(p), NEW h \in Hosts
    PROVE  HostServed(h)'
<1>1. /\ TypeOK /\ HostServed(h) /\ HostStays(h) /\ RoomsOfHosts /\ h \in Peers
      /\ h \notin Clients /\ Crashed \notin Places
  BY PeersAssumption DEF IInv, SInv, DInv, OInv, Peers
<1>2. Dismissed(h)' => Dismissed(h) \/ (p = h /\ EndHost(h))
  BY <1>1, HostDismissedBy
<1>3. CASE p # h
  BY <1>1, <1>2, <1>3, ActsAlone DEF HostServed
<1>4. CASE p = h /\ Receive(h)
  <2>1. /\ pc[h] = "loop" /\ inbox[h] = <<"START_PUNCH">> /\ ~Dismissed(h)
    BY <1>1, <1>4 DEF Receive, HostServed
  <2>2. /\ inbox'[h] = Tail(inbox[h]) /\ msgBuffer'[h] = Head(inbox[h]) /\ peer' = peer
    BY <1>1, <1>4 DEF Receive, TypeOK
  <2>3. inbox'[h] = <<>> /\ msgBuffer'[h] = "START_PUNCH"
    BY <2>1, <2>2
  <2>4. ~EndHost(h)
    BY <2>1 DEF EndHost
  <2>5. QED
    BY <1>1, <1>2, <2>1, <2>2, <2>3, <2>4 DEF HostServed
<1>5. CASE p = h /\ (ReceiveError(h) \/ ReceiveClosed(h))
  <2>1. peer[h] # "reset" /\ ~ReceiveError(h)
    BY <1>1 DEF HostServed, ReceiveError
  <2>2. peer[h] = "closed" /\ pc[h] = "loop" /\ Dismissed(h) /\ isLeaving[h] = TRUE
    BY <1>1, <1>5, <2>1 DEF ReceiveClosed, HostStays, DInv, DismissedIsLeaving, TypeOK
  <2>3. pc'[h] = "exit" /\ UNCHANGED <<msgBuffer, peer, inbox>>
    BY <1>1, <1>5, <2>1, <2>2 DEF ReceiveClosed, Goto, TypeOK, peerVars
  <2>4. msgBuffer[h] # "ENTRY"
    BY <1>1, <2>2 DEF HostServed
  <2>5. QED
    BY <1>1, <2>3, <2>4 DEF HostServed, EndingAt
<1>6. CASE p = h /\ (Create(h) \/ Switch(h) \/ Exit(h))
  <2>1. /\ pc'[h] \in {"loop", "end", "exit", "gone", "remove"}
        /\ UNCHANGED <<msgBuffer, peer, inbox, told>>
    BY <1>1, <1>6 DEF Create, Switch, Exit, CallEndRoom, Goto, TypeOK, localVars, peerVars
  <2>2. /\ pc'[h] = "end" => ~Dismissed(h)
        /\ msgBuffer[h] = "ENTRY" => pc'[h] = "loop"
    BY <1>1, <1>6 DEF Create, Switch, Exit, CallEndRoom, Goto, TypeOK, HostServed
  <2>3. Dismissed(h)' <=> Dismissed(h)
    BY <2>1 DEF Dismissed
  <2>4. QED
    BY <1>1, <2>1, <2>2, <2>3 DEF HostServed, EndingAt
<1>7. CASE p = h /\ (EndRoom(h) \/ EndStartHost(h) \/ EndStartClients(h) \/ EndLeave(h))
  <2>1. /\ pc[h] \in {"end"} \cup EndingAt /\ ~EndHost(h)
        /\ UNCHANGED <<msgBuffer, peer, inbox>>
    BY <1>1, <1>7
       DEF EndRoom, EndStartHost, EndStartClients, TellClients, EndLeave, EndHost, EndingAt,
           localVars, peerVars
  <2>2. ~Dismissed(h) /\ msgBuffer[h] # "ENTRY"
    BY <1>1, <2>1 DEF HostServed, EndingAt
  <2>3. QED
    BY <1>1, <1>2, <2>1, <2>2 DEF HostServed
<1>8. CASE p = h /\ (EndHost(h) \/ EndDelete(h))
  <2>1. /\ pc[h] \in {"end_host", "end_delete"}
        /\ UNCHANGED <<msgBuffer, peer, inbox>>
    BY <1>8 DEF EndHost, EndDelete, localVars, peerVars
  <2>2. msgBuffer[h] # "ENTRY"
    BY <1>1, <2>1 DEF HostServed
  <2>3. pc'[h] \in {Crashed, "end_delete", "loop", "exit"}
    BY <1>1, <1>8 DEF EndHost, EndDelete, Goto, TypeOK
  <2>4. Crashed \notin {"switch", "end"} \cup EndingAt
    BY <1>1 DEF Places, EndingAt
  <2>5. QED
    BY <1>1, <2>1, <2>2, <2>3, <2>4 DEF HostServed, EndingAt
<1>9. CASE p = h /\ Connect(h)
  <2>1. /\ pc[h] = "none" /\ pc'[h] = "create" /\ peer'[h] = "in"
        /\ UNCHANGED <<msgBuffer, inbox, told>>
    BY <1>1, <1>9 DEF IInv, NoHandlerYet, Connect, Goto, TypeOK, localVars
  <2>2. Dismissed(h)' <=> Dismissed(h)
    BY <2>1 DEF Dismissed
  <2>3. QED
    BY <1>1, <2>1, <2>2 DEF HostServed, EndingAt
<1>10. CASE p = h /\ (CloseWhenDismissed(h) \/ HostStarts(h))
  <2>1. /\ UNCHANGED <<pc, msgBuffer, told>>
        /\ peer'[h] \in {peer[h], "closed"}
        /\ \/ inbox'[h] = inbox[h]
           \/ msgBuffer[h] = "ENTRY" /\ inbox'[h] = <<"START_PUNCH">>
    BY <1>1, <1>10 DEF CloseWhenDismissed, HostStarts, Say, TypeOK, localVars
  <2>2. Dismissed(h)' <=> Dismissed(h)
    BY <2>1 DEF Dismissed
  <2>3. QED
    BY <1>1, <2>1, <2>2 DEF HostServed
<1>11. ~LeaveAlone(h) /\ ~Reset(h)
  BY <1>1 DEF PeersStay, LeaveAlone, Reset
<1>12. QED
  BY <1>1, <1>3, <1>4, <1>5, <1>6, <1>7, <1>8, <1>9, <1>10, <1>11
     DEF Acts, Handler, HandlerStep, Peer

LEMMA ClientServedKept ==
    ASSUME PeersStay, IInv, DInv, OInv, SInv, NEW p \in Peers, Acts(p), NEW c \in Clients
    PROVE  ClientServed(c)'
<1>1. /\ TypeOK /\ ClientServed(c) /\ RoomsOfHosts /\ c \in Peers /\ RoomOf[c] \in Rooms
      /\ c \notin Hosts /\ Crashed \notin Places /\ "late" \notin Faults
  BY PeersAssumption DEF IInv, SInv, OInv, PeersStay, Peers, Rooms
<1>2. Dismissed(c) => Dismissed(c)'
  BY <1>1, DismissedBy
<1>3. ASSUME Joins(c)', NEW h \in Hosts, RoomOf[h] = RoomOf[c] PROVE ~Starts(h)'
  BY <1>1, <1>3, StartSeals DEF ClientServed
<1>4. CASE p # c
  BY <1>1, <1>2, <1>3, <1>4, ActsAlone DEF ClientServed
<1>5. CASE p = c /\ Lookup(c)
  <2>1. /\ pc'[c] = "check" /\ found'[c] = Subscript(c)
        /\ UNCHANGED <<inbox, msgBuffer, peer>>
    BY <1>1, <1>5 DEF Lookup, Goto, TypeOK, peerVars
  <2>2. Subscript(c) = Null \/ RoomOf[Subscript(c)] = RoomOf[c]
    BY <1>1, SubscriptType DEF Subscript, Room, RoomsOfHosts
  <2>3. QED
    BY <1>1, <1>2, <1>3, <2>1, <2>2 DEF ClientServed
<1>6. CASE p = c /\ (Check(c) \/ Add(c) \/ PushBack(c))
  <2>1. /\ pc'[c] \in {"gone", "add", Crashed, "loop", "push"}
        /\ UNCHANGED <<inbox, msgBuffer, peer>>
    BY <1>1, <1>6 DEF Check, Add, PushBack, Goto, TypeOK, localVars, peerVars
  <2>2. Crashed # "check" /\ Crashed # "remove"
    BY <1>1 DEF Places
  <2>3. QED
    BY <1>1, <1>2, <1>3, <2>1, <2>2 DEF ClientServed
<1>7. CASE p = c /\ (ReceiveError(c) \/ Switch(c) \/ Exit(c))
  <2>1. /\ pc'[c] \in {"switch", "loop", "gone"}
        /\ UNCHANGED <<inbox, msgBuffer, peer>>
    BY <1>1, <1>7
       DEF ReceiveError, Switch, Exit, ClientServed, Goto, TypeOK, localVars, peerVars
  <2>2. QED
    BY <1>1, <1>2, <1>3, <2>1 DEF ClientServed
<1>8. CASE p = c /\ ReceiveClosed(c)
  <2>1. isLeaving[c] = TRUE
    BY <1>1, <1>8 DEF ReceiveClosed, ClientServed, DInv, DismissedIsLeaving, TypeOK
  <2>2. pc'[c] = "exit" /\ UNCHANGED <<inbox, msgBuffer, peer>>
    BY <1>1, <1>8, <2>1 DEF ReceiveClosed, Goto, TypeOK, peerVars
  <2>3. QED
    BY <1>1, <1>2, <1>3, <2>2 DEF ClientServed
<1>9. CASE p = c /\ Connect(c)
  <2>1. /\ pc'[c] = "lookup" /\ peer'[c] = "in"
        /\ UNCHANGED <<inbox, msgBuffer>>
    BY <1>1, <1>9 DEF Connect, Goto, TypeOK, localVars
  <2>2. QED
    BY <1>1, <1>3, <2>1 DEF ClientServed
<1>10. CASE p = c /\ (CloseWhenDismissed(c) \/ Reset(c))
  <2>1. /\ UNCHANGED <<pc, msgBuffer, found>> /\ inbox'[c] \in {inbox[c], <<>>}
        /\ peer'[c] = "closed" => Dismissed(c)
    BY <1>1, <1>10 DEF CloseWhenDismissed, Reset, TypeOK, localVars
  <2>2. QED
    BY <1>1, <1>2, <1>3, <2>1 DEF ClientServed
<1>11. ~Receive(c) /\ ~RemoveClient(c) /\ ~LeaveAlone(c)
  BY <1>1 DEF ClientServed, Receive, RemoveClient, LeaveAlone, PeersStay
<1>12. QED
  BY <1>1, <1>4, <1>5, <1>6, <1>7, <1>8, <1>9, <1>10, <1>11
     DEF Acts, Handler, HandlerStep, Peer

(* A client that is within stays there until it is sent away, ...          *)
LEMMA WithinStays ==
    ASSUME IInv, NEW p \in Peers, Acts(p), NEW c \in Clients, Within(c), ~LeaveAlone(c),
           inbox[c] = <<>>, msgBuffer[c] = "ENTRY", peer[c] # "closed"
    PROVE  Within(c)'
<1>1. /\ TypeOK /\ c \in Peers /\ c \notin Hosts /\ pc[c] \in {"loop", "switch"}
      /\ peer[c] # "out"
  BY PeersAssumption DEF IInv, NoHandlerYet, Within, Peers
<1>2. SUFFICES pc'[c] \in {"loop", "switch"}
  BY DEF Within
<1>3. CASE p # c
  BY <1>1, <1>3, ActsAlone
<1>4. CASE p = c /\ (ReceiveError(c) \/ Switch(c))
  BY <1>1, <1>4 DEF ReceiveError, Switch, Goto, TypeOK
<1>5. ~(Receive(c) \/ ReceiveClosed(c) \/ Exit(c) \/ Connect(c))
  BY <1>1 DEF Receive, ReceiveClosed, Exit, Connect
<1>6. ~(Lookup(c) \/ Check(c) \/ Add(c) \/ PushBack(c) \/ RemoveClient(c))
  BY <1>1 DEF Lookup, Check, Add, PushBack, RemoveClient
<1>7. CASE p = c /\ (CloseWhenDismissed(c) \/ Reset(c))
  BY <1>1, <1>7 DEF CloseWhenDismissed, Reset
<1>8. QED
  BY <1>1, <1>3, <1>4, <1>5, <1>6, <1>7 DEF Acts, Handler, HandlerStep, Peer

(* ... which nobody does but the handler of its host, once it has told the *)
(* clients of the host.                                                    *)
LEMMA ClientDismissedBy ==
    ASSUME OneHost, IInv, SInv, NEW p \in Peers, Acts(p), NEW h \in Hosts,
           NEW c \in Clients, RoomOf[c] = RoomOf[h], Dismissed(c)', ~Dismissed(c)
    PROVE  p = h /\ EndLeave(h)
<1>1. c \in Peers /\ c \notin Hosts
  BY PeersAssumption DEF Peers
<1>2. ~(p \in Hosts /\ EndHost(p) /\ c = ending[p].room)
  BY <1>1 DEF EndHost, IInv, EndingFoundRoom, EndingAt
<1>3. p \in Hosts /\ EndLeave(p) /\ c \in ToSet(ending[p].clients)
  BY <1>1, <1>2, DismissedBy
<1>4. RoomOf[c] = RoomOf[p]
  BY <1>3 DEF EndLeave, SInv, VectorServed, Copying
<1>5. QED
  BY <1>3, <1>4 DEF OneHost

LEMMA VectorServedKept ==
    ASSUME OneHost, PeersStay, IInv, DInv, NInv, OInv, SInv, NEW p \in Peers, Acts(p),
           NEW h \in Hosts
    PROVE  VectorServed(h)'
<1>1. /\ TypeOK /\ HostServed(h) /\ VectorServed(h) /\ h \in Peers /\ h \notin Clients
      /\ roomVector[h] \in Seq(Clients) /\ Clients \subseteq Peers
  BY PeersAssumption DEF IInv, SInv, Peers, TypeOK
<1>2. ToSet(roomVector[h]) \subseteq Clients /\ ToSet(ending[h].clients) \subseteq Clients
  BY <1>1, CopiedArePeers DEF ToSet
<1>3. \A q \in Peers : pc'[q] # Crashed
  BY GoesOn DEF Running
<1>4. \A c \in Clients :
         /\ Dismissed(c) => Dismissed(c)'
         /\ Within(c) /\ ~Dismissed(c) => Within(c)'
  <2>1. TAKE c \in Clients
  <2>2. Dismissed(c) => Dismissed(c)'
    BY <1>1, DismissedBy
  <2>3. /\ inbox[c] = <<>> /\ msgBuffer[c] = "ENTRY" /\ ~LeaveAlone(c)
        /\ ~Dismissed(c) => peer[c] # "closed"
    BY PeersAssumption DEF SInv, ClientServed, LeaveAlone, PeersStay
  <2>4. QED
    BY <2>2, <2>3, WithinStays
<1>5. ASSUME NEW c \in ToSet(roomVector'[h])
      PROVE  RoomOf[c] = RoomOf[h] /\ (Within(c)' \/ Dismissed(c)')
  <2>1. CASE roomVector'[h] = roomVector[h]
    BY <1>1, <1>2, <1>4, <1>5, <2>1 DEF VectorServed
  <2>2. CASE p \in Clients /\ PushBack(p) /\ found[p] = h
    <3>1. Joins(p) /\ pc[p] = "push" /\ RoomOf[p] \in Rooms
      BY <2>2 DEF PushBack, Joins, Rooms
    <3>2. h = Room(p) /\ slot[p] = Len(roomVector[h]) /\ RoomOf[h] = RoomOf[p]
      BY <2>2, <3>1 DEF NInv, OneByOne, RoomsOfHosts, Room
    <3>3. ToSet(roomVector'[h]) = ToSet(roomVector[h]) \cup {p}
      BY <1>1, <2>2, <3>2, PushedAtTheEnd
    <3>4. PICK l \in {"loop", Crashed} : Goto(p, l)
      BY <2>2 DEF PushBack
    <3>5. pc'[p] = "loop"
      BY <1>1, <1>3, <3>4 DEF Goto, TypeOK
    <3>6. CASE c = p
      BY <3>2, <3>5, <3>6 DEF Within
    <3>7. CASE c \in ToSet(roomVector[h])
      BY <1>1, <1>2, <1>4, <3>7 DEF VectorServed
    <3>8. QED
      BY <1>5, <3>3, <3>6, <3>7
  <2>3. QED
    BY <1>1, <2>1, <2>2, VectorStep
<1>6. ASSUME pc'[h] \in Copying, NEW c \in ToSet(ending'[h].clients)
      PROVE  RoomOf[c] = RoomOf[h] /\ Within(c)'
  <2>1. /\ pc[h] \in {"end"} \cup EndingAt /\ pc[h] # "end_host"
        /\ c \in Clients /\ RoomOf[c] = RoomOf[h] /\ (Within(c) \/ Dismissed(c))
    <3>1. CASE pc[h] \in Copying /\ ending'[h] = ending[h]
      BY <1>1, <1>2, <1>6, <3>1 DEF VectorServed, Copying, EndingAt
    <3>2. CASE EndRoom(h) /\ ending'[h].clients = roomVector[Subscript(h)]
      <4>1. pc[h] = "end"
        BY <3>2 DEF EndRoom
      <4>2. Room(h) = h
        BY <1>1, <4>1 DEF HostServed, OInv, Owner, Owning
      <4>3. Subscript(h) = h
        BY <4>2, PeersAssumption DEF Subscript, Peers
      <4>4. QED
        BY <1>1, <1>2, <1>6, <3>2, <4>1, <4>3 DEF VectorServed
    <3>3. QED
      BY <1>6, <3>1, <3>2, EndingBy
  <2>2. ~Dismissed(c)
    BY <1>1, <2>1 DEF VectorServed, HostServed
  <2>3. QED
    BY <1>4, <2>1, <2>2
<1>7. ASSUME NEW c \in Clients, RoomOf[c] = RoomOf[h], Dismissed(c)'
      PROVE  pc'[h] = "end_host" \/ Dismissed(h)'
  <2>1. CASE ~Dismissed(c)
    <3>1. EndLeave(h)
      BY <1>7, <2>1, ClientDismissedBy
    <3>2. pc[h] = "end_leave"
      BY <3>1 DEF EndLeave
    <3>3. PICK l \in {"end_host", Crashed} : Goto(h, l)
      BY <3>1, <3>2, FollowsOn
    <3>4. QED
      BY <1>1, <1>3, <3>3 DEF Goto, TypeOK
  <2>2. CASE Dismissed(h)
    BY <1>1, <2>2, DismissedBy
  <2>3. CASE pc[h] = "end_host" /\ p # h
    BY <1>1, <2>3, ActsAlone
  <2>4. CASE pc[h] = "end_host" /\ p = h
    <3>1. CASE EndHost(h)
      BY <2>4, <3>1, HostDismissedBy DEF OInv
    <3>2. CASE pc' = pc
      BY <2>4, <3>2
    <3>3. ~Connect(h)
      BY <1>1, <2>4 DEF Connect, IInv, NoHandlerYet
    <3>4. QED
      BY <1>1, <2>4, <3>1, <3>2, <3>3
         DEF Acts, Handler, HandlerStep, Peer, Receive, ReceiveError, ReceiveClosed, Switch, Exit,
             Create, EndRoom, EndStartHost, EndStartClients, TellClients, EndLeave, EndDelete,
             CloseWhenDismissed, LeaveAlone, Reset, HostStarts
  <2>5. QED
    BY <1>1, <1>7, <2>1, <2>2, <2>3, <2>4 DEF VectorServed
<1>8. QED
  BY <1>5, <1>6, <1>7 DEF VectorServed

LEMMA NextSInv ==
    ASSUME OneHost, PeersStay, IInv, DInv, NInv, OInv, SInv, [Next]_vars
    PROVE  SInv'
<1>1. CASE UNCHANGED vars
  <2>1. UNCHANGED <<pc, peer, inbox, msgBuffer, found, told, ending, roomVector>>
    BY <1>1 DEF vars, roomVars, localVars, peerVars
  <2>2. \A h \in Hosts : VectorServed(h)'
    BY <2>1 DEF SInv, VectorServed, Within, Dismissed
  <2>3. QED
    BY <2>1, <2>2 DEF SInv, Running, HostServed, ClientServed, Joins, Starts, Said, Dismissed
<1>2. ASSUME NEW p \in Peers, Acts(p) PROVE SInv'
  BY <1>2, GoesOn, HostServedKept, VectorServedKept, ClientServedKept DEF SInv
<1>3. QED
  BY <1>1, <1>2 DEF Next, Acts

(* Where a room has one host, clients come after it, one by one and before *)
(* it starts, stay until they are sent away, and hosts stay until they     *)
(* have started, no step of any handler brings the server down: every room *)
(* and every client whose pointer a handler follows is there.  The         *)
(* connections of clients may break at any time.                           *)
THEOREM ServerSurvives == OneHost /\ PeersStay => (Safety => []NoCrash)
<1> SUFFICES ASSUME OneHost, PeersStay PROVE Safety => []NoCrash
  OBVIOUS
<1>1. "early" \notin Faults /\ "hostLeave" \notin Faults /\ OrderKept
  BY DEF PeersStay, OrderKept
<1>2. IInv /\ DInv /\ NInv /\ OInv /\ SInv /\ [Next]_vars
         => (IInv /\ DInv /\ NInv /\ OInv /\ SInv)'
  BY <1>1, NextInv, NextDInv, NextNInv, NextOInv, NextSInv
<1>3. SInv => NoCrash
  BY DEF SInv, NoCrash
<1>4. QED
  BY <1>2, <1>3, InitInv, InitDInv, InitNInv, InitOInv, InitSInv, PTL DEF Safety
=============================================================================
