---------------------------- MODULE PunchClients ----------------------------
(***************************************************************************)
(* The test programs of RDIBYClient/clienttest.cpp against the server of   *)
(* RoomServer: test1() opens a room and starts it, test2() joins one; both *)
(* collect the addresses the server sends, close the connection when told  *)
(* to leave, bind a UDP socket to the same port, ask the server's UDP echo *)
(* for their own address, and then the host sends to every address it has  *)
(* while the clients listen.  An address is the peer it belongs to: that a *)
(* NAT gives the UDP port the name it gave the TCP port is what the        *)
(* programs count on.                                                      *)
(***************************************************************************)
EXTENDS RoomServer

CONSTANTS
    Server,     \* the address of the server's UDP echo
    Lossy       \* addresses to which datagrams may be lost

ASSUME AddressesAssumption ==
    /\ Server \notin Peers
    /\ Lossy \subseteq Peers \cup {Server}

VARIABLES
    program,        \* where each peer's test1() or test2() is
    messagesRead,   \* how many of the server's messages it has received
    clientAddrVec,  \* its clientAddrVec
    datagrams,      \* UDP datagrams on their way
    heard           \* history: whose datagrams each peer has received in its last loop

serverVars == <<roomVars, isLeaving, pc, localVars, told>>
programVars == <<program, messagesRead, clientAddrVec>>
udpVars == <<datagrams, heard>>
punchVars == <<vars, programVars, udpVars>>

Datagram(from, to) == [from |-> from, to |-> to]

PunchTypeOK ==
    /\ TypeOK
    /\ program \in [Peers -> {"main", "sleep", "loop", "udp", "ask", "last", "aborted"}]
    /\ messagesRead \in [Peers -> Nat]
    /\ clientAddrVec \in [Peers -> Seq(Peers)]
    /\ datagrams \subseteq [from : Peers \cup {Server}, to : Peers \cup {Server}]
    /\ heard \in [Peers -> SUBSET (Peers \cup {Server})]

PunchInit ==
    /\ Init
    /\ program = [p \in Peers |-> "main"]
    /\ messagesRead = [p \in Peers |-> 0]
    /\ clientAddrVec = [p \in Peers |-> <<>>]
    /\ datagrams = {}
    /\ heard = [p \in Peers |-> {}]

RunTo(p, l) == program' = [program EXCEPT ![p] = l]

-----------------------------------------------------------------------------
(* Over TCP *)

(* initTCP() and firstServerInteraction(); a host then gives the clients   *)
(* some seconds to join.                                                   *)
EnterRoom(p) ==
    /\ program[p] = "main"
    /\ Connect(p)
    /\ RunTo(p, IF p \in Hosts THEN "sleep" ELSE "loop")
    /\ UNCHANGED <<messagesRead, clientAddrVec, udpVars>>

StartPunch(h) ==
    /\ program[h] = "sleep"
    /\ HostStarts(h)
    /\ RunTo(h, "loop")
    /\ UNCHANGED <<messagesRead, clientAddrVec, udpVars>>

NextMessage(p) == told[p][messagesRead[p] + 1]
MessageDue(p) == program[p] = "loop" /\ messagesRead[p] < Len(told[p])

ReadAddress(p) ==
    /\ MessageDue(p)
    /\ NextMessage(p).type = "START_PUNCH"
    /\ clientAddrVec' = [clientAddrVec EXCEPT ![p] = Append(@, NextMessage(p).addr)]
    /\ messagesRead' = [messagesRead EXCEPT ![p] = @ + 1]
    /\ UNCHANGED <<serverVars, peerVars, program, udpVars>>

ReadLeave(p) ==
    /\ MessageDue(p)
    /\ NextMessage(p).type = "LEAVE"
    /\ CloseWhenDismissed(p)
    /\ messagesRead' = [messagesRead EXCEPT ![p] = @ + 1]
    /\ RunTo(p, "udp")
    /\ UNCHANGED <<clientAddrVec, udpVars>>

-----------------------------------------------------------------------------
(* Over UDP *)

(* initUDP(), then the program prints the first two addresses, whether     *)
(* there are two or not, and asks the server for its own.                  *)
AskServer(p) ==
    /\ program[p] = "udp"
    /\ \/ RunTo(p, "ask") /\ datagrams' = datagrams \cup {Datagram(p, Server)}
       \/ Len(clientAddrVec[p]) < 2 /\ RunTo(p, "aborted") /\ UNCHANGED datagrams
    /\ UNCHANGED <<serverVars, peerVars, messagesRead, clientAddrVec, heard>>

(* The loop of the server's main program.                                  *)
EchoAddress(d) ==
    /\ d.to = Server
    /\ datagrams' = (datagrams \ {d}) \cup {Datagram(Server, d.from)}
    /\ UNCHANGED <<serverVars, peerVars, programVars, heard>>

(* recvfrom() returns the next datagram, whoever has sent it.              *)
ReceiveAnswer(d) ==
    /\ d.to \in Peers /\ program[d.to] = "ask"
    /\ datagrams' = datagrams \ {d}
    /\ RunTo(d.to, "last")
    /\ UNCHANGED <<serverVars, peerVars, messagesRead, clientAddrVec, heard>>

(* Mutant: the loop ends after the first address.                          *)
PunchFirst(h) ==
    /\ h \in Hosts /\ program[h] = "last"
    /\ datagrams' = datagrams \cup {Datagram(h, clientAddrVec[h][1])}
    /\ UNCHANGED <<serverVars, peerVars, programVars, heard>>

(* test1() sends to every address it has, its own included, for ever ...   *)
Punch(h) ==
    /\ h \in Hosts /\ program[h] = "last"
    /\ datagrams' = datagrams \cup {Datagram(h, a) : a \in ToSet(clientAddrVec[h])}
    /\ UNCHANGED <<serverVars, peerVars, programVars, heard>>

(* ... and test2() listens for ever.                                       *)
Listen(d) ==
    /\ d.to \in Clients /\ program[d.to] = "last"
    /\ datagrams' = datagrams \ {d}
    /\ heard' = [heard EXCEPT ![d.to] = @ \cup {d.from}]
    /\ UNCHANGED <<serverVars, peerVars, programVars>>

(* A datagram is lost on its way, or finds nobody at its address.          *)
Lose(d) ==
    /\ d.to \in Lossy \/ (d.to \in Peers /\ program[d.to] \notin {"ask", "last"})
    /\ datagrams' = datagrams \ {d}
    /\ UNCHANGED <<serverVars, peerVars, programVars, heard>>

-----------------------------------------------------------------------------
OverTCP(p) ==
    Running /\ (EnterRoom(p) \/ ReadAddress(p) \/ ReadLeave(p)
                   \/ (p \in Hosts /\ StartPunch(p)))

PunchNext ==
    \/ \E p \in Peers : Handler(p) /\ UNCHANGED <<programVars, udpVars>>
    \/ \E p \in Peers : OverTCP(p) \/ AskServer(p) \/ Punch(p)
    \/ \E d \in datagrams : EchoAddress(d) \/ ReceiveAnswer(d) \/ Listen(d) \/ Lose(d)

(* The threads of the server and the programs run, and what is sent again  *)
(* and again gets through; nothing makes a program be started.             *)
ServerRuns(p) == Handler(p) /\ UNCHANGED <<programVars, udpVars>>
ProgramRuns(p) ==
    (Running /\ (ReadAddress(p) \/ ReadLeave(p))) \/ AskServer(p) \/ Punch(p)
Delivery(p) ==
    \E d \in datagrams : d.to = p /\ (ReceiveAnswer(d) \/ (d.from \in Hosts /\ Listen(d)))
PunchFairness ==
    /\ \A p \in Peers : WF_punchVars(ServerRuns(p)) /\ WF_punchVars(ProgramRuns(p))
    /\ \A h \in Hosts : SF_punchVars(Running /\ StartPunch(h))
    /\ WF_punchVars(\E d \in datagrams : EchoAddress(d))
    /\ \A p \in Peers : SF_punchVars(Delivery(p))

PunchSpec == PunchInit /\ [][PunchNext]_punchVars /\ PunchFairness

-----------------------------------------------------------------------------
(* The programs take the addresses apart by their place: a client has its  *)
(* host's first and its own second, a host has its own first and then its  *)
(* clients', each once.  The one program that reads past the end of its    *)
(* addresses is that of a host nobody joined.                              *)
Informed(p) == program[p] \in {"udp", "ask", "last"}
AddressesInPlace ==
    /\ \A c \in Clients : Informed(c) =>
          \E h \in Hosts : RoomOf[h] = RoomOf[c] /\ clientAddrVec[c] = <<h, c>>
    /\ \A h \in Hosts : Informed(h) =>
          /\ clientAddrVec[h] # <<>> /\ Head(clientAddrVec[h]) = h
          /\ ToSet(Tail(clientAddrVec[h])) \subseteq Clients
          /\ IsInjective(clientAddrVec[h])
    /\ \A p \in Peers : program[p] = "aborted" =>
          p \in Hosts /\ clientAddrVec[p] = <<p>>

(* The way of the README, end to end: "Clients join room ---> Host         *)
(* messages server to start NAT hole punching ---> Server distributes      *)
(* addresses ---> Clients and host form P2P connection".  Every client     *)
(* that a room has admitted hears its host in the end, although datagrams  *)
(* to the clients may be lost.                                             *)
EveryClientHearsItsHost ==
    \A c \in Clients :
        pc[c] = "loop" ~> \E h \in Hosts : RoomOf[h] = RoomOf[c] /\ h \in heard[c]
=============================================================================
