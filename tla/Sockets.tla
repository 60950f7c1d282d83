------------------------------ MODULE Sockets ------------------------------
(***************************************************************************)
(* The socket classes of one process.  Every program starts Windows        *)
(* sockets once, in the initialiser of a global of network.cpp, and every  *)
(* init function that fails undoes that start with WSACleanup(), which at  *)
(* zero closes all sockets of the process, whoever uses them.  An object   *)
(* keeps the number of its socket after the socket has been closed, and    *)
(* the system gives numbers out again; what stands between the two is the  *)
(* subject of the properties.  The encrypted classes pass every call on,   *)
(* but for EncryptedHostSocket, a stub that opens nothing.                 *)
(***************************************************************************)
EXTENDS Naturals

CONSTANTS
    Objects,            \* socket objects of the process
    Handles, Invalid,   \* numbers of sockets, INVALID_SOCKET, which is -1
    Unset,              \* a number that was never assigned
    Layouts             \* which object is of which class, per program

(* ClientSocket of RDIBY, of VideoClient and of RDIBYClient, ServerSocket, *)
(* and HostSocket of RDIBY and of RDIBYClient.                             *)
Classes == {"library", "viewer", "test", "server", "host", "testhost", "none"}

ASSUME SocketsAssumption ==
    /\ Invalid \notin Handles /\ Unset \notin Handles \cup {Invalid}
    /\ Layouts \subseteq [Objects -> Classes]
    /\ \A l \in Layouts, a, b \in Objects :
          (l[a] = "test" /\ a # b) => l[b] = "none"   \* one socket per test program

VARIABLES
    class,      \* the program that runs: which object is of which class
    wsa,        \* WSAStartup() calls that no WSACleanup() has undone
    open,       \* operating system: open sockets of the process
    sockOf,     \* BaseSocket::sock of every object
    life,       \* where every object is in its life
    calling,    \* objects inside connect()
    exited      \* exit() was called

socketVars == <<class, wsa, open, sockOf, life, calling, exited>>

SocketsTypeOK ==
    /\ class \in Layouts
    /\ wsa \in 0..1
    /\ open \subseteq Handles
    /\ sockOf \in [Objects -> Handles \cup {Invalid, Unset}]
    /\ life \in [Objects -> {"raw", "alive", "quit", "ended"}]
    /\ calling \subseteq Objects
    /\ exited \in BOOLEAN

SocketsInit ==
    /\ class \in Layouts
    /\ wsa = 1 /\ open = {}
    /\ sockOf = [o \in Objects |-> Unset]
    /\ life = [o \in Objects |-> "raw"]
    /\ calling = {} /\ exited = FALSE

-----------------------------------------------------------------------------
(* Calls of the operating system *)

(* socket() has a free number for those who have started Windows sockets.  *)
Available(h) == wsa > 0 /\ h \in Handles \ open

(* WSACleanup(), after which left would be open.                           *)
CleanupTo(left) ==
    /\ wsa' = IF wsa > 0 THEN wsa - 1 ELSE 0
    /\ open' = IF wsa > 1 THEN left ELSE {}

(* An init function closes what it has, cleans up and returns false.       *)
Fail(left) == CleanupTo(left) /\ UNCHANGED exited

(* The init functions for UDP end the process instead.                     *)
Exit == open' = {} /\ wsa' = 0 /\ exited' = TRUE

Hold(o, h) == sockOf' = [sockOf EXCEPT ![o] = h]

(* Reading a number that was never assigned gives any number.              *)
Read(o) == IF sockOf[o] = Unset THEN Handles \cup {Invalid} ELSE {sockOf[o]}

Idle(o) == ~exited /\ life[o] = "alive" /\ o \notin calling

-----------------------------------------------------------------------------
(* initTCP(), the same in all classes that have it *)

(* Mutant: the check for a socket that is open already is missing.         *)
SocketTCPAgain(o) ==
    /\ Idle(o)
    /\ \/ \E h \in Handles :
             /\ Available(h) /\ Hold(o, h)
             /\ open' = open \cup {h} /\ calling' = calling \cup {o}
             /\ UNCHANGED <<wsa, exited>>
       \/ Hold(o, Invalid) /\ Fail(open) /\ UNCHANGED calling
    /\ UNCHANGED <<class, life>>

(* An object that has a number, of an open socket or not, closes it, keeps *)
(* it and fails; otherwise it gets a socket and connects, or fails.        *)
SocketTCP(o) ==
    /\ Idle(o)
    /\ \/ /\ \E h \in Read(o) \ {Invalid} : Fail(open \ {h})
          /\ UNCHANGED <<sockOf, calling>>
       \/ /\ Invalid \in Read(o)
          /\ \E h \in Handles :
                /\ Available(h) /\ Hold(o, h)
                /\ open' = open \cup {h} /\ calling' = calling \cup {o}
          /\ UNCHANGED <<wsa, exited>>
       \/ Invalid \in Read(o) /\ Hold(o, Invalid) /\ Fail(open) /\ UNCHANGED calling
    /\ UNCHANGED <<class, life>>

(* Mutant: a failed connection closes its socket and no more.              *)
ConnectOnly(o) ==
    /\ ~exited /\ o \in calling
    /\ calling' = calling \ {o}
    /\ \/ sockOf[o] \in open /\ UNCHANGED <<wsa, open, exited>>
       \/ open' = open \ {sockOf[o]} /\ UNCHANGED <<wsa, exited>>
    /\ UNCHANGED <<class, sockOf, life>>

(* connect() blocks; it fails for its own reasons or because another       *)
(* object's failure has closed the socket meanwhile.  The number stays.    *)
Connect(o) ==
    /\ ~exited /\ o \in calling
    /\ calling' = calling \ {o}
    /\ \/ sockOf[o] \in open /\ UNCHANGED <<wsa, open, exited>>
       \/ Fail(open \ {sockOf[o]})
    /\ UNCHANGED <<class, sockOf, life>>

InitTCP(o) == SocketTCP(o) \/ Connect(o)

(* initUDP(): the number is overwritten.  It does not ask whether it is    *)
(* that of an open socket; the first conjunct says how the programs call   *)
(* it, for an object that has none.  "<= 1" is never true of               *)
(* INVALID_SOCKET as an unsigned number; the comparison after it is.       *)
(* listen() fails for a datagram socket, and nobody looks.                 *)
InitUDP(o) ==
    /\ Idle(o) /\ sockOf[o] \notin open
    /\ \/ \E h \in Handles :
             /\ Available(h) /\ Hold(o, h) /\ open' = open \cup {h}
             /\ UNCHANGED <<wsa, exited>>
       \/ Exit /\ UNCHANGED sockOf
    /\ UNCHANGED <<class, life, calling>>

-----------------------------------------------------------------------------
(* Constructors and destructors *)

Begin(o) ==
    /\ ~exited /\ life[o] = "raw"
    /\ life' = [life EXCEPT ![o] = "alive"]
    /\ UNCHANGED <<class, calling>>

(* ClientSocket() sets the number to -1.                                   *)
ConstructClient(o) ==
    /\ Begin(o) /\ Hold(o, Invalid)
    /\ UNCHANGED <<wsa, open, exited>>

(* HostSocket() does not set it.                                           *)
ConstructHost(o) ==
    /\ Begin(o)
    /\ UNCHANGED <<sockOf, wsa, open, exited>>

(* ServerSocket() calls init(), which sets the number only when it         *)
(* succeeds and whose result the constructor drops.                        *)
ConstructServer(o) ==
    /\ Begin(o)
    /\ \/ \E h \in Handles :
             /\ Available(h) /\ Hold(o, h) /\ open' = open \cup {h}
             /\ UNCHANGED <<wsa, exited>>
       \/ Fail(open) /\ UNCHANGED sockOf

End(o) ==
    /\ Idle(o)
    /\ life' = [life EXCEPT ![o] = "ended"]
    /\ UNCHANGED <<class, wsa, sockOf, calling, exited>>

(* Mutant: a destructor that leaves the socket to somebody else.           *)
DestroyOpen(o) == End(o) /\ UNCHANGED open

(* The destructors of ClientSocket and ServerSocket close the socket ...   *)
Destroy(o) == End(o) /\ \E h \in Read(o) : open' = open \ {h}

(* ... those of RDIBYClient and of HostSocket are empty.                   *)
DestroyNothing(o) == End(o) /\ UNCHANGED open

-----------------------------------------------------------------------------
(* What an object of each class can be asked to do *)

LibrarySocket(o) ==
    /\ class[o] = "library"
    /\ ConstructClient(o) \/ InitTCP(o) \/ InitUDP(o) \/ Destroy(o)

(* wWinMain() calls the destructor while the receiver still runs; after    *)
(* WSACleanup() the object's scope ends and its destructor runs again, on  *)
(* a number it does not have any more.                                     *)
ViewerQuits(o) ==
    /\ class[o] = "viewer" /\ Idle(o)
    /\ life' = [life EXCEPT ![o] = "quit"]
    /\ open' = open \ {sockOf[o]}
    /\ UNCHANGED <<class, wsa, sockOf, calling, exited>>

ViewerReturns(o) ==
    /\ ~exited /\ life[o] = "quit"
    /\ life' = [life EXCEPT ![o] = "ended"]
    /\ CleanupTo(open \ {sockOf[o]})
    /\ UNCHANGED <<class, sockOf, calling, exited>>

ViewerSocket(o) ==
    /\ class[o] = "viewer"
    /\ ConstructClient(o) \/ InitTCP(o) \/ InitUDP(o) \/ Destroy(o)

(* A test program closes its TCP socket itself when told to leave, and     *)
(* goes on with initUDP() of the same object.                              *)
TestLeaves(o) ==
    /\ class[o] = "test" /\ Idle(o) /\ sockOf[o] \in open
    /\ open' = open \ {sockOf[o]}
    /\ UNCHANGED <<class, wsa, sockOf, life, calling, exited>>

TestSocket(o) ==
    /\ class[o] = "test"
    /\ ConstructClient(o) \/ InitTCP(o) \/ InitUDP(o) \/ DestroyNothing(o)

ServerSocket(o) ==
    /\ class[o] = "server"
    /\ ConstructServer(o) \/ Destroy(o)

(* initUDP() of RDIBY's HostSocket asks for a TCP socket, that of          *)
(* RDIBYClient for a datagram socket; both resolve the local address       *)
(* first, whose failure ends the process like the others.                  *)
HostSocket(o) ==
    /\ class[o] = "host"
    /\ ConstructHost(o) \/ InitTCP(o) \/ InitUDP(o) \/ DestroyNothing(o)

TestHostSocket(o) ==
    /\ class[o] = "testhost"
    /\ ConstructHost(o) \/ InitTCP(o) \/ InitUDP(o) \/ DestroyNothing(o)

SocketsNext ==
    \E o \in Objects :
        \/ LibrarySocket(o) \/ ViewerSocket(o) \/ ViewerQuits(o) \/ ViewerReturns(o)
        \/ TestSocket(o) \/ TestLeaves(o)
        \/ ServerSocket(o) \/ HostSocket(o) \/ TestHostSocket(o)

SocketsSpec == SocketsInit /\ [][SocketsNext]_socketVars

-----------------------------------------------------------------------------
(* Two clients, or a client and the server socket, of one process never    *)
(* hold the same open socket, although a failed initTCP() leaves a number  *)
(* in its object and the system gives it out again: the WSACleanup() that  *)
(* goes with every failure is what keeps it from doing so.                 *)
NoSharedSocket ==
    \A a, b \in Objects :
        (life[a] = "alive" /\ life[b] = "alive" /\ sockOf[a] = sockOf[b] /\ sockOf[a] \in open)
            => a = b

(* No socket is lost: each open one is that of an object, which is either  *)
(* alive or of a class that leaves its socket to the end of the process.   *)
NothingLeaks ==
    \A h \in open : \E o \in Objects :
        /\ sockOf[o] = h
        /\ life[o] = "alive"
              \/ (life[o] = "ended" /\ class[o] \in {"test", "host", "testhost"})
=============================================================================
