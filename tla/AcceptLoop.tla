----------------------------- MODULE AcceptLoop -----------------------------
(***************************************************************************)
(* The accept loop of the rendezvous server and its ThreadManager: every   *)
(* connection is given a handler thread that is registered in threadMap    *)
(* under the connection's socket number, and that ends by asking           *)
(* killThread() for its own death.  The loop passes the handler a pointer  *)
(* to a local variable; the system gives socket numbers out again as soon  *)
(* as they are closed; nothing guards threadMap.  A failure of accept() is *)
(* not noticed: it gets a handler like a connection.  What a handler does  *)
(* for its peer is the subject of RoomServer; here it only ends, in one of *)
(* the ways its code has.                                                  *)
(***************************************************************************)
EXTENDS Integers, FiniteSets

CONSTANTS
    MaxConns,           \* bound: connections and failures of accept()
    MaxFailures,        \* bound: failures of accept() among them
    Socks,              \* socket numbers
    INVALID_SOCKET,     \* what accept() returns when it fails
    Absent, Null,       \* no entry in threadMap, an entry holding nullptr
    Nobody,             \* no socket, no connection
    Crashed             \* where a handler that brings the process down ends

(* What accept() returns, in that order.                                   *)
Conns == 1..MaxConns

HandlerPlaces == {"none", "start", "serve", "close_kill", "kill", "kill_close", "wait",
                  "wait_close", "close", "gone"}

ASSUME ConnsAssumption ==
    /\ Crashed \notin HandlerPlaces
    /\ MaxConns \in Nat /\ MaxFailures \in Nat
    /\ Conns \cap {Absent, Null, Nobody} = {}
    /\ Nobody \notin Socks \cup {INVALID_SOCKET} /\ INVALID_SOCKET \notin Socks

VARIABLES
    accepter,       \* where acceptFunc() is
    sapRes,         \* its latest connection
    tData,          \* the socket in the local variable the handlers are pointed to
    owner,          \* operating system: which connection has a socket number, or Nobody
    sock,           \* the number each connection was given
    handler,        \* where the handler thread created for each connection is
    sap,            \* the socket it has read through its parameter
    threadMap,      \* socket number -> Absent, Null or the connection whose thread it is
    closedForeign,  \* history: has a handler closed another connection's socket?
    raced           \* history: the races below that have happened

(* "burst": a connection was accepted before the last one's handler had    *)
(* read its parameter; "reuse": a number was given out before the thread   *)
(* that used it was gone; "quick": a handler ended before its thread was   *)
(* registered.                                                             *)
Races == {"burst", "reuse", "quick"}

Keys == Socks \cup {INVALID_SOCKET}     \* what threadMap is indexed with

vars == <<accepter, sapRes, tData, owner, sock, handler, sap, threadMap, closedForeign,
          raced>>

TypeOK ==
    /\ accepter \in {"accept", "create", "insert"}
    /\ sapRes \in Conns \cup {Nobody}
    /\ tData \in Keys \cup {Nobody}
    /\ owner \in [Socks -> Conns \cup {Nobody}]
    /\ sock \in [Conns -> Keys \cup {Nobody}]
    /\ handler \in [Conns -> HandlerPlaces \cup {Crashed}]
    /\ sap \in [Conns -> Keys \cup {Nobody}]
    /\ threadMap \in [Keys -> Conns \cup {Absent, Null}]
    /\ closedForeign \in BOOLEAN /\ raced \subseteq Races

Init ==
    /\ accepter = "accept" /\ sapRes = Nobody /\ tData = Nobody
    /\ owner = [s \in Socks |-> Nobody]
    /\ sock = [c \in Conns |-> Nobody]
    /\ handler = [c \in Conns |-> "none"]
    /\ sap = [c \in Conns |-> Nobody]
    /\ threadMap = [s \in Keys |-> Absent]
    /\ closedForeign = FALSE /\ raced = {}

Goto(c, l) == handler' = [handler EXCEPT ![c] = l]
accepterVars == <<accepter, sapRes, tData>>
sockVars == <<owner, sock, closedForeign, raced>>

-----------------------------------------------------------------------------
(* acceptFunc() *)

(* accept() takes any number that is free, or fails, which "<= 1" never    *)
(* sees: INVALID_SOCKET is the largest number there is.                    *)
Accept(c, s) ==
    /\ accepter = "accept"
    /\ sock[c] = Nobody /\ \A d \in 1..(c - 1) : sock[d] # Nobody
    /\ \/ s \in Socks /\ owner[s] = Nobody /\ owner' = [owner EXCEPT ![s] = c]
       \/ /\ s = INVALID_SOCKET /\ UNCHANGED owner
          /\ Cardinality({d \in Conns : sock[d] = INVALID_SOCKET}) < MaxFailures
    /\ sock' = [sock EXCEPT ![c] = s]
    /\ sapRes' = c
    /\ accepter' = "create"
    /\ raced' = raced \cup
          {r \in {"burst"} : \E d \in Conns : handler[d] = "start"} \cup
          {r \in {"reuse"} : \E d \in Conns : sap[d] = s /\ handler[d] # "gone"}
    /\ UNCHANGED <<tData, handler, sap, threadMap, closedForeign>>

(* Mutant: a static local is initialised by the first connection only.     *)
CreateThreadStatic ==
    /\ accepter = "create"
    /\ tData' = IF tData = Nobody THEN sock[sapRes] ELSE tData
    /\ Goto(sapRes, "start")
    /\ accepter' = "insert"
    /\ UNCHANGED <<sapRes, sockVars, sap, threadMap>>

(* The local variable is assigned and the thread created; without a thread *)
(* the connection stays open with nobody to serve it ...                   *)
CreateThread ==
    /\ accepter = "create"
    /\ tData' = sock[sapRes]
    /\ \/ Goto(sapRes, "start") /\ accepter' = "insert"
       \/ accepter' = "accept" /\ UNCHANGED handler
    /\ UNCHANGED <<sapRes, sockVars, sap, threadMap>>

(* ... before it is registered, unless its key is there already.           *)
InsertThread ==
    /\ accepter = "insert"
    /\ threadMap' = [threadMap EXCEPT ![sock[sapRes]] = IF @ = Absent THEN sapRes ELSE @]
    /\ accepter' = "accept"
    /\ UNCHANGED <<sapRes, tData, sockVars, handler, sap>>

-----------------------------------------------------------------------------
(* The handler thread *)

(* What the parameter points to is read when the thread gets to run; an    *)
(* iteration later it is the next connection's.                            *)
ReadParameter(c) ==
    /\ handler[c] = "start"
    /\ sap' = [sap EXCEPT ![c] = tData]
    /\ Goto(c, "serve")
    /\ UNCHANGED <<accepterVars, sockVars, threadMap>>

(* The peer's connection ends: a departure is closed and then killed; a    *)
(* dismissed or leaving peer's handler only killed; a refused one's killed *)
(* and then closed.                                                        *)
StopServing(c) ==
    /\ handler[c] = "serve"
    /\ \E l \in {"close_kill", "kill", "kill_close"} : Goto(c, l)
    /\ raced' = raced \cup {r \in {"quick"} : accepter = "insert" /\ sapRes = c}
    /\ UNCHANGED <<accepterVars, owner, sock, closedForeign, sap, threadMap>>

(* closesocket() frees the number, if it is one, whoever has it by now.    *)
CloseSocket(c) ==
    /\ handler[c] \in {"close_kill", "close"}
    /\ owner' = [s \in Socks |-> IF s = sap[c] THEN Nobody ELSE owner[s]]
    /\ closedForeign' = (closedForeign
                            \/ \E s \in Socks : s = sap[c] /\ owner[s] \notin {c, Nobody})
    /\ Goto(c, IF handler[c] = "close_kill" THEN "kill" ELSE "gone")
    /\ UNCHANGED <<accepterVars, sock, raced, sap, threadMap>>

(* killThread() looks the key up, which inserts it if it is absent, and    *)
(* follows the pointer it finds.                                           *)
KillThread(c) ==
    /\ handler[c] \in {"kill", "kill_close"}
    /\ IF threadMap[sap[c]] \in Conns
       THEN Goto(c, IF handler[c] = "kill" THEN "wait" ELSE "wait_close") /\ UNCHANGED threadMap
       ELSE Goto(c, Crashed) /\ threadMap' = [threadMap EXCEPT ![sap[c]] = Null]
    /\ UNCHANGED <<accepterVars, sockVars, sap>>

(* Mutant: the entry is set to nullptr instead of being erased.            *)
EraseThreadNulls(c) ==
    /\ handler[c] \in {"wait", "wait_close"}
    /\ threadMap' = [threadMap EXCEPT ![sap[c]] = Null]
    /\ Goto(c, IF handler[c] = "wait" THEN "gone" ELSE "close")
    /\ UNCHANGED <<accepterVars, sockVars, sap>>

(* Mutant: the wait has no timeout.                                        *)
EraseThreadInfinite(c) ==
    /\ handler[c] \in {"wait", "wait_close"}
    /\ threadMap[sap[c]] # c
    /\ threadMap' = [threadMap EXCEPT ![sap[c]] = Absent]
    /\ Goto(c, IF handler[c] = "wait" THEN "gone" ELSE "close")
    /\ UNCHANGED <<accepterVars, sockVars, sap>>

(* The wait ends when it times out, as it must when a thread waits for     *)
(* itself, or when the thread found has ended.                             *)
EraseThread(c) ==
    /\ handler[c] \in {"wait", "wait_close"}
    /\ threadMap' = [threadMap EXCEPT ![sap[c]] = Absent]
    /\ Goto(c, IF handler[c] = "wait" THEN "gone" ELSE "close")
    /\ UNCHANGED <<accepterVars, sockVars, sap>>

-----------------------------------------------------------------------------
Running == \A c \in Conns : handler[c] # Crashed

Handler(c) ==
    \/ ReadParameter(c) \/ StopServing(c) \/ CloseSocket(c) \/ KillThread(c)
    \/ EraseThread(c)

Next ==
    /\ Running
    /\ \/ \E c \in Conns, s \in Keys : Accept(c, s)
       \/ CreateThread \/ InsertThread
       \/ \E c \in Conns : Handler(c)

(* The accept loop and the handlers run; nothing makes a peer come or end  *)
(* its connection.                                                         *)
Fairness ==
    /\ WF_vars(Running /\ (CreateThread \/ InsertThread))
    /\ \A c \in Conns : WF_vars(Running /\
          (ReadParameter(c) \/ CloseSocket(c) \/ KillThread(c) \/ EraseThread(c)))

Safety == Init /\ [][Next]_vars
Spec == Safety /\ Fairness

-----------------------------------------------------------------------------
(* "the function that handles the new client": each handler works on the   *)
(* socket of the connection it was created for, or on none yet.            *)
HandlesItsClient == \A c \in Conns : sap[c] \in {sock[c], Nobody}

(* The local variable the parameter points to is overwritten only by the   *)
(* next connection: without a burst every handler has read its own, and    *)
(* none closes the socket of another, however numbers are given out again. *)
OwnSocketOnly == "burst" \notin raced => HandlesItsClient /\ ~closedForeign

(* killThread() finds the thread that calls it: as long as none of the     *)
(* races has happened, a handler on its way there is registered under its  *)
(* socket number, and the nullptr of an absent key is never followed.      *)
Stopping(c) ==
    handler[c] \in {"close_kill", "kill", "kill_close", "wait", "wait_close"}
KillFindsThread ==
    raced = {} => Running /\ \A c \in Conns : Stopping(c) => threadMap[sap[c]] = c

(* A handler that has stopped serving ends, and its thread is forgotten,   *)
(* unless it or another brings the server down.                            *)
StoppedHandlersEnd ==
    \A c \in Conns : Stopping(c) ~> handler[c] = "gone" \/ ~Running
=============================================================================
