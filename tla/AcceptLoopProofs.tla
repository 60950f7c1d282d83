-------------------------- MODULE AcceptLoopProofs --------------------------
(***************************************************************************)
(* The accept loop for every number of connections, of failures and of     *)
(* socket numbers.                                                         *)
(***************************************************************************)
EXTENDS AcceptLoop, TLAPS

(* A connection that is still to come has neither handler nor parameter,   *)
(* the one being served by the loop has a number and no handler yet, and a *)
(* handler has its parameter only after reading it.                        *)
LoopInv ==
    /\ \A c \in Conns : sock[c] = Nobody => handler[c] = "none"
    /\ \A c \in Conns : handler[c] \in {"none", "start"} => sap[c] = Nobody
    /\ accepter = "create" =>
          sapRes \in Conns /\ sock[sapRes] # Nobody /\ handler[sapRes] = "none"
    /\ accepter = "insert" => sapRes \in Conns /\ sock[sapRes] # Nobody

(* Without a burst the local variable is that of the one handler that has  *)
(* not read it yet, and the next connection is not there to overwrite it.  *)
Calm == "burst" \notin raced
VariableIsTheirs ==
    Calm => \A c \in Conns :
        handler[c] = "start" => tData = sock[c] /\ accepter # "create"

(* A connection that is being created, served or still to be closed has    *)
(* its socket number to itself.                                            *)
Holding(c) ==
    /\ sock[c] \in Socks
    /\ \/ handler[c] \in {"start", "serve", "close_kill", "kill_close", "wait_close", "close"}
       \/ accepter = "create" /\ sapRes = c
NumbersHeld == Calm => \A c \in Conns : Holding(c) => owner[sock[c]] = c

IInv == TypeOK /\ LoopInv /\ VariableIsTheirs /\ NumbersHeld /\ OwnSocketOnly

-----------------------------------------------------------------------------
(* Nothing has been accepted at the start.                                 *)
LEMMA InitIInv == Init => IInv
  BY ConnsAssumption DEF Init, IInv, TypeOK, LoopInv, Calm, VariableIsTheirs, Holding, NumbersHeld,
         OwnSocketOnly, HandlesItsClient, Keys, Races, HandlerPlaces

(* Every step keeps the types.                                             *)
LEMMA NextTypeOK ==
    ASSUME TypeOK, LoopInv, [Next]_vars
    PROVE  TypeOK'
<1> USE DEF TypeOK, Keys, Races, HandlerPlaces, Goto, accepterVars, sockVars
<1>1. ASSUME NEW c \in Conns, NEW s \in Keys, Accept(c, s) PROVE TypeOK'
  BY <1>1 DEF Accept
<1>2. CASE CreateThread
  BY <1>2 DEF CreateThread, LoopInv
<1>3. CASE InsertThread
  <2>1. sapRes \in Conns /\ sock[sapRes] \in Keys
    BY <1>3 DEF InsertThread, LoopInv
  <2>2. threadMap' \in [Keys -> Conns \cup {Absent, Null}]
    BY <1>3, <2>1 DEF InsertThread
  <2>3. QED
    BY <1>3, <2>2 DEF InsertThread
<1>4. ASSUME NEW c \in Conns, Handler(c) PROVE TypeOK'
  <2>1. CASE ReadParameter(c)
    BY <2>1 DEF ReadParameter
  <2>2. CASE StopServing(c)
    BY <2>2 DEF StopServing
  <2>3. CASE CloseSocket(c)
    BY <2>3 DEF CloseSocket
  <2>4. CASE KillThread(c)
    BY <2>4 DEF KillThread
  <2>5. CASE EraseThread(c)
    BY <2>5 DEF EraseThread
  <2>6. QED
    BY <1>4, <2>1, <2>2, <2>3, <2>4, <2>5 DEF Handler
<1>5. CASE UNCHANGED vars
  BY <1>5 DEF vars
<1>6. QED
  BY <1>1, <1>2, <1>3, <1>4, <1>5 DEF Next

(* The loop: a new connection takes a number that nobody holds, and if the *)
(* handler before it has not read its parameter, that is a burst.          *)
LEMMA AcceptKeeps ==
    ASSUME IInv, TypeOK', NEW c \in Conns, NEW s \in Keys, Accept(c, s)
    PROVE  IInv'
<1> USE DEF IInv, TypeOK, Keys, HandlerPlaces
<1>1. sock[c] = Nobody /\ handler[c] = "none" /\ sap[c] = Nobody
  BY DEF Accept, LoopInv
<1>2. s # Nobody
  BY ConnsAssumption
<1>3. LoopInv'
  BY <1>1, <1>2 DEF Accept, LoopInv
<1>4. Calm' => Calm /\ \A d \in Conns : handler[d] # "start"
  BY DEF Accept, Calm
<1>5. VariableIsTheirs'
  BY <1>4 DEF Accept, VariableIsTheirs
<1>6. NumbersHeld'
  <2> SUFFICES ASSUME Calm', NEW d \in Conns, Holding(d)'
               PROVE  owner'[sock'[d]] = d
    BY DEF NumbersHeld
  <2>1. CASE d = c
    <3>1. s \in Socks /\ sock'[c] = s
      BY <2>1 DEF Accept, Holding
    <3>2. owner' = [owner EXCEPT ![s] = c]
      BY <3>1, ConnsAssumption DEF Accept
    <3>3. QED
      BY <2>1, <3>1, <3>2
  <2>2. CASE d # c
    <3>1. sock'[d] = sock[d] /\ handler'[d] = handler[d] /\ sapRes' = c
      BY <2>2 DEF Accept
    <3>2. Holding(d)
      BY <2>2, <3>1 DEF Holding
    <3>3. owner[sock[d]] = d
      BY <1>4, <3>2 DEF NumbersHeld
    <3>4. d # Nobody
      BY ConnsAssumption
    <3>5. QED
      BY <3>1, <3>2, <3>3, <3>4, ConnsAssumption DEF Accept, Holding
  <2>3. QED
    BY <2>1, <2>2
<1>7. OwnSocketOnly'
  BY <1>1, <1>4 DEF Accept, OwnSocketOnly, Calm, HandlesItsClient
<1>8. QED
  BY <1>3, <1>5, <1>6, <1>7

(* The loop creates and registers the thread.                              *)
LEMMA LoopKeeps ==
    ASSUME IInv, TypeOK', CreateThread \/ InsertThread
    PROVE  IInv'
<1> USE DEF IInv, TypeOK, HandlerPlaces, Goto, sockVars, Calm, HandlesItsClient
<1>1. CASE CreateThread
  <2>1. LoopInv'
    BY <1>1 DEF CreateThread, LoopInv
  <2>2. VariableIsTheirs'
    BY <1>1 DEF CreateThread, VariableIsTheirs, LoopInv
  <2>3. NumbersHeld'
    <3>1. \A c \in Conns : Holding(c)' => Holding(c)
      BY <1>1 DEF CreateThread, Holding
    <3>2. QED
      BY <1>1, <3>1 DEF CreateThread, NumbersHeld
  <2>4. OwnSocketOnly'
    BY <1>1 DEF CreateThread, OwnSocketOnly
  <2>5. QED
    BY <2>1, <2>2, <2>3, <2>4
<1>2. CASE InsertThread
  <2>1. LoopInv'
    BY <1>2 DEF InsertThread, LoopInv
  <2>2. VariableIsTheirs'
    BY <1>2 DEF InsertThread, VariableIsTheirs
  <2>3. NumbersHeld'
    BY <1>2 DEF InsertThread, NumbersHeld, Holding
  <2>4. OwnSocketOnly'
    BY <1>2 DEF InsertThread, OwnSocketOnly
  <2>5. QED
    BY <2>1, <2>2, <2>3, <2>4
<1>3. QED
  BY <1>1, <1>2

(* A handler closes what it holds; the others hold other numbers.          *)
LEMMA CloseKeeps ==
    ASSUME IInv, TypeOK', NEW c \in Conns, CloseSocket(c)
    PROVE  IInv'
<1> USE DEF IInv, TypeOK, HandlerPlaces, Goto, accepterVars, Calm, HandlesItsClient
<1>1. LoopInv'
  BY DEF CloseSocket, LoopInv
<1>2. VariableIsTheirs'
  BY DEF CloseSocket, VariableIsTheirs
<1>3. ASSUME Calm, NEW s \in Socks, s = sap[c] PROVE s = sock[c] /\ owner[s] = c
  <2>1. sap[c] = sock[c]
    BY <1>3, ConnsAssumption DEF OwnSocketOnly
  <2>2. Holding(c)
    BY <1>3, <2>1 DEF CloseSocket, Holding
  <2>3. QED
    BY <1>3, <2>1, <2>2 DEF NumbersHeld
<1>4. NumbersHeld'
  <2> SUFFICES ASSUME Calm', NEW d \in Conns, Holding(d)'
               PROVE  owner'[sock'[d]] = d
    BY DEF NumbersHeld
  <2>1. d # c
    <3>1. handler'[c] \in {"kill", "gone"} /\ (accepter = "create" /\ sapRes = c => FALSE)
      BY DEF CloseSocket, LoopInv
    <3>2. QED
      BY <3>1 DEF Holding, CloseSocket
  <2>2. Holding(d) /\ Calm
    BY <2>1 DEF Holding, CloseSocket
  <2>3. owner[sock[d]] = d /\ sock[d] \in Socks
    BY <2>2 DEF NumbersHeld, Holding
  <2>4. sock[d] # sap[c]
    BY <1>3, <2>1, <2>2, <2>3
  <2>5. QED
    BY <2>3, <2>4 DEF CloseSocket
<1>5. OwnSocketOnly'
  BY <1>3 DEF OwnSocketOnly, CloseSocket
<1>6. QED
  BY <1>1, <1>2, <1>4, <1>5

(* The other steps of a handler: it reads the variable that is its own,    *)
(* and what it does to threadMap does not concern sockets.                 *)
LEMMA HandlerKeeps ==
    ASSUME IInv, TypeOK', NEW c \in Conns,
           ReadParameter(c) \/ StopServing(c) \/ KillThread(c) \/ EraseThread(c)
    PROVE  IInv'
<1> USE DEF IInv, TypeOK, HandlerPlaces, Goto, accepterVars, sockVars, Calm, HandlesItsClient
<1>1. CASE ReadParameter(c)
  <2>1. LoopInv'
    BY <1>1 DEF ReadParameter, LoopInv
  <2>2. VariableIsTheirs' /\ NumbersHeld'
    BY <1>1 DEF ReadParameter, VariableIsTheirs, NumbersHeld, Holding
  <2>3. OwnSocketOnly'
    BY <1>1 DEF ReadParameter, OwnSocketOnly, VariableIsTheirs
  <2>4. QED
    BY <2>1, <2>2, <2>3
<1>2. CASE StopServing(c)
  <2>1. LoopInv'
    BY <1>2 DEF StopServing, LoopInv
  <2>2. VariableIsTheirs' /\ NumbersHeld'
    BY <1>2 DEF StopServing, VariableIsTheirs, NumbersHeld, Holding
  <2>3. OwnSocketOnly'
    BY <1>2 DEF StopServing, OwnSocketOnly
  <2>4. QED
    BY <2>1, <2>2, <2>3
<1>3. CASE KillThread(c)
  <2>1. LoopInv'
    BY <1>3, ConnsAssumption DEF KillThread, LoopInv
  <2>2. VariableIsTheirs' /\ NumbersHeld'
    BY <1>3, ConnsAssumption DEF KillThread, VariableIsTheirs, NumbersHeld, Holding
  <2>3. OwnSocketOnly'
    BY <1>3 DEF KillThread, OwnSocketOnly
  <2>4. QED
    BY <2>1, <2>2, <2>3
<1>4. CASE EraseThread(c)
  <2>1. LoopInv'
    BY <1>4 DEF EraseThread, LoopInv
  <2>2. VariableIsTheirs' /\ NumbersHeld'
    BY <1>4 DEF EraseThread, VariableIsTheirs, NumbersHeld, Holding
  <2>3. OwnSocketOnly'
    BY <1>4 DEF EraseThread, OwnSocketOnly
  <2>4. QED
    BY <2>1, <2>2, <2>3
<1>5. QED
  BY <1>1, <1>2, <1>3, <1>4

(* Every step keeps the invariant.                                         *)
LEMMA NextIInv == IInv /\ [Next]_vars => IInv'
<1> SUFFICES ASSUME IInv, [Next]_vars PROVE IInv'
  OBVIOUS
<1>1. TypeOK'
  BY NextTypeOK DEF IInv
<1>2. ASSUME NEW c \in Conns, NEW s \in Keys, Accept(c, s) PROVE IInv'
  BY <1>1, <1>2, AcceptKeeps
<1>3. CASE CreateThread \/ InsertThread
  BY <1>1, <1>3, LoopKeeps
<1>4. ASSUME NEW c \in Conns, Handler(c) PROVE IInv'
  BY <1>1, <1>4, HandlerKeeps, CloseKeeps DEF Handler
<1>5. CASE UNCHANGED vars
  BY <1>5 DEF vars, IInv, TypeOK, LoopInv, VariableIsTheirs, NumbersHeld, Holding, Calm,
              OwnSocketOnly, HandlesItsClient
<1>6. QED
  BY <1>2, <1>3, <1>4, <1>5 DEF Next

(* Every reachable state of the accept loop has its type.                  *)
THEOREM TypeCorrect == Safety => []TypeOK
<1>1. IInv => TypeOK
  BY DEF IInv
<1>2. QED
  BY <1>1, InitIInv, NextIInv, PTL DEF Safety

(* As long as no connection is accepted before the last one's handler has  *)
(* read its parameter, every handler serves and closes its own socket,     *)
(* however numbers are reused and however often accept() or the creation   *)
(* of a thread fails.                                                      *)
THEOREM HandlersKeepToTheirSockets == Safety => []OwnSocketOnly
<1>1. IInv => OwnSocketOnly
  BY DEF IInv
<1>2. QED
  BY <1>1, InitIInv, NextIInv, PTL DEF Safety

-----------------------------------------------------------------------------
(* Killing one's own thread: threadMap while none of the races happens.    *)

(* A handler that runs works on its own socket; the one that the loop is   *)
(* about to register has not stopped yet, and its key is free.             *)
ParameterRead == \A c \in Conns : handler[c] \notin {"none", "start"} => sap[c] = sock[c]
StillServing == accepter = "insert" => handler[sapRes] \in {"start", "serve"}
KeyIsFree == accepter # "accept" => threadMap[sock[sapRes]] = Absent

(* The handlers that have not forgotten their thread are the entries of    *)
(* threadMap, each under its socket's number.                              *)
Live(c) == handler[c] \in {"start", "serve"} \/ Stopping(c)
Registering(c) == accepter = "insert" /\ sapRes = c
Registered == \A c \in Conns : Live(c) /\ ~Registering(c) => threadMap[sock[c]] = c
EntriesLive ==
    \A k \in Keys : threadMap[k] # Absent =>
        threadMap[k] \in Conns /\ Live(threadMap[k]) /\ sock[threadMap[k]] = k

Quiet == raced = {}
MapParts == ParameterRead /\ StillServing /\ KeyIsFree /\ Registered /\ EntriesLive /\ Running
MapInv == Quiet => MapParts

LEMMA InitMapInv == Init => MapInv
  BY ConnsAssumption DEF Init, MapInv, MapParts, ParameterRead, StillServing, KeyIsFree,
     Registered, EntriesLive, Live, Stopping, Running, HandlerPlaces

(* The number of a new connection is free in threadMap, or else its use    *)
(* is a race.                                                              *)
LEMMA AcceptMaps ==
    ASSUME IInv, MapParts, NEW c \in Conns, NEW s \in Keys, Accept(c, s), Quiet'
    PROVE  MapParts'
<1> USE DEF IInv, TypeOK, Keys, HandlerPlaces
<1>1. /\ sock[c] = Nobody /\ handler[c] = "none" /\ accepter = "accept"
      /\ sock' = [sock EXCEPT ![c] = s] /\ sapRes' = c /\ accepter' = "create"
      /\ UNCHANGED <<handler, sap, threadMap>>
  BY DEF Accept, LoopInv
<1>2. /\ \A d \in Conns : handler[d] # "start"
      /\ \A d \in Conns : sap[d] = s => handler[d] = "gone"
  BY DEF Accept, Quiet
<1>3. threadMap[s] = Absent
  <2> SUFFICES ASSUME threadMap[s] # Absent PROVE FALSE
    OBVIOUS
  <2>1. PICK d \in Conns : threadMap[s] = d /\ Live(d) /\ sock[d] = s
    BY DEF MapParts, EntriesLive
  <2>2. sap[d] = s
    BY <1>2, <2>1 DEF MapParts, ParameterRead, Live, Stopping
  <2>3. QED
    BY <1>2, <2>1, <2>2 DEF Live, Stopping
<1>4. \A d \in Conns : Live(d)' = Live(d) /\ (Live(d) => d # c)
  BY <1>1 DEF Live, Stopping
<1>5. ParameterRead' /\ StillServing' /\ Running'
  BY <1>1 DEF MapParts, ParameterRead, StillServing, Running
<1>6. KeyIsFree'
  BY <1>1, <1>3 DEF KeyIsFree
<1>7. Registered'
  BY <1>1, <1>4 DEF MapParts, Registered, Registering
<1>8. EntriesLive'
  BY <1>1, <1>4, ConnsAssumption DEF MapParts, EntriesLive
<1>9. QED
  BY <1>5, <1>6, <1>7, <1>8 DEF MapParts

LEMMA LoopMaps ==
    ASSUME IInv, MapParts, CreateThread \/ InsertThread
    PROVE  MapParts'
<1> USE DEF IInv, TypeOK, Keys, HandlerPlaces, sockVars
<1>1. CASE CreateThread
  <2>1. /\ sapRes \in Conns /\ handler[sapRes] = "none" /\ sock[sapRes] \in Keys
        /\ sap[sapRes] = Nobody /\ accepter = "create"
        /\ UNCHANGED <<sapRes, sock, sap, threadMap>>
    BY <1>1 DEF CreateThread, LoopInv
  <2>2. \/ handler' = [handler EXCEPT ![sapRes] = "start"] /\ accepter' = "insert"
        \/ handler' = handler /\ accepter' = "accept"
    BY <1>1 DEF CreateThread, Goto
  <2>3. \A d \in Conns : d # sapRes => (Live(d)' <=> Live(d))
    BY <2>1, <2>2 DEF Live, Stopping
  <2>4. ~Live(sapRes) /\ (Live(sapRes)' => accepter' = "insert")
    BY <2>1, <2>2 DEF Live, Stopping
  <2>5. ParameterRead' /\ StillServing' /\ KeyIsFree' /\ Running'
    BY <2>1, <2>2, ConnsAssumption DEF MapParts, ParameterRead, StillServing, KeyIsFree, Running
  <2>6. Registered'
    BY <2>1, <2>3, <2>4 DEF MapParts, Registered, Registering
  <2>7. EntriesLive'
    BY <2>1, <2>3, <2>4 DEF MapParts, EntriesLive
  <2>8. QED
    BY <2>5, <2>6, <2>7 DEF MapParts
<1>2. CASE InsertThread
  <2> DEFINE k == sock[sapRes]
  <2>1. /\ sapRes \in Conns /\ k \in Keys /\ accepter = "insert" /\ accepter' = "accept"
        /\ threadMap[k] = Absent /\ handler[sapRes] \in {"start", "serve"}
        /\ UNCHANGED <<sapRes, sock, sap, handler>>
    BY <1>2 DEF InsertThread, LoopInv, MapParts, KeyIsFree, StillServing
  <2>2. threadMap' = [threadMap EXCEPT ![k] = sapRes]
    BY <1>2, <2>1 DEF InsertThread
  <2>3. \A d \in Conns : Live(d)' = Live(d)
    BY <2>1 DEF Live, Stopping
  <2>4. \A d \in Conns \ {sapRes} : Live(d) => threadMap[sock[d]] = d /\ sock[d] # k
    BY <2>1, ConnsAssumption DEF MapParts, Registered, Registering
  <2>5. Live(sapRes)
    BY <2>1 DEF Live
  <2>6. ParameterRead' /\ StillServing' /\ KeyIsFree' /\ Running'
    BY <2>1 DEF MapParts, ParameterRead, StillServing, KeyIsFree, Running
  <2>7. Registered'
    BY <2>1, <2>2, <2>3, <2>4 DEF Registered
  <2>8. EntriesLive'
    BY <2>1, <2>2, <2>3, <2>5 DEF MapParts, EntriesLive
  <2>9. QED
    BY <2>6, <2>7, <2>8 DEF MapParts
<1>3. QED
  BY <1>1, <1>2

(* The handler finds itself, and forgets itself.                           *)
LEMMA HandlerMaps ==
    ASSUME IInv, MapParts, NEW c \in Conns, Handler(c), Quiet'
    PROVE  MapParts'
<1> USE DEF IInv, TypeOK, HandlerPlaces
<1>1. UNCHANGED <<accepter, sapRes, sock>>
  BY DEF Handler, ReadParameter, StopServing, CloseSocket, KillThread, EraseThread,
     accepterVars, sockVars
<1>2. ASSUME Live(c), Live(c)', UNCHANGED threadMap, handler'[c] # "start",
             \A d \in Conns \ {c} : handler'[d] = handler[d] /\ sap'[d] = sap[d],
             sap'[c] = sock[c], accepter = "insert" /\ sapRes = c => handler'[c] = "serve"
      PROVE  MapParts'
  <2>1. \A d \in Conns : Live(d)' <=> Live(d)
    BY <1>2 DEF Live, Stopping
  <2>2. ParameterRead'
    BY <1>1, <1>2 DEF MapParts, ParameterRead
  <2>3. StillServing' /\ KeyIsFree'
    BY <1>1, <1>2 DEF MapParts, StillServing, KeyIsFree, LoopInv
  <2>4. Registered' /\ EntriesLive'
    BY <1>1, <1>2, <2>1 DEF MapParts, Registered, Registering, EntriesLive
  <2>5. Running'
    BY <1>2, ConnsAssumption DEF MapParts, Running, Live, Stopping
  <2>6. QED
    BY <2>2, <2>3, <2>4, <2>5 DEF MapParts
<1>3. handler[c] \notin {"none", "start"} => sap[c] = sock[c]
  BY DEF MapParts, ParameterRead
<1>4. Stopping(c) => threadMap[sock[c]] = c /\ ~Registering(c)
  BY DEF MapParts, Registered, Registering, Live, StillServing, Stopping
<1>5. CASE ReadParameter(c)
  <2>1. /\ handler[c] = "start" /\ handler'[c] = "serve" /\ sap'[c] = tData
        /\ \A d \in Conns \ {c} : handler'[d] = handler[d] /\ sap'[d] = sap[d]
        /\ UNCHANGED threadMap
    BY <1>5 DEF ReadParameter, Goto
  <2>2. tData = sock[c]
    BY <2>1, <1>5 DEF VariableIsTheirs, Calm, Quiet, ReadParameter, sockVars
  <2>3. QED
    BY <1>2, <2>1, <2>2 DEF Live
<1>6. CASE StopServing(c)
  <2>1. /\ handler[c] = "serve" /\ handler'[c] \in {"close_kill", "kill", "kill_close"}
        /\ \A d \in Conns \ {c} : handler'[d] = handler[d] /\ sap'[d] = sap[d]
        /\ sap'[c] = sap[c] /\ UNCHANGED threadMap
    BY <1>6 DEF StopServing, Goto
  <2>2. ~(accepter = "insert" /\ sapRes = c)
    BY <1>6 DEF StopServing, Quiet
  <2>3. QED
    BY <1>2, <1>3, <2>1, <2>2 DEF Live, Stopping
<1>7. CASE CloseSocket(c) /\ handler[c] = "close_kill"
  <2>1. /\ handler'[c] = "kill" /\ sap'[c] = sap[c] /\ UNCHANGED threadMap
        /\ \A d \in Conns \ {c} : handler'[d] = handler[d] /\ sap'[d] = sap[d]
    BY <1>7 DEF CloseSocket, Goto
  <2>2. QED
    BY <1>2, <1>3, <1>4, <1>7, <2>1 DEF Live, Stopping, Registering
<1>8. CASE CloseSocket(c) /\ handler[c] = "close"
  <2>1. /\ handler' = [handler EXCEPT ![c] = "gone"] /\ UNCHANGED <<sap, threadMap>>
    BY <1>8 DEF CloseSocket, Goto
  <2>2. \A d \in Conns : Live(d)' <=> Live(d)
    BY <1>8, <2>1 DEF Live, Stopping
  <2>3. ParameterRead' /\ StillServing' /\ KeyIsFree' /\ Running'
    BY <1>1, <1>8, <2>1, ConnsAssumption
       DEF MapParts, ParameterRead, StillServing, KeyIsFree, Running, LoopInv
  <2>4. Registered' /\ EntriesLive'
    BY <1>1, <2>1, <2>2 DEF MapParts, Registered, Registering, EntriesLive
  <2>5. QED
    BY <2>3, <2>4 DEF MapParts
<1>9. CASE KillThread(c)
  <2>1. threadMap[sap[c]] = c
    BY <1>3, <1>4, <1>9 DEF KillThread, Stopping
  <2>2. /\ handler'[c] \in {"wait", "wait_close"} /\ sap'[c] = sap[c] /\ UNCHANGED threadMap
        /\ \A d \in Conns \ {c} : handler'[d] = handler[d] /\ sap'[d] = sap[d]
    BY <1>9, <2>1 DEF KillThread, Goto
  <2>3. Stopping(c) /\ handler[c] \notin {"none", "start"}
    BY <1>9 DEF KillThread, Stopping
  <2>4. QED
    BY <1>2, <1>3, <1>4, <2>2, <2>3 DEF Live, Stopping, Registering
<1>10. CASE EraseThread(c)
  <2> DEFINE k == sock[c]
  <2>1. /\ sap[c] = k /\ handler[c] \in {"wait", "wait_close"} /\ Stopping(c)
    BY <1>3, <1>10 DEF EraseThread, Stopping
  <2>2. /\ threadMap' = [threadMap EXCEPT ![k] = Absent] /\ UNCHANGED sap
        /\ \A d \in Conns \ {c} : handler'[d] = handler[d]
        /\ handler'[c] \in {"gone", "close"}
    BY <1>10, <2>1 DEF EraseThread, Goto
  <2>3. \A d \in Conns \ {c} : (Live(d)' <=> Live(d))
    BY <2>2 DEF Live, Stopping
  <2>4. ~Live(c)' /\ ~Registering(c) /\ threadMap[k] = c
    BY <1>4, <2>1, <2>2 DEF Live, Stopping
  <2>5. k \in Keys
    BY <2>1, ConnsAssumption DEF LoopInv
  <2>6. ParameterRead' /\ Running'
    BY <1>1, <2>1, <2>2, ConnsAssumption DEF MapParts, ParameterRead, Running
  <2>7. StillServing' /\ KeyIsFree'
    <3>1. accepter = "insert" => sapRes \in Conns \ {c}
      BY <2>4 DEF LoopInv, Registering
    <3>2. accepter # "accept" => threadMap[sock[sapRes]] = Absent
      BY DEF MapParts, KeyIsFree
    <3>3. QED
      BY <1>1, <2>2, <2>5, <3>1, <3>2 DEF MapParts, StillServing, KeyIsFree, LoopInv
  <2>8. Registered'
    <3>1. ASSUME NEW d \in Conns \ {c}, Live(d), ~Registering(d)
          PROVE  threadMap[sock[d]] = d /\ sock[d] # k
      BY <2>4, <3>1 DEF MapParts, Registered
    <3>2. QED
      BY <1>1, <2>2, <2>3, <2>4, <3>1 DEF Registered, Registering
  <2>9. EntriesLive'
    BY <1>1, <2>2, <2>3, <2>4, <2>5 DEF MapParts, EntriesLive
  <2>10. QED
    BY <2>6, <2>7, <2>8, <2>9 DEF MapParts
<1>11. QED
  BY <1>5, <1>6, <1>7, <1>8, <1>9, <1>10 DEF Handler, CloseSocket

LEMMA NextMapInv == IInv /\ MapInv /\ [Next]_vars => MapInv'
<1> SUFFICES ASSUME IInv, MapInv, [Next]_vars, Quiet' PROVE MapParts'
  BY DEF MapInv
<1>1. Quiet
  BY DEF Quiet, Next, Accept, CreateThread, InsertThread, Handler, ReadParameter, StopServing,
     CloseSocket, KillThread, EraseThread, sockVars, vars
<1>2. MapParts
  BY <1>1 DEF MapInv
<1>3. CASE UNCHANGED vars
  BY <1>2, <1>3 DEF vars, MapParts, ParameterRead, StillServing, KeyIsFree, Registered,
     Registering, EntriesLive, Live, Stopping, Running
<1>4. QED
  BY <1>2, <1>3, AcceptMaps, LoopMaps, HandlerMaps DEF Next

(* As long as no connection arrives in a burst, no number is reused while  *)
(* its last user runs, and no handler ends before it is registered, every  *)
(* handler that stops finds its own thread in threadMap, and none follows  *)
(* the null pointer of an absent key.                                      *)
THEOREM HandlersFindTheirThreads == Safety => []KillFindsThread
<1>1. IInv /\ MapInv => KillFindsThread
  BY DEF MapInv, Quiet, MapParts, ParameterRead, StillServing, Registered, Registering,
     KillFindsThread, Live, Stopping
<1>2. QED
  BY <1>1, InitIInv, NextIInv, InitMapInv, NextMapInv, PTL DEF Safety
=============================================================================
