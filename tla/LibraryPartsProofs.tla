------------------------- MODULE LibraryPartsProofs -------------------------
(***************************************************************************)
(* The parts of LibraryParts for every number of threads, objects, socket  *)
(* numbers, listeners, guests, events and bytes.  The accept loop has      *)
(* proofs of its own; here are those of the sockets, the condition         *)
(* variable, the mediator, the input events and the first interaction, and *)
(* what all of them come to together.                                      *)
(***************************************************************************)
EXTENDS LibraryParts, AcceptLoopProofs, SequenceTheorems,
        FiniteSetTheorems, WellFoundedInduction, TLAPS

-----------------------------------------------------------------------------
(* Sockets *)

(* Windows sockets that have been ended leave no socket open.              *)
Started == wsa = 0 => open = {}

(* Which members have been assigned: those of clients by the constructor,  *)
(* that of a server while nothing has failed.                              *)
Assigned ==
    \A o \in Objects :
        /\ life[o] = "raw" => sockOf[o] = Unset
        /\ life[o] # "raw" => class[o] # "none"
        /\ life[o] = "alive" /\ class[o] \in {"library", "viewer", "test"} => sockOf[o] # Unset
        /\ life[o] = "alive" /\ class[o] = "server" /\ wsa = 1 => sockOf[o] # Unset

(* While nothing has failed, a number in an object is that of an open      *)
(* socket, except in a test program, which has one object only.            *)
NumbersOpen ==
    wsa = 1 => \A o \in Objects :
        life[o] = "alive" /\ class[o] # "test" /\ sockOf[o] \in Handles => sockOf[o] \in open

(* Who an open socket is not lost to (NothingLeaks).                       *)
Owns(o, h) ==
    /\ sockOf[o] = h
    /\ life[o] = "alive"
          \/ (life[o] = "ended" /\ class[o] \in {"test", "host", "testhost"})

SInv ==
    SocketsTypeOK /\ Started /\ Assigned /\ NumbersOpen /\ NoSharedSocket /\ NothingLeaks

-----------------------------------------------------------------------------
(* At the start no object has been constructed.                            *)
LEMMA InitSInv == SocketsInit => SInv
<1> SUFFICES ASSUME SocketsInit PROVE SInv
  OBVIOUS
<1> USE DEF SocketsInit
<1>1. SocketsTypeOK
  <2>1. sockOf \in [Objects -> Handles \cup {Invalid, Unset}]
    OBVIOUS
  <2>2. life \in [Objects -> {"raw", "alive", "quit", "ended"}]
    OBVIOUS
  <2>3. open \subseteq Handles /\ calling \subseteq Objects /\ wsa \in 0..1
    OBVIOUS
  <2>4. exited \in BOOLEAN
    OBVIOUS
  <2>5. QED
    BY <2>1, <2>2, <2>3, <2>4 DEF SocketsTypeOK
<1>2. Started /\ Assigned /\ NumbersOpen
  BY DEF Started, Assigned, NumbersOpen
<1>3. NoSharedSocket /\ NothingLeaks
  BY DEF NoSharedSocket, NothingLeaks
<1>4. QED
  BY <1>1, <1>2, <1>3 DEF SInv

(* Where Windows sockets have been ended, nothing is open that could be    *)
(* shared or lost.                                                         *)
LEMMA EndedKeeps ==
    ASSUME SocketsTypeOK', Assigned', wsa' = 0, open' = {}
    PROVE  SInv'
  BY DEF SInv, Started, NumbersOpen, NoSharedSocket, NothingLeaks

(* A failure ends them, since they are started only once.                  *)
LEMMA CleanupEnds ==
    ASSUME SocketsTypeOK, NEW left, CleanupTo(left)
    PROVE  wsa' = 0 /\ open' = {}
  BY DEF SocketsTypeOK, CleanupTo

(* A test program has one object.                                          *)
LEMMA TestIsAlone ==
    ASSUME SocketsTypeOK, Assigned, NEW a \in Objects, NEW b \in Objects,
           class[a] = "test", life[b] # "raw"
    PROVE  a = b
  BY SocketsAssumption DEF SocketsTypeOK, Assigned

(* An object that has no open socket gets a new one.                       *)
LEMMA OpensKeeps ==
    ASSUME SInv, NEW o \in Objects, NEW h \in Handles,
           Available(h), Hold(o, h), open' = open \cup {h},
           sockOf[o] \notin open, class[o] # "none",
           life' = [life EXCEPT ![o] = "alive"], UNCHANGED <<class, wsa>>,
           SocketsTypeOK'
    PROVE  SInv'
<1> USE DEF SInv, SocketsTypeOK, Available, Hold
<1>1. h \notin open /\ wsa = 1 /\ wsa' = 1 /\ h # Unset
  BY SocketsAssumption
<1>2. Started'
  BY <1>1 DEF Started
<1>3. Assigned'
  BY <1>1 DEF Assigned
<1>4. NumbersOpen'
  BY <1>1 DEF NumbersOpen
<1>5. \A b \in Objects : b # o /\ life[b] = "alive" => sockOf[b] # h
  <2> SUFFICES ASSUME NEW b \in Objects, b # o, life[b] = "alive", sockOf[b] = h
               PROVE  FALSE
    OBVIOUS
  <2>1. class[b] = "test"
    BY <1>1 DEF NumbersOpen
  <2>2. class[o] = "none"
    BY <2>1, SocketsAssumption
  <2>3. QED
    BY <2>2
<1>6. NoSharedSocket'
  BY <1>1, <1>5 DEF NoSharedSocket
<1>7. NothingLeaks'
  <2> SUFFICES ASSUME NEW g \in open' PROVE \E b \in Objects : Owns(b, g)'
    BY DEF NothingLeaks, Owns
  <2>1. CASE g = h
    <3>1. Owns(o, h)'
      BY DEF Owns
    <3>2. QED
      BY <2>1, <3>1
  <2>2. CASE g \in open
    <3>1. PICK b \in Objects : Owns(b, g)
      BY <2>2 DEF NothingLeaks, Owns
    <3>2. b # o
      BY <2>2, <3>1 DEF Owns
    <3>3. Owns(b, g)'
      BY <3>1, <3>2 DEF Owns
    <3>4. QED
      BY <3>3
  <2>3. QED
    BY <2>1, <2>2
<1>8. QED
  BY <1>2, <1>3, <1>4, <1>6, <1>7

(* An object whose life ends with the socket it closes was the only one    *)
(* that had it.                                                            *)
LEMMA ClosesKeeps ==
    ASSUME SInv, SocketsTypeOK', NEW o \in Objects, life[o] = "alive",
           open' = open \ {sockOf[o]} \/ (wsa = 0 /\ open' = {}),
           NEW l \in {"quit", "ended"}, life' = [life EXCEPT ![o] = l],
           UNCHANGED <<class, wsa, sockOf>>
    PROVE  SInv'
<1> USE DEF SInv, SocketsTypeOK
<1>1. Started' /\ Assigned' /\ open' \subseteq open
  BY DEF Started, Assigned
<1>2. \A b \in Objects : life'[b] = "alive" => b # o /\ life[b] = "alive"
  OBVIOUS
<1>3. NumbersOpen'
  <2> SUFFICES ASSUME wsa = 1, NEW b \in Objects, life'[b] = "alive", class[b] # "test",
                      sockOf[b] \in Handles
               PROVE  sockOf[b] \in open'
    BY DEF NumbersOpen
  <2>1. b # o /\ life[b] = "alive" /\ sockOf[b] \in open
    BY <1>2 DEF NumbersOpen
  <2>2. sockOf[b] # sockOf[o]
    BY <2>1 DEF NoSharedSocket
  <2>3. QED
    BY <2>1, <2>2
<1>4. NoSharedSocket'
  BY <1>1, <1>2 DEF NoSharedSocket
<1>5. NothingLeaks'
  <2> SUFFICES ASSUME NEW g \in open' PROVE \E b \in Objects : Owns(b, g)'
    BY DEF NothingLeaks, Owns
  <2>1. PICK b \in Objects : Owns(b, g)
    BY <1>1 DEF NothingLeaks, Owns
  <2>2. b # o
    BY <2>1 DEF Owns
  <2>3. Owns(b, g)'
    BY <2>1, <2>2 DEF Owns
  <2>4. QED
    BY <2>3
<1>6. QED
  BY <1>1, <1>3, <1>4, <1>5

-----------------------------------------------------------------------------
(* initTCP() and initUDP() of an object of any class.                      *)
LEMMA InitKeeps ==
    ASSUME SInv, NEW o \in Objects, class[o] # "none", InitTCP(o) \/ InitUDP(o)
    PROVE  SInv'
<1> USE DEF SInv, SocketsTypeOK
<1>1. CASE SocketTCP(o)
  <2>1. ASSUME NEW h \in Read(o) \ {Invalid}, Fail(open \ {h}), UNCHANGED <<sockOf, calling>>
        PROVE  SInv'
    <3>1. wsa' = 0 /\ open' = {}
      BY <2>1, CleanupEnds DEF Fail
    <3>2. SocketsTypeOK' /\ Assigned'
      BY <1>1, <2>1, <3>1 DEF SocketTCP, Fail, Assigned
    <3>3. QED
      BY <3>1, <3>2, EndedKeeps
  <2>2. ASSUME Invalid \in Read(o), NEW h \in Handles,
               Available(h), Hold(o, h), open' = open \cup {h},
               calling' = calling \cup {o}, UNCHANGED <<wsa, exited>>
        PROVE  SInv'
    <3>1. sockOf[o] \notin open /\ life' = [life EXCEPT ![o] = "alive"]
      BY <1>1, <2>2, SocketsAssumption DEF SocketTCP, Read, Idle
    <3>2. SocketsTypeOK'
      BY <1>1, <2>2 DEF SocketTCP, Hold
    <3>3. QED
      BY <1>1, <2>2, <3>1, <3>2, OpensKeeps DEF SocketTCP
  <2>3. ASSUME Hold(o, Invalid), Fail(open), UNCHANGED calling
        PROVE  SInv'
    <3>1. wsa' = 0 /\ open' = {}
      BY <2>3, CleanupEnds DEF Fail
    <3>2. SocketsTypeOK' /\ Assigned'
      BY <1>1, <2>3, <3>1, SocketsAssumption DEF SocketTCP, Idle, Fail, Hold, Assigned
    <3>3. QED
      BY <3>1, <3>2, EndedKeeps
  <2>4. QED
    BY <1>1, <2>1, <2>2, <2>3 DEF SocketTCP
<1>2. CASE Connect(o)
  <2>1. ASSUME UNCHANGED <<wsa, open, exited>>
        PROVE  SInv'
    BY <1>2, <2>1 DEF Connect, Started, Assigned, NumbersOpen, NoSharedSocket, NothingLeaks
  <2>2. ASSUME Fail(open \ {sockOf[o]})
        PROVE  SInv'
    <3>1. wsa' = 0 /\ open' = {}
      BY <2>2, CleanupEnds DEF Fail
    <3>2. SocketsTypeOK' /\ Assigned'
      BY <1>2, <2>2, <3>1 DEF Connect, Fail, Assigned
    <3>3. QED
      BY <3>1, <3>2, EndedKeeps
  <2>3. QED
    BY <1>2, <2>1, <2>2 DEF Connect
<1>3. CASE InitUDP(o)
  <2>1. ASSUME NEW h \in Handles, Available(h), Hold(o, h), open' = open \cup {h},
               UNCHANGED <<wsa, exited>>
        PROVE  SInv'
    <3>1. life' = [life EXCEPT ![o] = "alive"]
      BY <1>3 DEF InitUDP, Idle
    <3>2. SocketsTypeOK'
      BY <1>3, <2>1 DEF InitUDP, Hold
    <3>3. QED
      BY <1>3, <2>1, <3>1, <3>2, OpensKeeps DEF InitUDP
  <2>2. ASSUME Exit, UNCHANGED sockOf
        PROVE  SInv'
    <3>1. SocketsTypeOK' /\ Assigned'
      BY <1>3, <2>2 DEF InitUDP, Exit, Assigned
    <3>2. QED
      BY <2>2, <3>1, EndedKeeps DEF Exit
  <2>3. QED
    BY <1>3, <2>1, <2>2 DEF InitUDP
<1>4. QED
  BY <1>1, <1>2, <1>3 DEF InitTCP

(* The constructors.                                                       *)
LEMMA ConstructKeeps ==
    ASSUME SInv, NEW o \in Objects,
           \/ class[o] \in {"library", "viewer", "test"} /\ ConstructClient(o)
           \/ class[o] \in {"host", "testhost"} /\ ConstructHost(o)
           \/ class[o] = "server" /\ ConstructServer(o)
    PROVE  SInv'
<1> USE DEF SInv, SocketsTypeOK, Begin
<1>1. sockOf[o] = Unset /\ sockOf[o] \notin open /\ sockOf[o] \notin Handles \cup {Invalid}
  BY SocketsAssumption DEF ConstructClient, ConstructHost, ConstructServer, Assigned
<1>2. ASSUME UNCHANGED <<wsa, open, exited>>, NEW n \in {Invalid, Unset},
             sockOf' = [sockOf EXCEPT ![o] = n], Begin(o), Assigned'
      PROVE  SInv'
  <2>1. SocketsTypeOK' /\ Started'
    BY <1>2 DEF Started
  <2>2. n \notin Handles /\ n \notin open
    BY <1>2, SocketsAssumption
  <2>3. NumbersOpen'
    BY <1>2, <2>2 DEF NumbersOpen
  <2>4. NoSharedSocket'
    BY <1>2, <2>2 DEF NoSharedSocket
  <2>5. NothingLeaks'
    <3> SUFFICES ASSUME NEW g \in open PROVE \E b \in Objects : Owns(b, g)'
      BY <1>2 DEF NothingLeaks, Owns
    <3>1. PICK b \in Objects : Owns(b, g)
      BY DEF NothingLeaks, Owns
    <3>2. b # o
      BY <1>2, <3>1 DEF Owns
    <3>3. Owns(b, g)'
      BY <1>2, <3>1, <3>2 DEF Owns
    <3>4. QED
      BY <3>3
  <2>6. QED
    BY <1>2, <2>1, <2>3, <2>4, <2>5
<1>3. CASE class[o] \in {"library", "viewer", "test"} /\ ConstructClient(o)
  <2>1. Assigned'
    BY <1>3, SocketsAssumption DEF ConstructClient, Hold, Assigned
  <2>2. QED
    BY <1>2, <1>3, <2>1 DEF ConstructClient, Hold
<1>4. CASE class[o] \in {"host", "testhost"} /\ ConstructHost(o)
  <2>1. Assigned'
    BY <1>4 DEF ConstructHost, Assigned
  <2>2. sockOf' = [sockOf EXCEPT ![o] = Unset]
    BY <1>1, <1>4 DEF ConstructHost
  <2>3. QED
    BY <1>2, <1>4, <2>1, <2>2 DEF ConstructHost
<1>5. CASE class[o] = "server" /\ ConstructServer(o)
  <2>1. ASSUME NEW h \in Handles, Available(h), Hold(o, h), open' = open \cup {h},
               UNCHANGED <<wsa, exited>>
        PROVE  SInv'
    <3>1. SocketsTypeOK'
      BY <1>5, <2>1 DEF ConstructServer, Hold
    <3>2. QED
      BY <1>1, <1>5, <2>1, <3>1, OpensKeeps DEF ConstructServer
  <2>2. ASSUME Fail(open), UNCHANGED sockOf
        PROVE  SInv'
    <3>1. wsa' = 0 /\ open' = {}
      BY <2>2, CleanupEnds DEF Fail
    <3>2. SocketsTypeOK' /\ Assigned'
      BY <1>5, <2>2, <3>1 DEF ConstructServer, Fail, Assigned
    <3>3. QED
      BY <3>1, <3>2, EndedKeeps
  <2>3. QED
    BY <1>5, <2>1, <2>2 DEF ConstructServer
<1>6. QED
  BY <1>3, <1>4, <1>5

(* The destructors, and how the programs end.                              *)
LEMMA EndKeeps ==
    ASSUME SInv, NEW o \in Objects,
           \/ class[o] \in {"library", "viewer", "server"} /\ Destroy(o)
           \/ class[o] \in {"test", "host", "testhost"} /\ DestroyNothing(o)
           \/ ViewerQuits(o) \/ ViewerReturns(o) \/ TestLeaves(o)
    PROVE  SInv'
<1> USE DEF SInv, SocketsTypeOK
<1>1. CASE class[o] \in {"library", "viewer", "server"} /\ Destroy(o)
  <2>1. life[o] = "alive" /\ life' = [life EXCEPT ![o] = "ended"]
           /\ UNCHANGED <<class, wsa, sockOf>>
    BY <1>1 DEF Destroy, End, Idle
  <2>2. open' = open \ {sockOf[o]} \/ (wsa = 0 /\ open' = {})
    <3>1. CASE sockOf[o] = Unset
      <4>1. wsa # 1
        BY <1>1, <2>1, <3>1 DEF Assigned
      <4>2. wsa = 0 /\ open = {}
        BY <4>1 DEF Started
      <4>3. open' = {}
        BY <1>1, <4>2 DEF Destroy
      <4>4. QED
        BY <4>2, <4>3
    <3>2. CASE sockOf[o] # Unset
      BY <1>1, <3>2 DEF Destroy, Read
    <3>3. QED
      BY <3>1, <3>2
  <2>3. SocketsTypeOK'
    BY <1>1, <2>1, <2>2 DEF Destroy, End
  <2>4. QED
    BY <2>1, <2>2, <2>3, ClosesKeeps
<1>2. CASE class[o] \in {"test", "host", "testhost"} /\ DestroyNothing(o)
  <2>1. SocketsTypeOK' /\ Started' /\ Assigned' /\ NumbersOpen' /\ NoSharedSocket'
    BY <1>2 DEF DestroyNothing, End, Idle, Started, Assigned, NumbersOpen, NoSharedSocket
  <2>2. \A b \in Objects, g \in open : Owns(b, g) => Owns(b, g)'
    BY <1>2 DEF DestroyNothing, End, Idle, Owns
  <2>3. NothingLeaks'
    BY <1>2, <2>2 DEF DestroyNothing, NothingLeaks, Owns
  <2>4. QED
    BY <2>1, <2>3
<1>3. CASE ViewerQuits(o)
  <2>1. life[o] = "alive" /\ SocketsTypeOK'
    BY <1>3 DEF ViewerQuits, Idle
  <2>2. /\ open' = open \ {sockOf[o]}
        /\ life' = [life EXCEPT ![o] = "quit"] /\ "quit" \in {"quit", "ended"}
        /\ UNCHANGED <<class, wsa, sockOf>>
    BY <1>3 DEF ViewerQuits
  <2>3. QED
    BY <2>1, <2>2, ClosesKeeps
<1>4. CASE ViewerReturns(o)
  <2>1. wsa' = 0 /\ open' = {}
    BY <1>4, CleanupEnds DEF ViewerReturns
  <2>2. SocketsTypeOK' /\ Assigned'
    BY <1>4, <2>1 DEF ViewerReturns, Assigned
  <2>3. QED
    BY <2>1, <2>2, EndedKeeps
<1>5. CASE TestLeaves(o)
  <2>1. class[o] = "test" /\ open' = open \ {sockOf[o]}
    BY <1>5 DEF TestLeaves
  <2>2. UNCHANGED <<class, wsa, sockOf, life>> /\ SocketsTypeOK'
    BY <1>5 DEF TestLeaves
  <2>3. Started' /\ Assigned' /\ NoSharedSocket'
    BY <2>1, <2>2 DEF Started, Assigned, NoSharedSocket
  <2>4. NumbersOpen'
    BY <2>1, <2>2, TestIsAlone DEF NumbersOpen
  <2>5. NothingLeaks'
    BY <2>1, <2>2 DEF NothingLeaks
  <2>6. QED
    BY <2>2, <2>3, <2>4, <2>5
<1>6. QED
  BY <1>1, <1>2, <1>3, <1>4, <1>5

-----------------------------------------------------------------------------
(* Every step keeps the invariant.                                         *)
LEMMA NextSInv == SInv /\ [SocketsNext]_socketVars => SInv'
<1> SUFFICES ASSUME SInv, [SocketsNext]_socketVars PROVE SInv'
  OBVIOUS
<1>1. ASSUME NEW o \in Objects, class[o] # "none", InitTCP(o) \/ InitUDP(o) PROVE SInv'
  BY <1>1, InitKeeps
<1>2. ASSUME NEW o \in Objects,
             \/ LibrarySocket(o) \/ ViewerSocket(o) \/ ViewerQuits(o) \/ ViewerReturns(o)
             \/ TestSocket(o) \/ TestLeaves(o)
             \/ ServerSocket(o) \/ HostSocket(o) \/ TestHostSocket(o)
      PROVE  SInv'
  BY <1>1, <1>2, ConstructKeeps, EndKeeps
     DEF LibrarySocket, ViewerSocket, TestSocket, ServerSocket, HostSocket, TestHostSocket
<1>3. CASE UNCHANGED socketVars
  BY <1>3 DEF socketVars, SInv, SocketsTypeOK, Started, Assigned, NumbersOpen, NoSharedSocket,
              NothingLeaks
<1>4. QED
  BY <1>2, <1>3 DEF SocketsNext

(* Every reachable state of a process's sockets has its type.              *)
THEOREM SocketsTypeCorrect == SocketsSpec => []SocketsTypeOK
<1>1. SInv => SocketsTypeOK
  BY DEF SInv
<1>2. QED
  BY <1>1, InitSInv, NextSInv, PTL DEF SocketsSpec

(* However many objects a process has, of whatever classes: no two that    *)
(* are alive hold the same open socket, stale numbers and the reuse of     *)
(* numbers notwithstanding.                                                *)
THEOREM SocketsNotShared == SocketsSpec => []NoSharedSocket
<1>1. SInv => NoSharedSocket
  BY DEF SInv
<1>2. QED
  BY <1>1, InitSInv, NextSInv, PTL DEF SocketsSpec

(* Every open socket is that of an object that is alive or of a class that *)
(* leaves its socket to the end of the process.                            *)
THEOREM SocketsNotLost == SocketsSpec => []NothingLeaks
<1>1. SInv => NothingLeaks
  BY DEF SInv
<1>2. QED
  BY <1>1, InitSInv, NextSInv, PTL DEF SocketsSpec

-----------------------------------------------------------------------------
(* Condition variable *)

(* A thread between its calls inside sleep() has the section; in the       *)
(* library's copies it is never entered twice, and in VideoClient's only   *)
(* by a thread that sleeps for the second time.                            *)
SectionInv ==
    /\ \A t \in Sleepers : at[t] \in {"call", "leave"} => csOwner = t
    /\ \A t \in Sleepers : at[t] # "out" => sleeps[t] > 0
    /\ csDepth > 1 => copy = "viewer" /\ sleeps[csOwner] > 1

CInv == ConditionTypeOK /\ SectionInv /\ SectionIsReturned

LEMMA InitCInv == ConditionInit => CInv
  BY SleepersAssumption
     DEF ConditionInit, CInv, ConditionTypeOK, SectionInv, SectionIsReturned

(* Entering: whoever has the section already has slept before.             *)
LEMMA EnterKeeps ==
    ASSUME CInv, NEW t \in Sleepers, EnterSection(t) \/ Reenter(t)
    PROVE  CInv'
<1> USE SleepersAssumption DEF CInv, ConditionTypeOK
<1>1. /\ at[t] \in {"enter", "awake"} /\ csOwner \in {t, NoThread}
      /\ csOwner' = t /\ csDepth' = csDepth + 1 /\ csDepth \in Nat
      /\ \E l \in {"call", "leave"} : at' = [at EXCEPT ![t] = l]
      /\ UNCHANGED <<copy, timeout, sleeps>>
  BY DEF EnterSection, Reenter, Enter, GoTo
<1>2. csOwner = t => copy = "viewer" /\ sleeps[t] > 1
  BY <1>1 DEF SectionIsReturned, Returned
<1>3. ConditionTypeOK'
  BY <1>1
<1>4. SectionInv'
  BY <1>1, <1>2 DEF SectionInv
<1>5. SectionIsReturned'
  BY <1>1 DEF SectionIsReturned
<1>6. QED
  BY <1>3, <1>4, <1>5

(* Leaving: the section is free again unless it had been entered before.   *)
LEMMA ReleaseKeeps ==
    ASSUME CInv, NEW t \in Sleepers, FallAsleep(t) \/ LeaveSleep(t)
    PROVE  CInv'
<1> USE SleepersAssumption DEF CInv, ConditionTypeOK
<1>1. /\ at[t] \in {"call", "leave"} /\ csOwner = t /\ csDepth \in Nat \ {0}
      /\ \E l \in {"asleep", "out"} : at' = [at EXCEPT ![t] = l]
      /\ sleeps[t] > 0 /\ UNCHANGED <<copy, timeout, sleeps>>
  BY DEF FallAsleep, LeaveSleep, GoTo, SectionInv
<1>2. CASE Release
  <2>1. csDepth = 1 => csOwner' = NoThread /\ csDepth' = 0
    BY <1>1, <1>2 DEF Release
  <2>2. csDepth > 1 => csOwner' = t /\ csDepth' = csDepth - 1
    BY <1>1, <1>2 DEF Release
  <2>3. csDepth > 1 => copy = "viewer" /\ sleeps[t] > 1
    BY <1>1 DEF SectionInv
  <2>4. ConditionTypeOK'
    BY <1>1, <2>1, <2>2
  <2>5. SectionInv'
    BY <1>1, <2>1, <2>2, <2>3 DEF SectionInv
  <2>6. SectionIsReturned'
    BY <1>1, <2>1, <2>2, <2>3 DEF SectionIsReturned, Returned
  <2>7. QED
    BY <2>4, <2>5, <2>6
<1>3. CASE LeaveSleep(t) /\ copy = "viewer"
  <2>1. UNCHANGED <<csOwner, csDepth>> /\ at' = [at EXCEPT ![t] = "out"]
    BY <1>3 DEF LeaveSleep, GoTo
  <2>2. ConditionTypeOK'
    BY <1>1, <2>1
  <2>3. SectionInv'
    BY <1>1, <2>1 DEF SectionInv
  <2>4. SectionIsReturned'
    BY <1>1, <1>3, <2>1 DEF SectionIsReturned, Returned
  <2>5. QED
    BY <2>2, <2>3, <2>4
<1>4. QED
  BY <1>2, <1>3 DEF FallAsleep, LeaveSleep

(* The other steps leave the section as it is.                             *)
LEMMA OutsideKeeps ==
    ASSUME CInv,
           \/ \E l \in {"finite", "infinite"} : SetTimeout(l)
           \/ \E t \in Sleepers : CallSleep(t)
           \/ Wake \/ WakeAll
    PROVE  CInv'
<1> USE SleepersAssumption DEF CInv, ConditionTypeOK, SectionInv, SectionIsReturned, Returned
<1>1. CASE \E l \in {"finite", "infinite"} : SetTimeout(l)
  BY <1>1 DEF SetTimeout
<1>2. ASSUME NEW t \in Sleepers, CallSleep(t) PROVE CInv'
  <2>1. /\ at[t] = "out" /\ at' = [at EXCEPT ![t] = "enter"]
        /\ sleeps[t] \in 0..MaxSleeps /\ sleeps[t] + 1 \in 0..MaxSleeps
        /\ sleeps' = [sleeps EXCEPT ![t] = sleeps[t] + 1]
        /\ UNCHANGED <<copy, timeout, csOwner, csDepth>>
    BY <1>2 DEF CallSleep, GoTo
  <2>2. ConditionTypeOK'
    BY <2>1
  <2>3. SectionInv'
    BY <2>1
  <2>4. SectionIsReturned'
    BY <2>1
  <2>5. QED
    BY <2>2, <2>3, <2>4
<1>3. ASSUME NEW t \in Sleepers, WakeUp(t) PROVE CInv'
  BY <1>3 DEF WakeUp, GoTo
<1>4. CASE WakeAll
  BY <1>4 DEF WakeAll
<1>5. QED
  BY <1>1, <1>2, <1>3, <1>4 DEF Wake

LEMMA NextCInv == CInv /\ [ConditionNext]_cvVars => CInv'
<1> SUFFICES ASSUME CInv, [ConditionNext]_cvVars PROVE CInv'
  OBVIOUS
<1>1. CASE UNCHANGED cvVars
  BY <1>1 DEF cvVars, CInv, ConditionTypeOK, SectionInv, SectionIsReturned, Returned
<1>2. QED
  BY <1>1, EnterKeeps, ReleaseKeeps, OutsideKeeps DEF ConditionNext

(* Whatever number of threads sleep, wake and time out: nobody who sleeps  *)
(* keeps the section from the others, and in the library's copies nobody   *)
(* who has returned does either.                                           *)
THEOREM SectionReturned == ConditionSafety => []SectionIsReturned
<1>1. CInv => SectionIsReturned
  BY DEF CInv
<1>2. QED
  BY <1>1, InitCInv, NextCInv, PTL DEF ConditionSafety

-----------------------------------------------------------------------------
(* Mediator *)

(* The part of the type that the steps need.                               *)
Pointing ==
    /\ queuePtr \in [Listeners -> Pointers] /\ sectionPtr \in [Listeners -> Pointers]
    /\ request \in [Listeners -> {"idle", "enter", "push", "release"}]
    /\ mediator \in {"alive", "deleted"}

(* Whoever could ask now, the owner not being about to remove it, finds    *)
(* the queue too: addListener() gives it first.                            *)
Served(l) == sectionPtr[l] = "mediator" => queuePtr[l] = "mediator"
SectionGivenLast ==
    \A l \in Listeners :
        /\ ~Removing(l) => Served(l)
        /\ ownerCall = [op |-> "add", of |-> l] => queuePtr[l] = "mediator"

(* A request that nobody disturbs has both pointers until it is through.   *)
Equipped(l) ==
    /\ mediator = "alive"
    /\ sectionPtr[l] = "mediator" /\ queuePtr[l] = "mediator"
    /\ ~Removing(l)
RequestsEquipped ==
    Unbroken => \A l \in Listeners : Asking(l) /\ l \notin excused => Equipped(l)

RequestsInv == Pointing /\ SectionGivenLast /\ RequestsEquipped /\ QueueBehindSection

-----------------------------------------------------------------------------
(* An owner that is free is not removing anybody.                          *)
LEMMA FreeIsNotRemoving ==
    ASSUME NEW o, NEW l
    PROVE  <<>> # [op |-> o, of |-> l]
<1>1. "op" \in DOMAIN [op |-> o, of |-> l] /\ DOMAIN <<>> = {}
  OBVIOUS
<1>2. QED
  BY <1>1

(* Before anybody is added nobody can ask.                                 *)
LEMMA InitRequests == MediatorInit => RequestsInv
  BY FreeIsNotRemoving DEF MediatorInit, RequestsInv, Pointing, Pointers, SectionGivenLast, Served, RequestsEquipped,
         Equipped, Unbroken, Asking, Removing, QueueBehindSection

(* A request breaks only where it has been disturbed, and begins only      *)
(* where both pointers are there.                                          *)
LEMMA RequestKeeps ==
    ASSUME RequestsInv, NEW l \in Listeners,
           RequestAction(l) \/ AcquireQueue(l) \/ PushAction(l) \/ ReleaseQueue(l)
    PROVE  RequestsInv'
<1> USE DEF RequestsInv, Pointing, Pointers, SectionGivenLast, Served, RequestsEquipped, Equipped,
            Unbroken, Asking, Removing, QueueBehindSection, Break, ownerVars
<1>1. CASE RequestAction(l)
  <2>1. CASE Removing(l)
    BY <1>1, <2>1 DEF RequestAction
  <2>2. CASE ~Removing(l) /\ sectionPtr[l] = "mediator"
    <3>1. Served(l) /\ mediator = "alive"
      BY <2>2
    <3>2. excused' = excused \ {l} /\ brokenBy' = brokenBy
      BY <1>1, <2>2 DEF RequestAction
    <3>3. QED
      BY <1>1, <2>2, <3>1, <3>2 DEF RequestAction
  <2>3. CASE sectionPtr[l] # "mediator"
    BY <1>1, <2>3, MediatorAssumption DEF RequestAction
  <2>4. QED
    BY <2>1, <2>2, <2>3
<1>2. CASE AcquireQueue(l)
  BY <1>2, MediatorAssumption DEF AcquireQueue
<1>3. CASE PushAction(l)
  BY <1>3, MediatorAssumption DEF PushAction
<1>4. CASE ReleaseQueue(l)
  BY <1>4, MediatorAssumption DEF ReleaseQueue
<1>5. QED
  BY <1>1, <1>2, <1>3, <1>4

(* What the owner gives comes in an order that leaves requests equipped;   *)
(* what it takes back excuses the listener it is taken from.               *)
LEMMA OwnerKeeps ==
    ASSUME RequestsInv, NEW l \in Listeners,
           AddQueue(l) \/ AddSection(l) \/ RemoveQueue(l) \/ RemoveSection(l)
    PROVE  RequestsInv'
<1> USE DEF RequestsInv, Pointing, Pointers, SectionGivenLast, Served, RequestsEquipped, Equipped,
            Unbroken, Asking, Removing, QueueBehindSection, requestVars, OwnerFree
<1>1. CASE AddQueue(l)
  BY <1>1 DEF AddQueue
<1>2. CASE AddSection(l)
  <2>1. \A k \in Listeners : mediator = "alive" => ~Removing(k) /\ Served(k)
    BY <1>2 DEF AddSection
  <2>2. \A k \in Listeners :
           /\ mediator = "alive" => Served(k)'
           /\ Equipped(k) => Equipped(k)'
    BY <1>2, <2>1, FreeIsNotRemoving DEF AddSection
  <2>3. \A k \in Listeners : ownerCall' # [op |-> "add", of |-> k]
    BY <1>2, FreeIsNotRemoving DEF AddSection
  <2>4. QED
    BY <1>2, <2>2, <2>3 DEF AddSection
<1>3. CASE RemoveQueue(l)
  <2>1. \A k \in Listeners : ~Removing(k)
    BY <1>3, FreeIsNotRemoving DEF RemoveQueue
  <2>2. \A k \in Listeners : k # l => ~Removing(k)' /\ Served(k)'
    BY <1>3, <2>1 DEF RemoveQueue
  <2>3. Removing(l)'
    BY <1>3 DEF RemoveQueue
  <2>4. QED
    BY <1>3, <2>1, <2>2, <2>3 DEF RemoveQueue
<1>4. CASE RemoveSection(l)
  BY <1>4, FreeIsNotRemoving DEF RemoveSection
<1>5. QED
  BY <1>1, <1>2, <1>3, <1>4

(* The destructor excuses everybody.                                       *)
LEMMA DeleteKeeps ==
    ASSUME RequestsInv, DeleteMediator
    PROVE  RequestsInv'
  BY DEF RequestsInv, Pointing, Pointers, SectionGivenLast, Served, RequestsEquipped, Equipped,
         Unbroken, Asking, Removing, QueueBehindSection, requestVars, OwnerFree,
         DeleteMediator

(* Every step keeps the invariant.                                         *)
LEMMA NextRequests == RequestsInv /\ [MediatorNext]_mediatorVars => RequestsInv'
<1> SUFFICES ASSUME RequestsInv, [MediatorNext]_mediatorVars PROVE RequestsInv'
  OBVIOUS
<1>1. CASE DeleteMediator
  BY <1>1, DeleteKeeps
<1>2. ASSUME NEW l \in Listeners,
             RequestAction(l) \/ AcquireQueue(l) \/ PushAction(l) \/ ReleaseQueue(l)
      PROVE  RequestsInv'
  BY <1>2, RequestKeeps
<1>3. ASSUME NEW l \in Listeners,
             AddQueue(l) \/ AddSection(l) \/ RemoveQueue(l) \/ RemoveSection(l)
      PROVE  RequestsInv'
  BY <1>3, OwnerKeeps
<1>4. CASE UNCHANGED mediatorVars
  BY <1>4 DEF mediatorVars, RequestsInv, Pointing, SectionGivenLast, Served, RequestsEquipped,
              Equipped, Unbroken, Asking, Removing, QueueBehindSection
<1>5. QED
  BY <1>1, <1>2, <1>3, <1>4 DEF MediatorNext

(* However many listeners ask and however the owner adds them, a request   *)
(* that finds the section finds the queue behind it and gets out again,    *)
(* unless the listener is removed or the mediator deleted meanwhile.       *)
THEOREM RequestsFindQueue == MediatorSafety => []QueueBehindSection
<1>1. RequestsInv => QueueBehindSection
  BY DEF RequestsInv
<1>2. QED
  BY <1>1, InitRequests, NextRequests, PTL DEF MediatorSafety

-----------------------------------------------------------------------------
(* First interaction *)

(* A set of natural numbers that is not empty has a least element.         *)
Below == {ss \in Nat \X Nat : ss[1] < ss[2]}
LEMMA LeastOfNaturals ==
    ASSUME NEW T \in SUBSET Nat, T # {}
    PROVE  Min(T) \in T /\ \A y \in T : Min(T) <= y
<1>1. IsWellFoundedOn(Below, Nat)
  BY NatLessThanWellFounded DEF OpToRel, Below
<1>2. PICK x \in T : \A y \in T : <<y, x>> \notin Below
  BY <1>1, WFMin
<1>3. ASSUME NEW y \in T PROVE x <= y
  <2>1. x \in Nat /\ y \in Nat /\ <<y, x>> \in Nat \X Nat /\ <<y, x>> \notin Below
    BY <1>2
  <2>2. ~(<<y, x>>[1] < <<y, x>>[2])
    BY <2>1 DEF Below
  <2>3. QED
    BY <2>1, <2>2
<1>4. QED
  BY <1>3 DEF Min

(* A string is read up to the first NUL ...                                *)
LEMMA ReadUpToNUL ==
    ASSUME NEW bytes \in Seq(Nat), NEW from \in 1..Len(bytes),
           NEW n \in from..Len(bytes), bytes[n] = NUL
    PROVE  \E m \in from..n :
               /\ CStrings(bytes, from) = {SubSeq(bytes, from, m - 1)}
               /\ bytes[m] = NUL /\ \A i \in from..(m - 1) : bytes[i] # NUL
<1> DEFINE ends == {i \in from..Len(bytes) : bytes[i] = NUL}
           m == Min(ends)
<1>1. Len(bytes) \in Nat /\ from \in Nat \ {0} /\ n \in ends /\ ends \in SUBSET Nat
  BY LenProperties
<1>2. CStrings(bytes, from) = {SubSeq(bytes, from, m - 1)}
  <2>1. ends # {}
    BY <1>1
  <2>2. QED
    BY <2>1, Zenon DEF CStrings
<1>3. m \in ends /\ \A i \in ends : m <= i
  <2> HIDE DEF ends
  <2>1. QED
    BY <1>1, LeastOfNaturals
<1> HIDE DEF m
<1>4. m \in from..n /\ bytes[m] = NUL /\ \A i \in from..(m - 1) : bytes[i] # NUL
  BY <1>1, <1>3
<1>5. QED
  BY <1>2, <1>4

(* Two strings of bytes joined into one.                                    *)
LEMMA JoinedBytes ==
    ASSUME NEW s \in Seq(Nat), NEW u \in Seq(Nat), NEW joined, joined = s \o u
    PROVE  /\ joined \in Seq(Nat) /\ Len(joined) = Len(s) + Len(u)
           /\ \A i \in 1..(Len(s) + Len(u)) :
                 joined[i] = IF i <= Len(s) THEN s[i] ELSE u[i - Len(s)]
  BY ConcatProperties

(* ... and has none: it is empty only if it begins with one.               *)
LEMMA CStringHasNoNUL ==
    ASSUME GuestsAssumption, NEW bytes \in Seq(Nat), NEW from \in 1..Len(bytes),
           NEW str \in CStrings(bytes, from)
    PROVE  /\ str \in Seq(Nat) /\ \A i \in 1..Len(str) : str[i] # NUL
           /\ bytes[from] # NUL => str # <<>>
<1>1. /\ Len(bytes) \in Nat /\ from \in Nat \ {0} /\ FieldSize + 1 \in Nat \ {0}
      /\ \A i \in 1..Len(bytes) : bytes[i] \in Nat
  BY LenProperties, ElementOfSeq DEF GuestsAssumption
<1>2. ASSUME NEW m \in from..Len(bytes), str = SubSeq(bytes, from, m - 1), bytes[m] = NUL,
             \A i \in from..(m - 1) : bytes[i] # NUL
      PROVE  /\ str \in Seq(Nat) /\ \A i \in 1..Len(str) : str[i] # NUL
             /\ bytes[from] # NUL => str # <<>>
  <2>1. /\ str \in Seq(Nat) /\ Len(str) = m - from
        /\ \A i \in 1..(m - from) : str[i] = bytes[from + i - 1]
    <3>1. from \in Int /\ m - 1 \in Int /\ \A i \in from..(m - 1) : bytes[i] \in Nat
      BY <1>1
    <3> DEFINE upTo == m - 1
               sub == SubSeq(bytes, from, upTo)
    <3>2. from \in Int /\ upTo \in Int /\ \A i \in from..upTo : bytes[i] \in Nat
      BY <3>1
    <3> HIDE DEF upTo
    <3>3. /\ sub \in Seq(Nat) /\ Len(sub) = (IF from <= upTo THEN upTo - from + 1 ELSE 0)
          /\ \A i \in 1..(upTo - from + 1) : sub[i] = bytes[from + i - 1]
      BY <3>2, SubSeqProperties
    <3>4. str = sub
      BY <1>2 DEF upTo
    <3> HIDE DEF sub
    <3>5. QED
      BY <1>1, <3>3, <3>4 DEF upTo
  <2>2. \A i \in 1..(m - from) : from + i - 1 \in from..(m - 1)
    BY <1>1
  <2>3. bytes[from] # NUL => Len(str) > 0
    BY <1>1, <1>2, <2>1
  <2>4. ASSUME NEW i \in 1..Len(str) PROVE str[i] # NUL
    <3>1. i \in 1..(m - from) /\ from + i - 1 \in from..(m - 1)
      BY <2>1, <2>2
    <3>2. QED
      BY <1>2, <2>1, <3>1
  <2>5. bytes[from] # NUL => str # <<>>
    BY <2>3, EmptySeq
  <2>6. QED
    BY <2>1, <2>4, <2>5
<1>3. CASE \E n \in from..Len(bytes) : bytes[n] = NUL
  <2>1. PICK m \in from..Len(bytes) :
           /\ CStrings(bytes, from) = {SubSeq(bytes, from, m - 1)}
           /\ bytes[m] = NUL /\ \A i \in from..(m - 1) : bytes[i] # NUL
    <3>1. PICK n \in from..Len(bytes) : bytes[n] = NUL
      BY <1>3
    <3>2. PICK m \in from..n :
             /\ CStrings(bytes, from) = {SubSeq(bytes, from, m - 1)}
             /\ bytes[m] = NUL /\ \A i \in from..(m - 1) : bytes[i] # NUL
      BY <3>1, ReadUpToNUL
    <3>3. m \in from..Len(bytes)
      BY <1>1, <3>1
    <3>4. QED
      BY <3>2, <3>3
  <2>2. QED
    BY <1>2, <2>1
<1>4. CASE \A n \in from..Len(bytes) : bytes[n] # NUL
  <2> DEFINE tail == SubSeq(bytes, from, Len(bytes))
  <2>1. PICK junk : junk \in {<<>>, <<FieldSize + 1>>} /\ str = tail \o junk
    <3>1. {i \in from..Len(bytes) : bytes[i] = NUL} = {}
      BY <1>4
    <3>2. QED
      BY <3>1, Zenon DEF CStrings
  <2>2. junk \in Seq(Nat) /\ Len(junk) \in 0..1 /\ \A i \in 1..Len(junk) : junk[i] # NUL
    <3>1. CASE junk = <<>>
      BY <3>1
    <3>2. CASE junk = <<FieldSize + 1>>
      BY <1>1, <3>2 DEF NUL
    <3>3. QED
      BY <2>1, <3>1, <3>2
  <2>3. /\ tail \in Seq(Nat) /\ Len(tail) = Len(bytes) - from + 1
        /\ \A i \in 1..Len(tail) : tail[i] = bytes[from + i - 1]
    BY <1>1, SubSeqProperties, SMTT(30)
  <2> HIDE DEF tail
  <2>4. ASSUME NEW i \in 1..Len(tail) PROVE tail[i] # NUL
    <3>1. from + i - 1 \in from..Len(bytes)
      BY <1>1, <2>3
    <3>2. QED
      BY <1>4, <2>3, <3>1
  <2>5. /\ str \in Seq(Nat) /\ Len(str) = Len(tail) + Len(junk)
        /\ \A i \in 1..(Len(tail) + Len(junk)) :
              str[i] = IF i <= Len(tail) THEN tail[i] ELSE junk[i - Len(tail)]
    <3>1. tail \in Seq(Nat) /\ junk \in Seq(Nat) /\ str = tail \o junk
      BY <2>1, <2>2, <2>3
    <3>2. QED
      BY <3>1, JoinedBytes
  <2>6. Len(tail) \in Nat \ {0}
    BY <1>1, <2>3
  <2>7. ASSUME NEW i \in 1..Len(str) PROVE str[i] # NUL
    <3>1. CASE i <= Len(tail)
      <4>1. i \in 1..Len(tail) /\ i \in 1..(Len(tail) + Len(junk))
        BY <2>2, <2>5, <2>6, <3>1
      <4>2. str[i] = tail[i]
        BY <2>5, <3>1, <4>1
      <4>3. QED
        BY <2>4, <4>1, <4>2
    <3>2. CASE i > Len(tail)
      <4>1. /\ i - Len(tail) \in 1..Len(junk) /\ i \in 1..(Len(tail) + Len(junk))
            /\ ~(i <= Len(tail))
        BY <2>2, <2>5, <2>6, <3>2
      <4>2. str[i] = junk[i - Len(tail)]
        BY <2>5, <4>1, Zenon
      <4>3. QED
        BY <2>2, <4>1, <4>2
    <3>3. QED
      BY <2>2, <2>5, <2>6, <3>1, <3>2
  <2>8. Len(str) > 0
    BY <2>2, <2>5, <2>6
  <2>9. QED
    BY <2>5, <2>7, <2>8
<1>5. QED
  BY <1>3, <1>4

(* A string with a NUL behind it is read as it is.                         *)
LEMMA CStringIsRead ==
    ASSUME NEW bytes \in Seq(Nat), NEW from \in 1..Len(bytes), NEW t \in Seq(Nat),
           from + Len(t) <= Len(bytes), bytes[from + Len(t)] = NUL,
           \A i \in 1..Len(t) : bytes[from + i - 1] = t[i] /\ t[i] # NUL
    PROVE  CStrings(bytes, from) = {t}
<1>1. /\ Len(bytes) \in Nat /\ from \in Nat \ {0} /\ Len(t) \in Nat
      /\ \A i \in 1..Len(bytes) : bytes[i] \in Nat
  BY LenProperties, ElementOfSeq
<1>2. PICK m \in from..(from + Len(t)) :
         CStrings(bytes, from) = {SubSeq(bytes, from, m - 1)} /\ bytes[m] = NUL
  <2>1. from + Len(t) \in from..Len(bytes)
    BY <1>1
  <2>2. QED
    BY <2>1, ReadUpToNUL, ZenonT(60)
<1>3. m = from + Len(t)
  <2> SUFFICES ASSUME m # from + Len(t) PROVE FALSE
    OBVIOUS
  <2>1. m - from + 1 \in 1..Len(t) /\ from + (m - from + 1) - 1 = m
    BY <1>1
  <2>2. QED
    BY <1>2, <2>1
<1> DEFINE str == SubSeq(bytes, from, m - 1)
<1>4. /\ str \in Seq(Nat) /\ Len(str) = Len(t)
      /\ \A i \in 1..Len(t) : str[i] = bytes[from + i - 1]
  <2>1. m - 1 \in Int /\ from \in Int /\ \A i \in from..(m - 1) : bytes[i] \in Nat
    BY <1>1, <1>3
  <2>2. /\ str \in Seq(Nat) /\ Len(str) = IF from <= m - 1 THEN m - 1 - from + 1 ELSE 0
        /\ \A i \in 1..(m - 1 - from + 1) : str[i] = bytes[from + i - 1]
    BY <2>1, SubSeqProperties
  <2> HIDE DEF str
  <2>3. QED
    BY <1>1, <1>3, <2>2
<1>5. str = t
  <2> HIDE DEF str
  <2>1. \A i \in 1..Len(str) : str[i] = t[i]
    BY <1>4
  <2>2. QED
    BY <1>4, <2>1, SeqEqual
<1>6. QED
  BY <1>2, <1>5

(* The bytes of a structure, field by field.                               *)
LEMMA FieldIsSequence ==
    ASSUME GuestsAssumption, NEW t \in Seq(Nat)
    PROVE  Field(t) \in Seq(Nat) /\ Len(Field(t)) = FieldSize
<1>1. FieldSize \in Nat /\ Field(t) \in [1..FieldSize -> Nat]
  BY LenProperties, ElementOfSeq DEF GuestsAssumption, Field, NUL
<1> HIDE DEF Field
<1>2. Field(t) \in Seq(Nat)
  BY <1>1, SeqDef
<1>3. QED
  BY <1>1, <1>2, LenProperties

LEMMA ConcatOf ==
    ASSUME NEW a \in Seq(Nat), NEW b \in Seq(Nat)
    PROVE  /\ a \o b \in Seq(Nat) /\ Len(a \o b) = Len(a) + Len(b)
           /\ \A i \in 1..Len(a) : (a \o b)[i] = a[i]
           /\ \A i \in 1..Len(b) : (a \o b)[Len(a) + i] = b[i]
<1>1. /\ Len(a) \in Nat /\ Len(b) \in Nat
      /\ a \o b \in Seq(Nat) /\ Len(a \o b) = Len(a) + Len(b)
      /\ \A i \in 1..(Len(a) + Len(b)) :
            (a \o b)[i] = IF i <= Len(a) THEN a[i] ELSE b[i - Len(a)]
  BY ConcatProperties, LenProperties
<1>2. \A i \in 1..Len(a) : i \in 1..(Len(a) + Len(b)) /\ i <= Len(a)
  BY <1>1
<1>3. \A i \in 1..Len(b) :
        Len(a) + i \in 1..(Len(a) + Len(b)) /\ ~(Len(a) + i <= Len(a)) /\ Len(a) + i - Len(a) = i
  BY <1>1
<1>4. QED
  BY <1>1, <1>2, <1>3

LEMMA StructureBytes ==
    ASSUME GuestsAssumption, NEW c \in Clients
    PROVE  /\ Structure(c) \in Seq(Nat) /\ Len(Structure(c)) = 3 * FieldSize + 4
           /\ \A i \in 1..FieldSize :
                 /\ Structure(c)[i] = Field(c.roomName)[i]
                 /\ Structure(c)[2 * FieldSize + i] = Field(c.roomPassword)[i]
           /\ Structure(c)[3 * FieldSize + 4] = IF c.isHost THEN 1 ELSE NUL
<1> DEFINE F == FieldSize
           r == Field(c.roomName)
           n == Field(c.name)
           w == Field(c.roomPassword)
           l == <<Len(c.name), Len(c.roomName), Len(c.roomPassword),
                  IF c.isHost THEN 1 ELSE NUL>>
<1>1. /\ F \in Nat \ {0} /\ c.roomName \in Seq(Nat) /\ c.name \in Seq(Nat)
      /\ c.roomPassword \in Seq(Nat) /\ c.isHost \in BOOLEAN
  BY DEF GuestsAssumption
<1>2. /\ r \in Seq(Nat) /\ n \in Seq(Nat) /\ w \in Seq(Nat)
      /\ Len(r) = F /\ Len(n) = F /\ Len(w) = F
  BY <1>1, FieldIsSequence
<1>3. l \in Seq(Nat) /\ Len(l) = 4 /\ l[4] = IF c.isHost THEN 1 ELSE NUL
  <2>1. Len(c.name) \in Nat /\ Len(c.roomName) \in Nat /\ Len(c.roomPassword) \in Nat
    BY <1>1, LenProperties
  <2>2. (IF c.isHost THEN 1 ELSE NUL) \in Nat
    BY DEF NUL
  <2>3. QED
    BY <2>1, <2>2
<1> DEFINE rn == r \o n
           rnw == rn \o w
           all == rnw \o l
<1>4. Structure(c) = all
  BY DEF Structure
<1> HIDE DEF F, r, n, w, l
<1>5. rn \in Seq(Nat) /\ Len(rn) = F + F /\ \A i \in 1..F : rn[i] = r[i]
  <2>1. /\ rn \in Seq(Nat) /\ Len(rn) = Len(r) + Len(n)
        /\ \A i \in 1..Len(r) : rn[i] = r[i]
    BY <1>2, ConcatOf
  <2> HIDE DEF rn
  <2>2. QED
    BY <1>2, <2>1
<1> HIDE DEF rn
<1>6. F + F \in Nat /\ F + F + F \in Nat
  BY <1>1
<1>7. /\ rnw \in Seq(Nat) /\ Len(rnw) = F + F + F
      /\ \A i \in 1..(F + F) : rnw[i] = rn[i]
      /\ \A i \in 1..F : rnw[F + F + i] = w[i]
  <2>1. rn \in Seq(Nat) /\ w \in Seq(Nat) /\ Len(rn) = F + F /\ Len(w) = F
    BY <1>2, <1>5
  <2>2. /\ rnw \in Seq(Nat) /\ Len(rnw) = Len(rn) + Len(w)
        /\ \A i \in 1..Len(rn) : rnw[i] = rn[i]
        /\ \A i \in 1..Len(w) : rnw[Len(rn) + i] = w[i]
    BY <2>1, ConcatOf
  <2> HIDE DEF rnw
  <2>3. QED
    BY <1>6, <2>1, <2>2
<1> HIDE DEF rnw
<1>8. /\ all \in Seq(Nat) /\ Len(all) = F + F + F + 4
      /\ \A i \in 1..(F + F + F) : all[i] = rnw[i]
      /\ \A i \in 1..4 : all[F + F + F + i] = l[i]
  <2>1. rnw \in Seq(Nat) /\ l \in Seq(Nat) /\ Len(rnw) = F + F + F /\ Len(l) = 4
    BY <1>3, <1>7
  <2>2. /\ all \in Seq(Nat) /\ Len(all) = Len(rnw) + Len(l)
        /\ \A i \in 1..Len(rnw) : all[i] = rnw[i]
        /\ \A i \in 1..Len(l) : all[Len(rnw) + i] = l[i]
    BY <2>1, ConcatOf
  <2> HIDE DEF all
  <2>3. QED
    BY <1>6, <2>1, <2>2
<1> HIDE DEF all
<1>9. ASSUME NEW i \in 1..F PROVE all[i] = r[i] /\ all[F + F + i] = w[i]
  <2>1. i \in 1..(F + F) /\ i \in 1..(F + F + F) /\ F + F + i \in 1..(F + F + F)
    BY <1>1
  <2>2. QED
    BY <1>5, <1>7, <1>8, <2>1
<1>10. all[F + F + F + 4] = l[4]
  BY <1>8
<1>11. F + F = 2 * F /\ F + F + F = 3 * F
  BY <1>1
<1>12. QED
  BY <1>3, <1>4, <1>8, <1>9, <1>10, <1>11 DEF F, r, w

(* A name that leaves room for the NUL is read as it was typed.            *)
LEMMA ShortNamesAreRead ==
    ASSUME GuestsAssumption, NEW c \in Clients,
           Len(c.roomName) < FieldSize, Len(c.roomPassword) < FieldSize
    PROVE  /\ CStrings(Structure(c), 1) = {c.roomName}
           /\ CStrings(Structure(c), 2 * FieldSize + 1) = {c.roomPassword}
<1> DEFINE b == Structure(c)
           F == FieldSize
           G == 2 * FieldSize
<1>1. /\ F \in Nat \ {0} /\ G \in Nat /\ G + F <= 3 * F
      /\ c.roomName \in Seq(Nat) /\ c.roomPassword \in Seq(Nat)
  BY DEF GuestsAssumption
<1>2. /\ b \in Seq(Nat) /\ Len(b) = 3 * F + 4
      /\ \A i \in 1..F : b[0 + i] = Field(c.roomName)[i] /\ b[G + i] = Field(c.roomPassword)[i]
  <2>1. \A i \in 1..F : 0 + i = i
    BY <1>1
  <2> HIDE DEF F
  <2>2. /\ b \in Seq(Nat) /\ Len(b) = 3 * F + 4
        /\ \A i \in 1..F : b[i] = Field(c.roomName)[i] /\ b[G + i] = Field(c.roomPassword)[i]
    BY StructureBytes DEF F
  <2>3. QED
    BY <2>1, <2>2
<1> HIDE DEF b, G
<1>3. ASSUME NEW t \in {c.roomName, c.roomPassword}, NEW off \in Nat, off + F <= 3 * F,
             Len(t) < F, \A i \in 1..F : b[off + i] = Field(t)[i]
      PROVE  CStrings(b, off + 1) = {t}
  <2>1. /\ t \in Seq(Nat) /\ Len(t) \in Nat
        /\ \A i \in 1..Len(t) : t[i] \in Nat /\ t[i] # NUL
    <3>1. t \in Seq(Nat)
      BY <1>1
    <3>2. \A i \in 1..Len(t) : t[i] > FieldSize
      BY DEF GuestsAssumption
    <3>3. QED
      BY <1>1, <3>1, <3>2, LenProperties, ElementOfSeq, SMTT(30) DEF NUL
  <2>2. \A i \in 1..F : Field(t)[i] = IF i <= Len(t) THEN t[i] ELSE NUL
    BY DEF Field
  <2> HIDE DEF F
  <2>3. off + 1 \in 1..Len(b) /\ off + 1 + Len(t) <= Len(b)
    <3>1. F \in Nat /\ off \in Nat /\ Len(t) \in Nat /\ Len(b) = 3 * F + 4
      BY <1>1, <1>2, <1>3, <2>1
    <3>2. off + F <= 3 * F /\ Len(t) < F
      BY <1>3
    <3>3. QED
      BY <3>1, <3>2
  <2>4. b[off + 1 + Len(t)] = NUL
    <3>1. Len(t) + 1 \in 1..F /\ off + 1 + Len(t) = off + (Len(t) + 1)
      <4>1. Len(t) \in Nat /\ Len(t) < F /\ F \in Nat /\ off \in Nat
        BY <1>1, <1>3, <2>1
      <4>2. QED
        BY <4>1
    <3>2. QED
      BY <1>3, <2>1, <2>2, <3>1, SMTT(30)
  <2>5. ASSUME NEW i \in 1..Len(t) PROVE b[off + 1 + i - 1] = t[i]
    <3>1. i \in 1..F /\ i <= Len(t) /\ off + 1 + i - 1 = off + i
      BY <1>1, <1>3, <2>1
    <3>2. QED
      BY <1>3, <2>2, <3>1
  <2>6. \A i \in 1..Len(t) : b[off + 1 + i - 1] = t[i] /\ t[i] # NUL
    BY <2>1, <2>5
  <2>7. b \in Seq(Nat) /\ t \in Seq(Nat)
    BY <1>2, <2>1
  <2>8. QED
    BY <2>3, <2>4, <2>6, <2>7, CStringIsRead
<1>4. CStrings(b, 0 + 1) = {c.roomName}
  <2>1. 0 + F <= 3 * F
    BY <1>1
  <2>2. QED
    BY <1>2, <1>3, <2>1
<1>5. CStrings(b, G + 1) = {c.roomPassword}
  BY <1>1, <1>2, <1>3
<1>6. QED
  BY <1>4, <1>5 DEF b, G

(* What a handler knows comes from the answer as long as the peer is       *)
(* there, and is nothing when the answer never came.                       *)
Idents == [roomName : Seq(Nat), roomPassword : Seq(Nat), isHost : BOOLEAN]
Unknown == [roomName |-> <<>>, roomPassword |-> <<>>, isHost |-> FALSE]
NoNULs(id) ==
    /\ \A i \in 1..Len(id.roomName) : id.roomName[i] # NUL
    /\ \A i \in 1..Len(id.roomPassword) : id.roomPassword[i] # NUL
ReadFrom(id, bytes) ==
    /\ id.roomName \in CStrings(bytes, 1)
    /\ id.roomPassword \in CStrings(bytes, 2 * FieldSize + 1)
    /\ id.isHost = (bytes[3 * FieldSize + 4] # NUL)

GInv ==
    /\ guest \in [Guests -> {"start", "typed", "answered", "gone"}]
    /\ typed \in [Guests -> Clients \cup {<<>>}]
    /\ answer \in [Guests -> {Structure(c) : c \in Clients} \cup {<<>>}]
    /\ idRes \in [Guests -> Idents \cup {<<>>}] /\ asked \subseteq Guests
    /\ \A g \in Guests : guest[g] \in {"typed", "answered"} => typed[g] \in Clients
    /\ \A g \in Guests : guest[g] = "answered" =>
          answer[g] = Structure(typed[g]) /\ ~TooLong(typed[g])
    /\ \A g \in Guests : idRes[g] # <<>> =>
          /\ idRes[g] \in Idents /\ NoNULs(idRes[g])
          /\ \/ guest[g] = "answered" /\ ReadFrom(idRes[g], answer[g])
             \/ guest[g] = "gone" /\ idRes[g] = Unknown

LEMMA InitGInv == GuestsInit => GInv
  BY DEF GuestsInit, GInv

(* What is read of an answer.                                              *)
LEMMA AnswerIsRead ==
    ASSUME GuestsAssumption, NEW c \in Clients,
           NEW room \in CStrings(Structure(c), 1),
           NEW pass \in CStrings(Structure(c), 2 * FieldSize + 1)
    PROVE  /\ room \in Seq(Nat) /\ pass \in Seq(Nat) /\ room # <<>>
           /\ \A i \in 1..Len(room) : room[i] # NUL
           /\ \A i \in 1..Len(pass) : pass[i] # NUL
<1> DEFINE b == Structure(c)
<1>1. FieldSize \in Nat \ {0} /\ c.roomName \in Seq(Nat)
  BY DEF GuestsAssumption
<1>2. b \in Seq(Nat) /\ Len(b) = 3 * FieldSize + 4 /\ b[1] = Field(c.roomName)[1]
  <2>1. 1 \in 1..FieldSize
    BY <1>1
  <2>2. QED
    BY <2>1, StructureBytes
<1>3. b[1] # NUL
  <2>1. Len(c.roomName) \in Nat \ {0} /\ c.roomName[1] > FieldSize /\ c.roomName[1] \in Nat
    <3>1. c.roomName # <<>> /\ \A i \in 1..Len(c.roomName) : c.roomName[i] > FieldSize
      BY DEF GuestsAssumption
    <3>2. Len(c.roomName) \in Nat \ {0}
      BY <1>1, <3>1, EmptySeq
    <3>3. 1 \in 1..Len(c.roomName)
      BY <3>2
    <3>4. QED
      BY <1>1, <3>1, <3>2, <3>3, ElementOfSeq
  <2>2. Field(c.roomName)[1] = c.roomName[1]
    BY <1>1, <2>1 DEF Field
  <2>3. QED
    BY <1>1, <1>2, <2>1, <2>2, SMTT(30) DEF NUL
<1> HIDE DEF b
<1>4. 1 \in 1..Len(b) /\ 2 * FieldSize + 1 \in 1..Len(b)
  BY <1>1, <1>2
<1>5. room \in CStrings(b, 1) /\ pass \in CStrings(b, 2 * FieldSize + 1)
  BY DEF b
<1> DEFINE from == 2 * FieldSize + 1
<1>6. /\ room \in Seq(Nat) /\ room # <<>>
      /\ \A i \in 1..Len(room) : room[i] # NUL
  <2>1. b \in Seq(Nat) /\ 1 \in 1..Len(b) /\ room \in CStrings(b, 1)
    BY <1>2, <1>4, <1>5
  <2>2. \A x \in 1..Len(b) : \A str \in CStrings(b, x) :
          /\ str \in Seq(Nat) /\ \A i \in 1..Len(str) : str[i] # NUL
          /\ b[x] # NUL => str # <<>>
    BY <2>1, CStringHasNoNUL, GuestsAssumption
  <2>3. QED
    BY <1>3, <2>1, <2>2, Zenon
<1>7. pass \in Seq(Nat) /\ \A i \in 1..Len(pass) : pass[i] # NUL
  <2>1. b \in Seq(Nat) /\ from \in 1..Len(b) /\ pass \in CStrings(b, from)
    BY <1>2, <1>4, <1>5
  <2> HIDE DEF from
  <2>2. QED
    BY <2>1, CStringHasNoNUL, GuestsAssumption, SMTT(30)
<1>8. QED
  BY <1>6, <1>7

LEMMA EmptyIsNoIdent == \A id \in Idents : id # <<>>
<1> SUFFICES ASSUME NEW id \in Idents PROVE id # <<>>
  OBVIOUS
<1>1. "isHost" \in DOMAIN id /\ DOMAIN <<>> = {}
  BY DEF Idents
<1>2. QED
  BY <1>1

LEMMA NextGInv == GInv /\ [GuestsNext]_guestVars => GInv'
<1> SUFFICES ASSUME GInv, [GuestsNext]_guestVars PROVE GInv'
  OBVIOUS
<1>1. CASE UNCHANGED guestVars
  BY <1>1 DEF guestVars, GInv
<1>2. ASSUME NEW g \in Guests, Type(g) PROVE GInv'
  BY <1>2 DEF GInv, Type, Become
<1>3. ASSUME NEW g \in Guests, Refuse(g) PROVE GInv'
  BY <1>3 DEF GInv, Refuse, Become
<1>4. ASSUME NEW g \in Guests, Answer(g) PROVE GInv'
  BY <1>4 DEF GInv, Answer, Become
<1>5. ASSUME NEW g \in Guests, BreakDown(g) PROVE GInv'
  BY <1>5 DEF GInv, BreakDown, Become
<1>6. ASSUME NEW g \in Guests, SendEmpty(g) PROVE GInv'
  BY <1>6 DEF GInv, SendEmpty
<1>7. ASSUME NEW g \in Guests, ReadAnswer(g) PROVE GInv'
  <2>1. /\ UNCHANGED <<guest, typed, answer, asked>>
        /\ \E id \in Idents : idRes' = [idRes EXCEPT ![g] = id] /\ NoNULs(id)
              /\ \/ guest[g] = "answered" /\ ReadFrom(id, answer[g])
                 \/ guest[g] = "gone" /\ id = Unknown
    <3>1. CASE guest[g] = "answered"
      <4>1. PICK room \in CStrings(answer[g], 1),
                 pass \in CStrings(answer[g], 2 * FieldSize + 1) :
               idRes' = [idRes EXCEPT ![g] = [roomName |-> room, roomPassword |-> pass,
                                              isHost |-> answer[g][3 * FieldSize + 4] # NUL]]
        BY <1>7, <3>1 DEF ReadAnswer
      <4> DEFINE id == [roomName |-> room, roomPassword |-> pass,
                        isHost |-> answer[g][3 * FieldSize + 4] # NUL]
      <4>2. typed[g] \in Clients /\ answer[g] = Structure(typed[g])
        BY <3>1 DEF GInv
      <4>3. /\ room \in Seq(Nat) /\ pass \in Seq(Nat)
            /\ \A i \in 1..Len(room) : room[i] # NUL
            /\ \A i \in 1..Len(pass) : pass[i] # NUL
        BY <4>2, AnswerIsRead, GuestsAssumption
      <4>4. id \in Idents /\ NoNULs(id) /\ ReadFrom(id, answer[g])
        BY <4>3 DEF Idents, NoNULs, ReadFrom
      <4>5. QED
        BY <1>7, <3>1, <4>1, <4>4 DEF ReadAnswer
    <3>2. CASE guest[g] = "gone"
      <4>1. idRes' = [idRes EXCEPT ![g] = Unknown]
        BY <1>7, <3>2 DEF ReadAnswer, Unknown
      <4>2. Unknown \in Idents /\ NoNULs(Unknown)
        BY EmptySeq DEF Unknown, Idents, NoNULs
      <4>3. QED
        BY <1>7, <3>2, <4>1, <4>2 DEF ReadAnswer
    <3>3. QED
      BY <1>7, <3>1, <3>2 DEF ReadAnswer
  <2>2. PICK id \in Idents :
          /\ idRes' = [idRes EXCEPT ![g] = id] /\ NoNULs(id)
          /\ \/ guest[g] = "answered" /\ ReadFrom(id, answer[g])
             \/ guest[g] = "gone" /\ id = Unknown
    BY <2>1
  <2> HIDE DEF Idents, NoNULs, ReadFrom, Unknown
  <2>3. idRes' \in [Guests -> Idents \cup {<<>>}]
    BY <2>2 DEF GInv
  <2>4. ASSUME NEW k \in Guests, idRes'[k] # <<>>
        PROVE  /\ idRes'[k] \in Idents /\ NoNULs(idRes'[k])
               /\ \/ guest'[k] = "answered" /\ ReadFrom(idRes'[k], answer'[k])
                  \/ guest'[k] = "gone" /\ idRes'[k] = Unknown
    <3>1. idRes'[k] = IF k = g THEN id ELSE idRes[k]
      BY <2>2 DEF GInv
    <3>2. CASE k = g
      <4>1. idRes'[k] = id /\ guest'[k] = guest[g] /\ answer'[k] = answer[g]
        BY <2>1, <3>1, <3>2
      <4>2. QED
        BY <2>2, <4>1
    <3>3. CASE k # g
      <4>1. idRes'[k] = idRes[k] /\ guest'[k] = guest[k] /\ answer'[k] = answer[k]
        BY <2>1, <3>1, <3>3
      <4>2. QED
        BY <2>4, <4>1 DEF GInv
    <3>4. QED
      BY <3>2, <3>3
  <2>5. \A k \in Guests : idRes'[k] # <<>> =>
          /\ idRes'[k] \in Idents /\ NoNULs(idRes'[k])
          /\ \/ guest'[k] = "answered" /\ ReadFrom(idRes'[k], answer'[k])
             \/ guest'[k] = "gone" /\ idRes'[k] = Unknown
    BY <2>4
  <2>6. QED
    BY <2>1, <2>3, <2>5 DEF GInv
<1>8. QED
  BY <1>1, <1>2, <1>3, <1>4, <1>5, <1>6, <1>7 DEF GuestsNext

(* Two answers that leave room for their NULs admit one another exactly if *)
(* their users typed the same room; an answer that never came, nobody.     *)
LEMMA GInvRooms == GInv => RoomsMeet
<1> SUFFICES ASSUME GInv PROVE RoomsMeet
  OBVIOUS
<1>1. ASSUME NEW g \in Guests, Identified(g)
      PROVE  /\ typed[g] \in Clients /\ answer[g] = Structure(typed[g])
             /\ idRes[g] \in Idents /\ ReadFrom(idRes[g], answer[g])
  BY <1>1 DEF GInv, Identified
<1>2. ASSUME NEW g \in Guests, Identified(g), Short(g)
      PROVE  /\ idRes[g].roomName = typed[g].roomName
             /\ idRes[g].roomPassword = typed[g].roomPassword
             /\ idRes[g].isHost = typed[g].isHost
  <2>1. /\ CStrings(Structure(typed[g]), 1) = {typed[g].roomName}
        /\ CStrings(Structure(typed[g]), 2 * FieldSize + 1) = {typed[g].roomPassword}
    BY <1>1, <1>2, ShortNamesAreRead, GuestsAssumption DEF Short
  <2>2. Structure(typed[g])[3 * FieldSize + 4] = IF typed[g].isHost THEN 1 ELSE NUL
    BY <1>1, <1>2, StructureBytes, GuestsAssumption
  <2>3. typed[g].isHost \in BOOLEAN
    <3>1. \A c \in Clients : c.isHost \in BOOLEAN
      BY GuestsAssumption DEF GuestsAssumption
    <3>2. QED
      BY <1>1, <1>2, <3>1
  <2>4. QED
    BY <1>1, <1>2, <2>1, <2>2, <2>3 DEF ReadFrom, NUL
<1>3. ASSUME NEW h \in Guests, NEW c \in Guests, Identified(h), idRes[c] # <<>>,
             guest[c] = "gone"
      PROVE  ~Admits(h, c)
  <2>1. idRes[c].roomName = <<>>
    BY <1>3 DEF GInv, Unknown
  <2>2. idRes[h].roomName # <<>>
    <3>1. /\ idRes[h].roomName \in CStrings(Structure(typed[h]), 1)
          /\ idRes[h].roomPassword \in CStrings(Structure(typed[h]), 2 * FieldSize + 1)
          /\ typed[h] \in Clients
      BY <1>1, <1>3 DEF ReadFrom
    <3>2. QED
      BY <3>1, AnswerIsRead, GuestsAssumption
  <2>3. QED
    BY <2>1, <2>2 DEF Admits
<1>4. QED
  BY <1>2, <1>3 DEF RoomsMeet, Admits

(* Whatever users type, and whatever their peers are called: who types a   *)
(* host's room and password finds that host and nobody else does, as long  *)
(* as the names leave room for the NUL of their field.                     *)
THEOREM RoomsAreFound == GuestsSpec => []RoomsMeet
<1>1. QED
  BY InitGInv, NextGInv, GInvRooms, PTL DEF GuestsSpec

-----------------------------------------------------------------------------
(* Input events                                                            *)

Messages == MouseMessages \cup KeyMessages
Packets == [type : {"mouse", "keyboard"}, flags : SUBSET Flags,
            of : 1..MaxEvents \cup {Garbage}]
FlagsOf(m) == IF Device(m) = "mouse" THEN MouseFilter(m) \cup {"ABSOLUTE"}
              ELSE KeyboardFilter(m)

EventsTyped ==
    /\ senderRuns \in BOOLEAN
    /\ window \in {"kbd", "mouse", "loop", "quit", "over"}
    /\ installed \subseteq {"mouse", "keyboard"}
    /\ callback \in 0..MaxEvents
    /\ eventQueue \in Seq(HookData)
    /\ data = <<>> \/ data \in HookData
    /\ flags \subseteq Flags
    /\ hooked \in Seq(Messages) /\ Len(hooked) <= MaxEvents
    /\ sent \in Seq(Packets)

(* The event in the sender's hand comes after those that were sent, those  *)
(* in the queue come after it, and nothing else was hooked.                *)
InHand == IF data = <<>> THEN 0 ELSE 1
InOrder ==
    /\ Len(sent) + InHand + Len(eventQueue) = Len(hooked)
    /\ data # <<>> => data = [wParam |-> hooked[Len(sent) + 1], lParam |-> Len(sent) + 1]
    /\ \A i \in 1..Len(eventQueue) :
          eventQueue[i] = [wParam |-> hooked[Len(sent) + InHand + i],
                           lParam |-> Len(sent) + InHand + i]
SentRight ==
    \A i \in 1..Len(sent) :
        sent[i].type = Device(hooked[i]) /\ sent[i].flags = FlagsOf(hooked[i])

EInv == EventsTyped /\ InOrder /\ SentRight

LEMMA InitEInv == EventsInit => EInv
<1> SUFFICES ASSUME EventsInit PROVE EInv
  OBVIOUS
<1>1. Len(<<>>) = 0 /\ MaxEvents \in Nat
  BY EventsAssumption DEF EventsAssumption
<1>2. EventsTyped
  BY <1>1, EmptySeq DEF EventsInit, EventsTyped
<1>3. InOrder /\ SentRight
  BY <1>1 DEF EventsInit, InOrder, SentRight, InHand
<1>4. QED
  BY <1>2, <1>3 DEF EInv

(* The viewer's switches say what the library's filters say, and never use *)
(* the flags of the event before.                                          *)
LEMMA FlagsAgree ==
    \A m \in Messages :
        /\ (IF Device(m) = "mouse" THEN MouseFlags(m) ELSE KeyFlags(m)) = FlagsOf(m)
        /\ FlagsOf(m) \subseteq Flags /\ Device(m) \in {"mouse", "keyboard"}
<1>1. ASSUME NEW m \in MouseMessages
      PROVE  /\ Device(m) = "mouse" /\ MouseFlags(m) = MouseFilter(m) \cup {"ABSOLUTE"}
             /\ MouseFilter(m) \cup {"ABSOLUTE"} \subseteq Flags
  BY DEF MouseMessages, Device, MouseFlags, MouseFilter, Flags
<1>2. ASSUME NEW m \in KeyMessages
      PROVE  /\ Device(m) = "keyboard" /\ KeyFlags(m) = KeyboardFilter(m)
             /\ KeyboardFilter(m) \subseteq Flags
  BY DEF KeyMessages, MouseMessages, Device, KeyFlags, KeyboardFilter, Flags
<1>3. ASSUME NEW m \in Messages
      PROVE  /\ (IF Device(m) = "mouse" THEN MouseFlags(m) ELSE KeyFlags(m)) = FlagsOf(m)
             /\ FlagsOf(m) \subseteq Flags /\ Device(m) \in {"mouse", "keyboard"}
  <2>1. CASE m \in MouseMessages
    BY <1>1, <2>1 DEF FlagsOf
  <2>2. CASE m \in KeyMessages
    BY <1>2, <2>2 DEF FlagsOf
  <2>3. QED
    BY <1>3, <2>1, <2>2 DEF Messages
<1>4. QED
  BY <1>3

LEMMA HookKeeps == \A m \in Messages : EInv /\ HookCallback(m) => EInv'
<1> SUFFICES ASSUME NEW m \in Messages, EInv, HookCallback(m) PROVE EInv'
  OBVIOUS
<1> DEFINE n == Len(hooked)
           q == Len(eventQueue)
           e == [wParam |-> m, lParam |-> n + 1]
<1>1. /\ n \in Nat /\ q \in Nat /\ Len(sent) \in Nat /\ InHand \in {0, 1}
      /\ n < MaxEvents /\ MaxEvents \in Nat /\ Len(sent) + InHand + q = n
      /\ hooked \in Seq(Messages) /\ eventQueue \in Seq(HookData)
  BY EventsAssumption, LenProperties
     DEF EInv, EventsTyped, InOrder, InHand, HookCallback, EventsAssumption
<1>2. /\ hooked' = Append(hooked, m) /\ eventQueue' = Append(eventQueue, e)
      /\ callback' = n + 1
      /\ UNCHANGED <<senderRuns, window, installed, data, flags, sent>>
  BY DEF HookCallback
<1>3. e \in HookData
  BY <1>1 DEF HookData, Messages
<1>4. /\ hooked' \in Seq(Messages) /\ Len(hooked') = n + 1
      /\ hooked'[n + 1] = m /\ \A i \in 1..n : hooked'[i] = hooked[i]
  BY <1>1, <1>2, AppendProperties
<1>5. /\ eventQueue' \in Seq(HookData) /\ Len(eventQueue') = q + 1
      /\ eventQueue'[q + 1] = e /\ \A i \in 1..q : eventQueue'[i] = eventQueue[i]
  BY <1>1, <1>2, <1>3, AppendProperties
<1>6. EventsTyped'
  <2>1. callback' \in 0..MaxEvents /\ Len(hooked') <= MaxEvents
    BY <1>1, <1>2, <1>4
  <2>2. QED
    BY <1>2, <1>4, <1>5, <2>1 DEF EInv, EventsTyped
<1>7. InOrder'
  <2>1. InHand' = InHand /\ sent' = sent /\ data' = data
    BY <1>2 DEF InHand
  <2>2. Len(sent') + InHand' + Len(eventQueue') = Len(hooked')
    <3>1. Len(sent) + InHand + q = n /\ Len(sent') = Len(sent) /\ InHand' = InHand
      BY <1>1, <2>1
    <3>2. Len(sent) \in Nat /\ InHand \in Nat /\ q \in Nat /\ n \in Nat
      BY <1>1
    <3>3. Len(hooked') = n + 1 /\ Len(eventQueue') = q + 1
      BY <1>4, <1>5
    <3> HIDE DEF n, q
    <3>4. QED
      BY <3>1, <3>2, <3>3
  <2>3. ASSUME data' # <<>>
        PROVE  data' = [wParam |-> hooked'[Len(sent') + 1], lParam |-> Len(sent') + 1]
    <3>1. InHand = 1 /\ Len(sent) + 1 \in 1..n
      BY <1>1, <2>1, <2>3 DEF InHand
    <3>2. QED
      BY <1>4, <2>1, <2>3, <3>1 DEF EInv, InOrder
  <2>4. ASSUME NEW i \in 1..Len(eventQueue')
        PROVE  eventQueue'[i] = [wParam |-> hooked'[Len(sent') + InHand' + i],
                                 lParam |-> Len(sent') + InHand' + i]
    <3>1. CASE i = q + 1
      <4>1. Len(sent') + InHand' + i = n + 1
        BY <1>1, <2>1, <3>1
      <4>2. QED
        BY <1>4, <1>5, <3>1, <4>1
    <3>2. CASE i \in 1..q
      <4>1. Len(sent) + InHand + i \in 1..n
        BY <1>1, <3>2
      <4>2. eventQueue[i] = [wParam |-> hooked[Len(sent) + InHand + i],
                             lParam |-> Len(sent) + InHand + i]
        BY <3>2 DEF EInv, InOrder
      <4>3. QED
        BY <1>4, <1>5, <2>1, <3>2, <4>1, <4>2
    <3>3. QED
      BY <1>1, <1>5, <3>1, <3>2
  <2>5. QED
    BY <2>2, <2>3, <2>4 DEF InOrder
<1>8. SentRight'
  <2>1. \A i \in 1..Len(sent) : i \in 1..n
    BY <1>1
  <2>2. QED
    BY <1>2, <1>4, <2>1 DEF EInv, SentRight
<1>9. QED
  BY <1>6, <1>7, <1>8 DEF EInv

LEMMA NoEventIsEmpty == \A e \in HookData : e # <<>>
<1> SUFFICES ASSUME NEW e \in HookData PROVE e # <<>>
  OBVIOUS
<1>1. "wParam" \in DOMAIN e /\ DOMAIN <<>> = {}
  BY DEF HookData
<1>2. QED
  BY <1>1

LEMMA PopKeeps == EInv /\ SenderPop => EInv'
<1> SUFFICES ASSUME EInv, SenderPop PROVE EInv'
  OBVIOUS
<1> DEFINE q == Len(eventQueue)
           k == Len(sent)
<1>1. /\ data = <<>> /\ eventQueue # <<>>
      /\ data' = Head(eventQueue) /\ eventQueue' = Tail(eventQueue)
      /\ UNCHANGED <<senderRuns, window, installed, callback, flags, hooked, sent>>
  BY DEF SenderPop
<1>2. /\ eventQueue \in Seq(HookData) /\ q \in Nat \ {0} /\ k \in Nat
      /\ k + q = Len(hooked)
  <2>1. eventQueue \in Seq(HookData) /\ k \in Nat /\ k + InHand + q = Len(hooked)
    BY LenProperties DEF EInv, EventsTyped, InOrder
  <2>2. InHand = 0 /\ q \in Nat \ {0}
    BY <1>1, <2>1, EmptySeq, LenProperties DEF InHand
  <2>3. QED
    BY <2>1, <2>2
<1>3. /\ data' = eventQueue[1] /\ data' \in HookData /\ data' # <<>>
      /\ eventQueue' \in Seq(HookData) /\ Len(eventQueue') = q - 1
      /\ \A i \in 1..(q - 1) : eventQueue'[i] = eventQueue[i + 1]
  <2>1. Head(eventQueue) = eventQueue[1] /\ Head(eventQueue) \in HookData
    BY <1>1, <1>2, HeadTailProperties, ElementOfSeq
  <2>2. /\ Tail(eventQueue) \in Seq(HookData) /\ Len(Tail(eventQueue)) = q - 1
        /\ \A i \in 1..(q - 1) : Tail(eventQueue)[i] = eventQueue[i + 1]
    BY <1>1, <1>2, HeadTailProperties
  <2>3. QED
    BY <1>1, <2>1, <2>2, NoEventIsEmpty
<1>4. EventsTyped'
  BY <1>1, <1>3 DEF EInv, EventsTyped
<1>5. \A i \in 1..q : eventQueue[i] = [wParam |-> hooked[k + i], lParam |-> k + i]
  <2>1. \A i \in 1..q : k + 0 + i = k + i
    BY <1>2
  <2>2. QED
    BY <1>1, <2>1 DEF EInv, InOrder, InHand
<1>6. InHand' = 1
  BY <1>3 DEF InHand
<1>7. InOrder'
  <2>1. Len(sent') + InHand' + Len(eventQueue') = Len(hooked')
    BY <1>1, <1>2, <1>3, <1>6
  <2>2. data' = [wParam |-> hooked'[Len(sent') + 1], lParam |-> Len(sent') + 1]
    BY <1>1, <1>2, <1>3, <1>5
  <2>3. ASSUME NEW i \in 1..Len(eventQueue')
        PROVE  eventQueue'[i] = [wParam |-> hooked'[Len(sent') + InHand' + i],
                                 lParam |-> Len(sent') + InHand' + i]
    <3>1. i \in 1..(q - 1) /\ i + 1 \in 1..q /\ k + (i + 1) = k + 1 + i
      BY <1>2, <1>3
    <3>2. eventQueue'[i] = [wParam |-> hooked[k + 1 + i], lParam |-> k + 1 + i]
      BY <1>3, <1>5, <3>1
    <3>3. QED
      BY <1>1, <1>6, <3>2
  <2>4. QED
    BY <2>1, <2>2, <2>3 DEF InOrder
<1>8. SentRight'
  BY <1>1 DEF EInv, SentRight
<1>9. QED
  BY <1>4, <1>7, <1>8 DEF EInv

LEMMA SendKeeps == EInv /\ SenderSend => EInv'
<1> SUFFICES ASSUME EInv, SenderSend PROVE EInv'
  OBVIOUS
<1> DEFINE k == Len(sent)
           q == Len(eventQueue)
           m == hooked[k + 1]
<1>1. /\ k \in Nat /\ q \in Nat /\ k + 1 + q = Len(hooked) /\ Len(hooked) <= MaxEvents
      /\ MaxEvents \in Nat /\ hooked \in Seq(Messages) /\ sent \in Seq(Packets)
      /\ data = [wParam |-> m, lParam |-> k + 1] /\ InHand = 1
  BY EventsAssumption, LenProperties
     DEF EInv, EventsTyped, InOrder, InHand, SenderSend, EventsAssumption
<1>2. m \in Messages
  <2>1. k + 1 \in 1..Len(hooked)
    BY <1>1
  <2>2. QED
    BY <1>1, <2>1, ElementOfSeq
<1>3. data.wParam = m /\ data.lParam = k + 1
  BY <1>1
<1> HIDE DEF m
<1>4. flags' = FlagsOf(m) /\ flags' \subseteq Flags /\ Device(m) \in {"mouse", "keyboard"}
  <2>1. flags' = IF Device(m) = "mouse" THEN MouseFlags(m) ELSE KeyFlags(m)
    BY <1>3 DEF SenderSend
  <2>2. QED
    BY <1>2, <2>1, FlagsAgree
<1>5. PICK e \in PointsTo(k + 1) :
        sent' = Append(sent, [type |-> Device(m), flags |-> flags', of |-> e])
  BY <1>3 DEF SenderSend
<1> DEFINE p == [type |-> Device(m), flags |-> flags', of |-> e]
<1>6. p \in Packets
  <2>1. e \in 1..MaxEvents \cup {Garbage}
    BY <1>1 DEF PointsTo
  <2>2. QED
    BY <1>4, <2>1 DEF Packets
<1>7. /\ sent' \in Seq(Packets) /\ Len(sent') = k + 1 /\ sent'[k + 1] = p
      /\ \A i \in 1..k : sent'[i] = sent[i]
  BY <1>1, <1>5, <1>6, AppendProperties
<1>8. /\ data' = <<>> /\ InHand' = 0
      /\ UNCHANGED <<senderRuns, window, installed, callback, eventQueue, hooked>>
  BY DEF SenderSend, InHand
<1>9. EventsTyped'
  BY <1>4, <1>7, <1>8 DEF EInv, EventsTyped
<1>10. InOrder'
  <2>1. Len(sent') + InHand' + Len(eventQueue') = Len(hooked')
    BY <1>1, <1>7, <1>8
  <2>2. ASSUME NEW i \in 1..Len(eventQueue')
        PROVE  eventQueue'[i] = [wParam |-> hooked'[Len(sent') + InHand' + i],
                                 lParam |-> Len(sent') + InHand' + i]
    <3>1. k + 1 + 0 + i = k + 1 + i
      BY <1>1
    <3>2. eventQueue[i] = [wParam |-> hooked[k + 1 + i], lParam |-> k + 1 + i]
      BY <1>1, <1>8, <2>2 DEF EInv, InOrder
    <3>3. QED
      BY <1>7, <1>8, <3>1, <3>2
  <2>3. QED
    BY <1>8, <2>1, <2>2 DEF InOrder
<1>11. SentRight'
  <2>1. ASSUME NEW i \in 1..Len(sent')
        PROVE  sent'[i].type = Device(hooked'[i]) /\ sent'[i].flags = FlagsOf(hooked'[i])
    <3>1. CASE i = k + 1
      <4>1. sent'[i] = p /\ hooked'[i] = m
        BY <1>7, <1>8, <3>1 DEF m
      <4>2. QED
        BY <1>4, <4>1
    <3>2. CASE i \in 1..k
      BY <1>7, <1>8, <3>2 DEF EInv, SentRight
    <3>3. QED
      BY <1>1, <1>7, <3>1, <3>2
  <2>2. QED
    BY <2>1 DEF SentRight
<1>12. QED
  BY <1>9, <1>10, <1>11 DEF EInv

LEMMA NextEInv == EInv /\ [EventsNext]_eventVars => EInv'
<1> SUFFICES ASSUME EInv, [EventsNext]_eventVars PROVE EInv'
  OBVIOUS
<1> USE DEF EInv, EventsTyped, InOrder, InHand, SentRight
<1>1. CASE UNCHANGED eventVars
  BY <1>1 DEF eventVars
<1>2. ASSUME NEW d \in {"mouse", "keyboard"}, SetHook(d) PROVE EInv'
  BY <1>2 DEF SetHook
<1>3. ASSUME NEW m \in MouseMessages \cup KeyMessages, HookCallback(m) PROVE EInv'
  BY <1>3, HookKeeps DEF Messages
<1>4. CASE CallbackReturns
  BY <1>4, EventsAssumption DEF CallbackReturns, EventsAssumption
<1>5. CASE Quit
  BY <1>5 DEF Quit
<1>6. CASE ReleaseHooks
  BY <1>6 DEF ReleaseHooks
<1>7. CASE SenderPop
  BY <1>7, PopKeeps
<1>8. CASE SenderSend
  BY <1>8, SendKeeps
<1>9. QED
  BY <1>1, <1>2, <1>3, <1>4, <1>5, <1>6, <1>7, <1>8 DEF EventsNext

LEMMA EInvSent == EInv => SentAsHooked
<1> SUFFICES ASSUME EInv PROVE SentAsHooked
  OBVIOUS
<1> DEFINE k == Len(sent)
           q == Len(eventQueue)
<1>1. /\ k \in Nat /\ q \in Nat /\ k + InHand + q = Len(hooked)
      /\ eventQueue \in Seq(HookData)
  BY LenProperties DEF EInv, EventsTyped, InOrder
<1>2. /\ k + Len(Waiting) = Len(hooked)
      /\ \A i \in 1..Len(Waiting) : Waiting[i] = [wParam |-> hooked[k + i], lParam |-> k + i]
  <2>1. CASE data = <<>>
    <3>1. Waiting = eventQueue /\ InHand = 0
      BY <1>1, <2>1, ConcatEmptySeq DEF Waiting, InHand
    <3>2. \A i \in 1..q : k + 0 + i = k + i
      BY <1>1
    <3>3. QED
      BY <1>1, <3>1, <3>2 DEF EInv, InOrder
  <2>2. CASE data # <<>>
    <3>1. data \in HookData /\ <<data>> \in Seq(HookData) /\ InHand = 1
          /\ Len(<<data>>) = 1 /\ <<data>>[1] = data
      BY <2>2 DEF EInv, EventsTyped, InHand
    <3>2. Waiting = <<data>> \o eventQueue
      BY <2>2 DEF Waiting
    <3>3. /\ Len(Waiting) = 1 + q
          /\ \A i \in 1..(1 + q) : Waiting[i] = IF i <= 1 THEN data ELSE eventQueue[i - 1]
      BY <1>1, <3>1, <3>2, ConcatProperties
    <3>4. ASSUME NEW i \in 1..Len(Waiting)
          PROVE  Waiting[i] = [wParam |-> hooked[k + i], lParam |-> k + i]
      <4>1. CASE i = 1
        BY <1>1, <2>2, <3>3, <4>1 DEF EInv, InOrder
      <4>2. CASE i # 1
        <5>1. i - 1 \in 1..q /\ ~(i <= 1) /\ k + 1 + (i - 1) = k + i
          BY <1>1, <3>3, <4>2
        <5>2. eventQueue[i - 1] = [wParam |-> hooked[k + 1 + (i - 1)],
                                   lParam |-> k + 1 + (i - 1)]
          BY <3>1, <5>1 DEF EInv, InOrder
        <5>3. QED
          BY <3>3, <5>1, <5>2
      <4>3. QED
        BY <4>1, <4>2
    <3>5. QED
      BY <1>1, <3>1, <3>3, <3>4
  <2>3. QED
    BY <2>1, <2>2
<1>3. QED
  BY <1>2 DEF EInv, SentRight, FlagsOf, SentAsHooked

(* However the user, the sender and the window interleave, with a sender   *)
(* or without: events leave in the order in which they were made, none is  *)
(* lost or sent twice, and each with the flags of its own message.         *)
THEOREM EventsInOrder == EventsSafety => []SentAsHooked
<1>1. QED
  BY InitEInv, NextEInv, EInvSent, PTL DEF EventsSafety

LEMMA EInvTypes == EInv => EventsTypeOK
<1> SUFFICES ASSUME EInv PROVE EventsTypeOK
  OBVIOUS
<1>1. ASSUME NEW i \in 1..Len(sent)
      PROVE  /\ sent[i].type \in {"mouse", "keyboard"} /\ sent[i].flags \subseteq Flags
             /\ sent[i].of \in 1..MaxEvents \cup {Garbage}
  <2>1. sent[i] \in Packets
    BY ElementOfSeq DEF EInv, EventsTyped
  <2>2. QED
    BY <2>1 DEF Packets
<1>2. QED
  BY <1>1 DEF EInv, EventsTyped, EventsTypeOK, Messages

-----------------------------------------------------------------------------
(* Types *)

(* Erasing the first entry of a listener leaves a shorter vector.          *)
LEMMA RemoveFirstType ==
    ASSUME NEW S, NEW s \in Seq(S), NEW e
    PROVE  RemoveFirst(s, e) \in Seq(S) /\ Len(RemoveFirst(s, e)) <= Len(s)
<1> DEFINE n == Len(s)
           I == {i \in 1..n : s[i] = e}
           j == Min(I)
<1>1. n \in Nat
  BY LenProperties
<1>2. CASE I = {}
  BY <1>1, <1>2 DEF RemoveFirst
<1>3. CASE I # {}
  <2>1. RemoveFirst(s, e) = SubSeq(s, 1, j - 1) \o SubSeq(s, j + 1, n)
    <3>1. SelectInSeq(s, LAMBDA v : v = e) = j
      BY <1>3 DEF SelectInSeq
    <3>2. RemoveFirst(s, e) = RemoveAt(s, SelectInSeq(s, LAMBDA v : v = e))
      BY <1>3 DEF RemoveFirst
    <3>3. QED
      BY <3>1, <3>2 DEF RemoveAt
  <2>2. j \in 1..n
    <3>1. I \in SUBSET Nat
      BY <1>1
    <3>2. j \in I
      BY <1>3, <3>1, LeastOfNaturals
    <3>3. QED
      BY <3>2
  <2> HIDE DEF j
  <2>3. SubSeq(s, 1, j - 1) \in Seq(S) /\ Len(SubSeq(s, 1, j - 1)) = j - 1
    <3>1. \A i \in 1..(j - 1) : s[i] \in S
      BY <1>1, <2>2, ElementOfSeq
    <3>2. QED
      BY <1>1, <2>2, <3>1, SubSeqProperties
  <2>4. SubSeq(s, j + 1, n) \in Seq(S) /\ Len(SubSeq(s, j + 1, n)) = n - j
    <3>1. \A i \in (j + 1)..n : s[i] \in S
      BY <1>1, <2>2, ElementOfSeq
    <3>2. QED
      BY <1>1, <2>2, <3>1, SubSeqProperties
  <2> DEFINE a == SubSeq(s, 1, j - 1)
             b == SubSeq(s, j + 1, n)
  <2>5. a \o b \in Seq(S) /\ Len(a \o b) = Len(a) + Len(b)
    BY <2>3, <2>4, ConcatProperties
  <2>6. Len(a) + Len(b) <= n
    <3>1. Len(a) = j - 1 /\ Len(b) = n - j /\ j \in Nat /\ n \in Nat
      BY <1>1, <2>2, <2>3, <2>4
    <3> HIDE DEF a, b, n
    <3>2. QED
      BY <3>1
  <2>7. QED
    BY <2>1, <2>5, <2>6
<1>4. QED
  BY <1>2, <1>3

(* Who has begun a request has a place in the queue reserved.              *)
Pushing == {k \in Listeners : request[k] \in {"enter", "push"}}
PlacesReserved ==
    IsFiniteSet(Pushing) /\ Len(actions) + Cardinality(Pushing) <= MaxActions
MInv == MediatorTypeOK /\ PlacesReserved

LEMMA InitMInv == MediatorInit => MInv
<1> SUFFICES ASSUME MediatorInit PROVE MInv
  OBVIOUS
<1>1. MediatorTypeOK
  BY MediatorAssumption, EmptySeq
     DEF MediatorInit, MediatorTypeOK, Pointers, OwnerCalls, MediatorAssumption
<1>2. Pushing = {} /\ Len(actions) = 0
  BY DEF MediatorInit, Pushing
<1>3. PlacesReserved
  BY <1>2, FS_EmptySet, MediatorAssumption DEF PlacesReserved, MediatorAssumption
<1>4. QED
  BY <1>1, <1>3 DEF MInv

LEMMA RequestTypes ==
    ASSUME MInv, NEW l \in Listeners,
           RequestAction(l) \/ AcquireQueue(l) \/ PushAction(l) \/ ReleaseQueue(l)
    PROVE  MInv'
<1> DEFINE n == Len(actions)
           c == Cardinality(Pushing)
<1>1. /\ MediatorTypeOK /\ IsFiniteSet(Pushing) /\ n + c <= MaxActions
      /\ n \in Nat /\ c \in Nat /\ MaxActions \in Nat
  BY MediatorAssumption, FS_CardinalityType, LenProperties
     DEF MInv, PlacesReserved, MediatorTypeOK, MediatorAssumption
<1>2. UNCHANGED <<ownerVars>>
  BY DEF RequestAction, AcquireQueue, PushAction, ReleaseQueue
<1>3. MediatorTypeOK' /\ PlacesReserved'
  <2>1. CASE RequestAction(l)
    <3>1. excused' \subseteq Listeners
      BY <1>1, <2>1 DEF MediatorTypeOK, RequestAction
    <3>2. CASE Break(l)
      <4>1. Pushing' = Pushing
        BY <3>2 DEF Break, Pushing
      <4>2. MediatorTypeOK'
        BY <1>1, <1>2, <3>1, <3>2 DEF MediatorTypeOK, Break, ownerVars
      <4>3. QED
        BY <1>1, <3>2, <4>1, <4>2 DEF PlacesReserved, Break
    <3>3. CASE ~Break(l)
      <4>1. /\ request' = [request EXCEPT ![l] = "enter"] /\ request[l] = "idle"
            /\ UNCHANGED <<section, actions, brokenBy>> /\ n + c < MaxActions
        BY <2>1, <3>3 DEF RequestAction, Asking, Pushing
      <4>2. MediatorTypeOK'
        BY <1>1, <1>2, <3>1, <4>1 DEF MediatorTypeOK, ownerVars
      <4>3. Pushing' = Pushing \cup {l} /\ l \notin Pushing
        BY <1>1, <4>1 DEF Pushing, MediatorTypeOK
      <4>4. IsFiniteSet(Pushing') /\ Cardinality(Pushing') = c + 1
        BY <1>1, <4>3, FS_AddElement
      <4>5. PlacesReserved'
        BY <1>1, <4>1, <4>4 DEF PlacesReserved
      <4>6. QED
        BY <4>2, <4>5
    <3>4. QED
      BY <3>2, <3>3
  <2>2. CASE PushAction(l) /\ ~Break(l)
    <3>1. /\ request' = [request EXCEPT ![l] = "release"] /\ request[l] = "push"
          /\ actions' = Append(actions, l)
          /\ UNCHANGED <<section, brokenBy, excused>>
      BY <2>2 DEF PushAction
    <3>2. Pushing' = Pushing \ {l} /\ l \in Pushing
      BY <1>1, <3>1 DEF Pushing, MediatorTypeOK
    <3>3. IsFiniteSet(Pushing') /\ Cardinality(Pushing') = c - 1
      BY <1>1, <3>2, FS_RemoveElement
    <3>4. IsFiniteSet(Pushing') /\ Cardinality(Pushing') \in Nat
      BY <3>3, FS_CardinalityType
    <3>5. actions' \in Seq(Listeners) /\ Len(actions') = n + 1
      BY <1>1, <3>1, AppendProperties DEF MediatorTypeOK
    <3>6. Len(actions') <= MaxActions /\ PlacesReserved'
      BY <1>1, <3>3, <3>4, <3>5 DEF PlacesReserved
    <3>7. MediatorTypeOK'
      BY <1>1, <1>2, <3>1, <3>5, <3>6 DEF MediatorTypeOK, ownerVars
    <3>8. QED
      BY <3>6, <3>7
  <2>3. CASE (AcquireQueue(l) \/ ReleaseQueue(l)) /\ ~Break(l)
    <3>1. /\ section' \in Listeners \cup {NoListener}
          /\ \/ request' = [request EXCEPT ![l] = "push"] /\ request[l] = "enter"
             \/ request' = [request EXCEPT ![l] = "idle"] /\ request[l] = "release"
          /\ UNCHANGED <<actions, brokenBy, excused>>
      BY <2>3 DEF AcquireQueue, ReleaseQueue
    <3>2. Pushing' = Pushing
      BY <1>1, <3>1 DEF Pushing, MediatorTypeOK
    <3>3. MediatorTypeOK'
      BY <1>1, <1>2, <3>1 DEF MediatorTypeOK, ownerVars
    <3>4. QED
      BY <1>1, <3>1, <3>2, <3>3 DEF PlacesReserved
  <2>4. CASE (AcquireQueue(l) \/ PushAction(l) \/ ReleaseQueue(l)) /\ Break(l)
    <3>1. brokenBy' = l /\ UNCHANGED <<section, actions, request, excused>>
      BY <2>4 DEF AcquireQueue, PushAction, ReleaseQueue, Break
    <3>2. Pushing' = Pushing
      BY <3>1 DEF Pushing
    <3>3. MediatorTypeOK'
      BY <1>1, <1>2, <3>1 DEF MediatorTypeOK, ownerVars
    <3>4. QED
      BY <1>1, <3>1, <3>2, <3>3 DEF PlacesReserved
  <2>5. QED
    BY <2>1, <2>2, <2>3, <2>4
<1>4. QED
  BY <1>3 DEF MInv

LEMMA OwnerTypes ==
    ASSUME MInv,
           DeleteMediator \/ \E l \in Listeners :
               AddQueue(l) \/ AddSection(l) \/ RemoveQueue(l) \/ RemoveSection(l)
    PROVE  MInv'
<1> USE DEF MInv
<1>1. UNCHANGED requestVars
  BY DEF DeleteMediator, AddQueue, AddSection, RemoveQueue, RemoveSection
<1>2. PlacesReserved'
  <2>1. Pushing' = Pushing /\ actions' = actions
    BY <1>1 DEF requestVars, Pushing
  <2>2. QED
    BY <2>1 DEF PlacesReserved
<1>3. /\ queuePtr' \in [Listeners -> Pointers] /\ sectionPtr' \in [Listeners -> Pointers]
      /\ mediator' \in {"alive", "deleted"} /\ excused' \subseteq Listeners
  <2>1. CASE DeleteMediator
    BY <2>1 DEF DeleteMediator, MediatorTypeOK, Pointers
  <2>2. ASSUME NEW l \in Listeners,
               AddQueue(l) \/ AddSection(l) \/ RemoveQueue(l) \/ RemoveSection(l)
        PROVE  /\ queuePtr' \in [Listeners -> Pointers]
               /\ sectionPtr' \in [Listeners -> Pointers]
               /\ mediator' \in {"alive", "deleted"} /\ excused' \subseteq Listeners
    BY <2>2 DEF AddQueue, AddSection, RemoveQueue, RemoveSection, MediatorTypeOK, Pointers
  <2>3. QED
    BY <2>1, <2>2
<1>4. listeners' \in Seq(Listeners) /\ Len(listeners') <= MaxListeners
  <2>1. /\ listeners \in Seq(Listeners) /\ Len(listeners) \in Nat
        /\ Len(listeners) <= MaxListeners /\ MaxListeners \in Nat
    BY MediatorAssumption, LenProperties DEF MediatorTypeOK, MediatorAssumption
  <2>2. CASE DeleteMediator
    BY <2>1, <2>2, EmptySeq DEF DeleteMediator
  <2>3. ASSUME NEW l \in Listeners, AddQueue(l)
        PROVE  listeners' \in Seq(Listeners) /\ Len(listeners') <= MaxListeners
    BY <2>1, <2>3, AppendProperties DEF AddQueue
  <2>4. ASSUME NEW l \in Listeners, RemoveSection(l)
        PROVE  listeners' \in Seq(Listeners) /\ Len(listeners') <= MaxListeners
    <3>1. /\ RemoveFirst(listeners, l) \in Seq(Listeners)
          /\ Len(RemoveFirst(listeners, l)) <= Len(listeners)
      BY <2>1, RemoveFirstType
    <3>2. Len(RemoveFirst(listeners, l)) \in Nat
      BY <3>1, LenProperties
    <3>3. listeners' \in {RemoveFirst(listeners, l), listeners}
      BY <2>4 DEF RemoveSection
    <3>4. QED
      BY <2>1, <3>1, <3>2, <3>3
  <2>5. ASSUME NEW l \in Listeners, AddSection(l) \/ RemoveQueue(l)
        PROVE  listeners' \in Seq(Listeners) /\ Len(listeners') <= MaxListeners
    BY <2>1, <2>5 DEF AddSection, RemoveQueue
  <2>6. QED
    BY <2>2, <2>3, <2>4, <2>5
<1>5. ownerCall' \in OwnerCalls
  BY DEF DeleteMediator, AddQueue, AddSection, RemoveQueue, RemoveSection, MediatorTypeOK,
         OwnerCalls
<1>6. QED
  BY <1>1, <1>2, <1>3, <1>4, <1>5 DEF MediatorTypeOK, requestVars

LEMMA NextMInv == MInv /\ [MediatorNext]_mediatorVars => MInv'
<1> SUFFICES ASSUME MInv, [MediatorNext]_mediatorVars PROVE MInv'
  OBVIOUS
<1>1. CASE UNCHANGED mediatorVars
  <2>1. Pushing' = Pushing
    BY <1>1 DEF mediatorVars, Pushing
  <2>2. QED
    BY <1>1, <2>1 DEF mediatorVars, MInv, MediatorTypeOK, PlacesReserved
<1>2. QED
  BY <1>1, RequestTypes, OwnerTypes DEF MediatorNext

LEMMA GInvTypes == GInv => GuestsTypeOK
<1> SUFFICES ASSUME GInv PROVE GuestsTypeOK
  OBVIOUS
<1>1. ASSUME NEW g \in Guests PROVE Len(answer[g]) \in {0, 3 * FieldSize + 4}
  <2>1. CASE answer[g] = <<>>
    BY <2>1
  <2>2. CASE answer[g] # <<>>
    <3>1. PICK c \in Clients : answer[g] = Structure(c)
      BY <2>2 DEF GInv
    <3>2. QED
      BY <3>1, StructureBytes, GuestsAssumption
  <2>3. QED
    BY <2>1, <2>2
<1>2. ASSUME NEW g \in Guests, idRes[g] # <<>>
      PROVE  /\ idRes[g].isHost \in BOOLEAN
             /\ \A f \in {"roomName", "roomPassword"} : \A i \in 1..Len(idRes[g][f]) :
                   idRes[g][f][i] # NUL
  <2>1. idRes[g] \in Idents /\ NoNULs(idRes[g])
    BY <1>2 DEF GInv
  <2>2. QED
    BY <2>1 DEF Idents, NoNULs
<1>3. QED
  BY <1>1, <1>2 DEF GInv, GuestsTypeOK

-----------------------------------------------------------------------------
(* All parts *)

(* Side by side every part behaves as by itself.                           *)
THEOREM PartsAreThemselves ==
    PartsSpec => /\ Spec /\ SocketsSpec /\ EventsSpec /\ ConditionSpec
                 /\ MediatorSpec /\ GuestsSpec
<1>1. PartsInit => /\ Init /\ SocketsInit /\ EventsInit /\ ConditionInit
                   /\ MediatorInit /\ GuestsInit
  BY DEF PartsInit
<1>2. [PartsNext]_partsVars =>
        /\ [Next]_vars /\ [SocketsNext]_socketVars /\ [EventsNext]_eventVars
        /\ [ConditionNext]_cvVars /\ [MediatorNext]_mediatorVars /\ [GuestsNext]_guestVars
  <2>1. UNCHANGED partsVars => UNCHANGED <<vars, socketVars, eventVars, cvVars,
                                           mediatorVars, guestVars>>
    BY DEF partsVars
  <2>2. QED
    BY <2>1 DEF PartsNext, AcceptStep, SocketsStep, EventsStep, ConditionStep,
                MediatorStep, GuestsStep
<1>3. QED
  BY <1>1, <1>2, PTL
     DEF PartsSpec, Spec, Safety, SocketsSpec, EventsSpec, EventsSafety, ConditionSpec,
         ConditionSafety, MediatorSpec, MediatorSafety, GuestsSpec

(* Every variable of every part keeps its type.                            *)
THEOREM PartsTypeCorrect == PartsSpec => []PartsTypeOK
<1>1. PartsSpec => [](part \in Parts)
  <2>1. PartsInit => part \in Parts
    BY DEF PartsInit
  <2>2. part \in Parts /\ [PartsNext]_partsVars => (part \in Parts)'
    BY DEF PartsNext, partsVars
  <2>3. QED
    BY <2>1, <2>2, PTL DEF PartsSpec
<1>2. PartsSpec => /\ Safety /\ SocketsSpec /\ EventsSafety /\ ConditionSafety
                   /\ MediatorSafety /\ GuestsSpec
  BY PartsAreThemselves, PTL DEF Spec, EventsSpec, ConditionSpec, MediatorSpec
<1>3. EventsSafety => []EventsTypeOK
  BY InitEInv, NextEInv, EInvTypes, PTL DEF EventsSafety
<1>4. ConditionSafety => []ConditionTypeOK
  <2>1. CInv => ConditionTypeOK
    BY DEF CInv
  <2>2. QED
    BY <2>1, InitCInv, NextCInv, PTL DEF ConditionSafety
<1>5. MediatorSafety => []MediatorTypeOK
  <2>1. MInv => MediatorTypeOK
    BY DEF MInv
  <2>2. QED
    BY <2>1, InitMInv, NextMInv, PTL DEF MediatorSafety
<1>6. GuestsSpec => []GuestsTypeOK
  BY InitGInv, NextGInv, GInvTypes, PTL DEF GuestsSpec
<1>7. (/\ part \in Parts /\ TypeOK /\ SocketsTypeOK /\ EventsTypeOK /\ ConditionTypeOK
       /\ MediatorTypeOK /\ GuestsTypeOK) => PartsTypeOK
  BY DEF PartsTypeOK
<1>8. QED
  BY <1>1, <1>2, <1>3, <1>4, <1>5, <1>6, <1>7, TypeCorrect, SocketsTypeCorrect, PTL
=============================================================================
