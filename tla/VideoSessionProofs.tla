------------------------- MODULE VideoSessionProofs -------------------------
(***************************************************************************)
(* Host and viewer together, for every datagram size, frame size and       *)
(* number of frames.  What HostSenderProofs proves of the host carries     *)
(* over, because a session is one of HostSender's behaviours.              *)
(***************************************************************************)
EXTENDS VideoSession, SequenceTheorems, TLAPS

HostProofs == INSTANCE HostSenderProofs WITH Faults <- {}

(* The acknowledgements on their way are the client's.                     *)
AcksGiven == toHost \subseteq received

(* The types of the client's hands and queue; the host's are HostSender's. *)
ClientTypeOK ==
    /\ held \in Host!Packet \cup {None} /\ current \in Host!Packet \cup {None}
    /\ packetQueue \in Seq(Host!Packet)
    /\ dataMutex \in {"receiver", "consumer", None}

Holds(s, e) == \E i \in DOMAIN s : s[i] = e

(* The receiver holds a datagram from its reception to its release, the    *)
(* consumer from Pop() to the end of its loop, and each of the two works   *)
(* on packetQueue only with dataMutex.                                     *)
HandsInv ==
    /\ dataMutex = "receiver" <=> receiver \in {"push", "release"}
    /\ dataMutex = "consumer" <=> consumer \in {"pop", "lookup", "update"}
    /\ held # None <=> receiver \in {"lock", "push", "release"}
    /\ current # None <=> consumer \in {"lookup", "update"}
    /\ consumer \in {"lock", "pop"} => packetQueue # <<>>
    /\ receiver = "release" => Holds(packetQueue, held)

(* Whatever the client has received is in its hands or counted.            *)
Kept(p) == p = held \/ p = current \/ Holds(packetQueue, p)
ReceivedKept == received \subseteq AtClient \cup consumed

SessionInv == ClientTypeOK /\ HandsInv /\ ReceivedKept /\ NothingBetween

-----------------------------------------------------------------------------
(* The session as the host sees it *)

LEMMA InitAcksGiven == Init => AcksGiven
  BY DEF Init, Host!Init, AcksGiven

LEMMA NextAcksGiven == AcksGiven /\ [Next]_vars => AcksGiven'
<1> SUFFICES ASSUME AcksGiven, [Next]_vars PROVE AcksGiven'
  OBVIOUS
<1>1. CASE HostStep
  <2>1. received' = received /\ toHost' \subseteq toHost
    BY <1>1 DEF HostStep, Host!HostNext, Host!SetFrameSize, Host!Capture, Host!ReadChunkSize,
       Host!FrontFrame, Host!SendPacket, Host!AddRecentPacket, Host!AckPass,
       Host!RemoveRecentPacket, Host!Consume, Host!netVars
  <2>2. QED
    BY <2>1 DEF AcksGiven
<1>2. CASE ClientStep
  BY <1>2 DEF ClientStep, AcksGiven
<1>3. CASE UNCHANGED vars
  BY <1>3 DEF vars, AcksGiven
<1>4. QED
  BY <1>1, <1>2, <1>3 DEF Next

(* Of the client's steps only a reception touches the path.                *)
LEMMA ClientOnPath ==
    ASSUME Client!ClientNext, ~\E p \in toClient : Client!Receive(p)
    PROVE  UNCHANGED <<toClient, toHost>>
  BY DEF Client!ClientNext, Client!Receiver, Client!Consumer, Client!Decoder, Client!Timer,
     Client!Window, Client!ReceiverCheck, Client!ReceiveError, Client!ReceiverLock,
     Client!ReceiverPush, Client!ReceiverRelease, Client!ConsumerCheck, Client!ConsumerLock,
     Client!ConsumerPop, Client!ConsumerLookup, Client!ConsumerUpdate, Client!DecoderCheck,
     Client!DecoderDecode, Client!DecoderPush, Client!DecoderErase, Client!TimerArm,
     Client!TimerInvalidate, Client!PaintCheck, Client!PaintShow, Client!Quit,
     Client!CloseSocket, Client!Join, Client!netVars

(* Every step of the session is one of the host, of the peer it expects,   *)
(* or one the host sees nothing of.                                        *)
LEMMA StepOfHostSender == AcksGiven /\ [Next]_vars => [Host!Next]_(Host!vars)
<1> SUFFICES ASSUME AcksGiven, [Next]_vars PROVE Host!Next \/ UNCHANGED Host!vars
  OBVIOUS
<1>1. CASE HostStep
  BY <1>1 DEF HostStep, Host!Next
<1>2. CASE ClientStep
  <2>1. /\ UNCHANGED Host!hostVars /\ received' = received \cup toHost'
        /\ Client!ClientNext
    BY <1>2 DEF ClientStep, hostVars, Host!hostVars, Host!streamVars, Host!senderVars
  <2>2. ASSUME NEW p \in toClient, Client!Receive(p) PROVE Host!ClientReceives(p)
    BY <2>1, <2>2 DEF AcksGiven, Client!Receive, Host!ClientReceives, Host!Consume, Host!Fits
  <2>3. CASE ~\E p \in toClient : Client!Receive(p)
    BY <2>1, <2>3, ClientOnPath DEF AcksGiven, Host!vars, Host!netVars
  <2>4. QED
    BY <2>2, <2>3 DEF Host!Next
<1>3. CASE UNCHANGED vars
  BY <1>3 DEF vars, hostVars, Host!vars, Host!hostVars, Host!streamVars, Host!senderVars,
              Host!netVars
<1>4. QED
  BY <1>1, <1>2, <1>3 DEF Next

(* The viewer is the peer that HostSender reduces it to: VideoSession      *)
(* implements HostSender over a path without faults.                       *)
THEOREM SessionImplementsHostSender == Spec => ViewerIsHostsPeer
<1>1. Init => Host!Init
  BY DEF Init
<1>2. QED
  BY <1>1, InitAcksGiven, NextAcksGiven, StepOfHostSender, PTL
     DEF Spec, ViewerIsHostsPeer, Host!Safety

(* So all that HostSenderProofs proves holds of its host.                  *)
LEMMA HostIsProvedOf == Spec => HostProofs!Safety
<1>1. Host!Init => HostProofs!Init
  BY DEF Host!Init, Host!HostInit, HostProofs!Init, HostProofs!HostInit, Host!NoPacket,
         HostProofs!NoPacket
<1>2. [Host!Next]_(Host!vars) => [HostProofs!Next]_(HostProofs!vars)
  <2>1. Host!SetFrameSize \/ Host!Capture => HostProofs!SetFrameSize \/ HostProofs!Capture
    BY DEF Host!SetFrameSize, HostProofs!SetFrameSize, Host!Capture, HostProofs!Capture,
       Host!streamVars, HostProofs!streamVars, Host!senderVars, HostProofs!senderVars,
       Host!netVars, HostProofs!netVars
  <2>2. /\ Host!ReadChunkSize => HostProofs!ReadChunkSize
        /\ Host!FrontFrame => HostProofs!FrontFrame
    BY DEF Host!ReadChunkSize, HostProofs!ReadChunkSize, Host!FrontFrame,
       HostProofs!FrontFrame, Host!TotalPackets, HostProofs!TotalPackets,
       Host!streamVars, HostProofs!streamVars, Host!senderVars,
       HostProofs!senderVars, Host!netVars, HostProofs!netVars
  <2>3. Host!SendPacket => HostProofs!SendPacket
    BY DEF Host!SendPacket, HostProofs!SendPacket, Host!DataSize, HostProofs!DataSize,
       Host!streamVars, HostProofs!streamVars, Host!senderVars, HostProofs!senderVars,
       Host!netVars, HostProofs!netVars
  <2>4. Host!AddRecentPacket => HostProofs!AddRecentPacket
    BY DEF Host!AddRecentPacket, HostProofs!AddRecentPacket, Host!TotalPackets,
       HostProofs!TotalPackets, Host!streamVars, HostProofs!streamVars, Host!senderVars,
       HostProofs!senderVars, Host!netVars, HostProofs!netVars
  <2>5. Host!AckPass => HostProofs!AckPass
    BY DEF Host!AckPass, HostProofs!AckPass, Host!Cardinality, HostProofs!Cardinality,
       Host!streamVars, HostProofs!streamVars, Host!senderVars, HostProofs!senderVars, Host!netVars, HostProofs!netVars
  <2>6. \A s : Host!RemoveRecentPacket(s) => HostProofs!RemoveRecentPacket(s)
    BY DEF Host!RemoveRecentPacket, HostProofs!RemoveRecentPacket, Host!Consume,
       HostProofs!Consume, Host!streamVars, HostProofs!streamVars, Host!senderVars,
       HostProofs!senderVars, Host!netVars, HostProofs!netVars
  <2>7. \A p : Host!ClientReceives(p) => HostProofs!ClientReceives(p)
    BY DEF Host!ClientReceives, HostProofs!ClientReceives, Host!Consume,
       HostProofs!Consume, Host!Fits, HostProofs!Fits, Host!hostVars, HostProofs!hostVars,
       Host!streamVars, HostProofs!streamVars, Host!senderVars, HostProofs!senderVars,
       Host!netVars, HostProofs!netVars
  <2>8. ~Host!Lose
    BY DEF Host!Lose
  <2>9. UNCHANGED Host!vars => UNCHANGED HostProofs!vars
    BY DEF Host!vars, HostProofs!vars, Host!hostVars, HostProofs!hostVars,
       Host!streamVars, HostProofs!streamVars, Host!senderVars, HostProofs!senderVars,
       Host!netVars, HostProofs!netVars
  <2>10. QED
    BY <2>1, <2>2, <2>3, <2>4, <2>5, <2>6, <2>7, <2>8, <2>9
       DEF Host!Next, Host!HostNext, HostProofs!Next, HostProofs!HostNext
<1>3. Spec => Host!Safety
  BY SessionImplementsHostSender DEF ViewerIsHostsPeer
<1>4. QED
  BY <1>1, <1>2, <1>3, PTL DEF Host!Safety, HostProofs!Safety

LEMMA HostTypes == Spec => []Host!TypeOK
<1>1. HostProofs!TypeOK => Host!TypeOK
  BY DEF HostProofs!TypeOK, Host!TypeOK, HostProofs!Packet, Host!Packet
<1>2. HostProofs!Safety => []HostProofs!TypeOK
  BY HostProofs!TypeCorrect, SessionAssumption DEF HostProofs!SizesAssumption
<1>3. QED
  BY <1>1, <1>2, HostIsProvedOf, PTL

(* The number of datagrams is rounded up: a chunk that begins before the   *)
(* frame ends has its number below it.                                     *)
LEMMA ChunkCounts ==
    ASSUME NEW size \in Nat, NEW chunk \in Nat \ {0}, NEW i \in Nat, i * chunk < size
    PROVE  i \in 0..((size + chunk - 1) \div chunk - 1)
<1> DEFINE q == (size + chunk - 1) \div chunk
<1>1. q \in Nat /\ size + chunk - 1 < (q + 1) * chunk
  OBVIOUS
<1>2. (q + 1) * chunk = q * chunk + chunk /\ q * chunk \in Nat /\ i * chunk \in Nat
  BY <1>1
<1> HIDE DEF q
<1>3. i * chunk < q * chunk
  BY <1>1, <1>2
<1>4. q <= i => q * chunk <= i * chunk
  BY <1>1
<1>5. i < q
  BY <1>1, <1>2, <1>3, <1>4
<1>6. i \in 0..(q - 1)
  BY <1>1, <1>5
<1>7. QED
  BY <1>6 DEF q

(* What the viewer's proofs assume of the datagrams is what the host makes *)
(* of every frame but the first: those that the two programs have on their *)
(* path, or that the host may send again, fit together at the viewer.      *)
LaterDatagrams == {p \in toClient \cup recentPackets : p.frame > 0}
THEOREM HostCutsForTheViewer == Spec => []Client!WellCut(LaterDatagrams)
<1>1. HostProofs!Safety => []HostProofs!OnlyFirstFrameMischunked
  BY HostProofs!LaterFramesWellCut, SessionAssumption DEF HostProofs!SizesAssumption
<1>2. Host!TypeOK /\ HostProofs!OnlyFirstFrameMischunked => Client!WellCut(LaterDatagrams)
  <2> SUFFICES ASSUME Host!TypeOK, HostProofs!WellCut(LaterDatagrams)
               PROVE  Client!WellCut(LaterDatagrams)
    BY DEF HostProofs!OnlyFirstFrameMischunked, LaterDatagrams
  <2> DEFINE payload == PACKET_SIZE - HEADER_SIZE
  <2>1. payload \in Nat \ {0} /\ Client!PAYLOAD_SIZE = payload
    BY SessionAssumption DEF Client!PAYLOAD_SIZE
  <2>2. \A p \in LaterDatagrams : p.slidingWindow \in Nat /\ p.offset \in Nat
    BY DEF LaterDatagrams, Host!TypeOK, Host!Packet
  <2>3. ASSUME NEW p \in LaterDatagrams
        PROVE  /\ p.offset \in Client!ChunksOf(p.slidingWindow)
               /\ p.size = LET left == p.slidingWindow - p.offset * payload
                           IN IF payload < left THEN payload ELSE left
    <3>1. p.slidingWindow - p.offset * payload > 0
      BY DEF HostProofs!WellCut
    <3>2. p.offset * payload < p.slidingWindow
      BY <2>1, <2>2, <3>1
    <3>3. p.offset \in Client!ChunksOf(p.slidingWindow)
      BY <2>1, <2>2, <3>2, ChunkCounts DEF Client!ChunksOf
    <3>4. QED
      BY <3>3 DEF HostProofs!WellCut
  <2>4. QED
    BY <2>1, <2>3 DEF Client!WellCut, HostProofs!WellCut
<1>3. QED
  BY <1>1, <1>2, HostTypes, HostIsProvedOf, PTL

-----------------------------------------------------------------------------
(* The viewer's hands *)

LEMMA AppendKeeps ==
    ASSUME NEW S, NEW s \in Seq(S), NEW e \in S
    PROVE  /\ Append(s, e) \in Seq(S) /\ Append(s, e) # <<>>
           /\ Holds(Append(s, e), e)
           /\ \A x : Holds(s, x) => Holds(Append(s, e), x)
<1>1. /\ DOMAIN s = 1..Len(s) /\ Len(s) \in Nat
      /\ Append(s, e) \in Seq(S) /\ Append(s, e) # <<>>
      /\ DOMAIN Append(s, e) = 1..(Len(s) + 1)
      /\ \A i \in 1..Len(s) : Append(s, e)[i] = s[i]
      /\ Append(s, e)[Len(s) + 1] = e
  BY AppendProperties, LenProperties
<1>2. QED
  BY <1>1 DEF Holds

LEMMA TailKeeps ==
    ASSUME NEW S, NEW s \in Seq(S), s # <<>>
    PROVE  /\ Head(s) \in S /\ Tail(s) \in Seq(S)
           /\ \A x : Holds(s, x) => Holds(Tail(s), x) \/ x = Head(s)
<1>1. /\ DOMAIN s = 1..Len(s) /\ Len(s) \in Nat \ {0} /\ Head(s) = s[1]
      /\ Head(s) \in S /\ Tail(s) \in Seq(S)
      /\ DOMAIN Tail(s) = 1..(Len(s) - 1)
      /\ \A i \in 1..(Len(s) - 1) : Tail(s)[i] = s[i + 1]
  BY HeadTailProperties, LenProperties
<1>2. \A i \in 2..Len(s) : i - 1 \in 1..(Len(s) - 1) /\ s[i] = Tail(s)[i - 1]
  BY <1>1
<1>3. ASSUME NEW x, Holds(s, x) PROVE Holds(Tail(s), x) \/ x = Head(s)
  <2>1. PICK i \in 1..Len(s) : s[i] = x
    BY <1>1, <1>3 DEF Holds
  <2>2. CASE i = 1
    BY <1>1, <2>1, <2>2
  <2>3. CASE i \in 2..Len(s)
    BY <1>1, <1>2, <2>1, <2>3 DEF Holds
  <2>4. QED
    BY <1>1, <2>1, <2>2, <2>3
<1>4. QED
  BY <1>1, <1>3

(* The steps of the decoder, the timer and the window take nothing out of  *)
(* the two hands and the queue, and put nothing there.                     *)
handVars == <<receiver, held, packetQueue, dataMutex, consumer, current>>
LEMMA OtherThreads ==
    ASSUME Client!Decoder \/ Client!DecoderPush \/ Client!Timer \/ Client!Window \/ Client!Quit
    PROVE  UNCHANGED handVars
  BY DEF handVars, Client!Decoder, Client!Timer, Client!Window, Client!DecoderCheck,
     Client!DecoderDecode, Client!DecoderPush, Client!DecoderErase, Client!TimerArm,
     Client!TimerInvalidate, Client!PaintCheck, Client!PaintShow, Client!Quit,
     Client!CloseSocket, Client!Join, Client!queueVars, Client!receiverVars,
     Client!consumerVars

(* A step of the client keeps every datagram it has, but for the one the   *)
(* consumer is done with.                                                  *)
KeepsAll == \A p \in Host!Packet : Kept(p) => Kept(p)' \/ (p = current /\ current' = None)

LEMMA ReceiverKeeps ==
    ASSUME ClientTypeOK, HandsInv, toClient \subseteq Host!Packet,
           \/ \E p \in toClient : Client!Receive(p)
           \/ Client!Receiver \/ Client!ReceiverLock
    PROVE  ClientTypeOK' /\ HandsInv' /\ KeepsAll
<1> USE SessionAssumption DEF ClientTypeOK, HandsInv
<1>1. CASE \E p \in toClient : Client!Receive(p)
  BY <1>1 DEF Client!Receive, Client!queueVars, Client!consumerVars, KeepsAll, Kept
<1>2. CASE Client!ReceiverCheck \/ Client!ReceiveError
  BY <1>2 DEF Client!ReceiverCheck, Client!ReceiveError, Client!queueVars,
              Client!consumerVars, KeepsAll, Kept
<1>3. CASE Client!ReceiverLock
  BY <1>3 DEF Client!ReceiverLock, Client!consumerVars, KeepsAll, Kept
<1>4. CASE Client!ReceiverPush
  <2>1. /\ packetQueue' = Append(packetQueue, held) /\ receiver' = "release"
        /\ receiver = "push"
        /\ UNCHANGED <<held, dataMutex, consumer, current>>
    BY <1>4 DEF Client!ReceiverPush, Client!consumerVars
  <2>2. held \in Host!Packet
    BY <2>1
  <2>3. /\ packetQueue' \in Seq(Host!Packet) /\ packetQueue' # <<>>
        /\ Holds(packetQueue', held)
        /\ \A x : Holds(packetQueue, x) => Holds(packetQueue', x)
    BY <2>1, <2>2, AppendKeeps
  <2>4. QED
    BY <2>1, <2>3 DEF KeepsAll, Kept
<1>5. CASE Client!ReceiverRelease
  BY <1>5 DEF Client!ReceiverRelease, Client!consumerVars, KeepsAll, Kept
<1>6. QED
  BY <1>1, <1>2, <1>3, <1>4, <1>5 DEF Client!Receiver

LEMMA ConsumerKeeps ==
    ASSUME ClientTypeOK, HandsInv, Client!Consumer \/ Client!ConsumerLock
    PROVE  ClientTypeOK' /\ HandsInv' /\ KeepsAll
<1> USE SessionAssumption DEF ClientTypeOK, HandsInv
<1>1. CASE Client!ConsumerCheck
  BY <1>1 DEF Client!ConsumerCheck, Client!queueVars, Client!receiverVars, KeepsAll, Kept
<1>2. CASE Client!ConsumerLock
  BY <1>2 DEF Client!ConsumerLock, Client!receiverVars, KeepsAll, Kept
<1>3. CASE Client!ConsumerPop
  <2>1. /\ consumer = "pop" /\ consumer' = "lookup"
        /\ current' = Head(packetQueue) /\ packetQueue' = Tail(packetQueue)
        /\ UNCHANGED <<dataMutex, receiver, held>>
    BY <1>3 DEF Client!ConsumerPop, Client!receiverVars
  <2>2. packetQueue # <<>> /\ receiver # "release" /\ current = None
    BY <2>1
  <2>3. /\ current' \in Host!Packet /\ packetQueue' \in Seq(Host!Packet)
        /\ \A x : Holds(packetQueue, x) => Holds(packetQueue', x) \/ x = current'
    BY <2>1, <2>2, TailKeeps
  <2>4. QED
    BY <2>1, <2>2, <2>3 DEF KeepsAll, Kept
<1>4. CASE Client!ConsumerLookup
  BY <1>4 DEF Client!ConsumerLookup, Client!queueVars, Client!receiverVars, KeepsAll, Kept
<1>5. CASE Client!ConsumerUpdate
  BY <1>5 DEF Client!ConsumerUpdate, Client!receiverVars, KeepsAll, Kept
<1>6. QED
  BY <1>1, <1>2, <1>3, <1>4, <1>5 DEF Client!Consumer

LEMMA ClientKeeps ==
    ASSUME ClientTypeOK, HandsInv, toClient \subseteq Host!Packet, Client!ClientNext
    PROVE  ClientTypeOK' /\ HandsInv' /\ KeepsAll
<1>1. CASE UNCHANGED handVars
  BY <1>1 DEF handVars, ClientTypeOK, HandsInv, KeepsAll, Kept
<1>2. QED
  BY <1>1, ReceiverKeeps, ConsumerKeeps, OtherThreads DEF Client!ClientNext

-----------------------------------------------------------------------------
(* Nothing falls between the two programs *)

LEMMA HeldIsAtClient ==
    ASSUME SessionAssumption, ClientTypeOK
    PROVE  AtClient = {p.seq : p \in {q \in Host!Packet : Kept(q)}}
<1>1. \A p \in {held, current} \ {None} : p \in Host!Packet /\ Kept(p)
  BY DEF ClientTypeOK, Kept
<1>2. \A i \in DOMAIN packetQueue : packetQueue[i] \in Host!Packet /\ Kept(packetQueue[i])
  BY ElementOfSeq, LenProperties DEF ClientTypeOK, Kept, Holds
<1>3. \A p \in Host!Packet : Kept(p) =>
        p \in ({held, current} \ {None}) \cup {packetQueue[i] : i \in DOMAIN packetQueue}
  BY DEF Kept, Holds, SessionAssumption
<1>4. QED
  BY <1>1, <1>2, <1>3 DEF AtClient

LEMMA HeldIsAtClientNext ==
    ASSUME SessionAssumption, ClientTypeOK'
    PROVE  AtClient' = {p.seq : p \in {q \in Host!Packet : Kept(q)'}}
<1>1. \A p \in {held', current'} \ {None} : p \in Host!Packet /\ Kept(p)'
  BY DEF ClientTypeOK, Kept
<1>2. \A p \in {packetQueue'[i] : i \in DOMAIN packetQueue'} : p \in Host!Packet /\ Kept(p)'
  BY ElementOfSeq, LenProperties DEF ClientTypeOK, Kept, Holds
<1>3. \A p \in Host!Packet : Kept(p)' =>
        p \in ({held', current'} \ {None}) \cup {packetQueue'[i] : i \in DOMAIN packetQueue'}
  BY DEF Kept, Holds, SessionAssumption
<1>4. QED
  BY <1>1, <1>2, <1>3 DEF AtClient

(* What the client has, it has after its next step, or is done with.       *)
LEMMA ClientStepKeeps ==
    ASSUME SessionInv, Host!TypeOK, ClientStep
    PROVE  /\ ClientTypeOK' /\ HandsInv'
           /\ AtClient \cup consumed \subseteq AtClient' \cup consumed'
<1>1. toClient \subseteq Host!Packet /\ ClientTypeOK /\ HandsInv /\ Client!ClientNext
  BY DEF SessionInv, Host!TypeOK, ClientStep
<1>2. ClientTypeOK' /\ HandsInv' /\ KeepsAll
  BY <1>1, ClientKeeps
<1>3. consumed \subseteq consumed'
  BY DEF ClientStep
<1>4. ASSUME NEW p \in Host!Packet, Kept(p) PROVE p.seq \in AtClient' \cup consumed'
  <2>1. CASE Kept(p)'
    BY <1>2, <2>1, HeldIsAtClientNext, SessionAssumption
  <2>2. CASE p = current /\ current' = None
    BY <2>2, SessionAssumption DEF ClientStep
  <2>3. QED
    BY <1>2, <1>4, <2>1, <2>2 DEF KeepsAll
<1>5. QED
  BY <1>1, <1>2, <1>3, <1>4, HeldIsAtClient, SessionAssumption

LEMMA ClientStepPreserves ==
    ASSUME SessionInv, AcksGiven, Host!TypeOK, ClientStep
    PROVE  SessionInv'
<1>1. /\ ClientTypeOK' /\ HandsInv'
      /\ AtClient \cup consumed \subseteq AtClient' \cup consumed'
  BY ClientStepKeeps
<1>2. ReceivedKept'
  <2>1. received \subseteq AtClient' \cup consumed'
    BY <1>1 DEF SessionInv, ReceivedKept
  <2>2. ASSUME NEW p \in toClient, Client!Receive(p)
        PROVE  toHost' \subseteq received \cup AtClient'
    <3>1. CASE toHost' = toHost
      BY <3>1 DEF AcksGiven
    <3>2. CASE toHost' = toHost \cup {p.seq} /\ held' = p
      <4>1. p \in Host!Packet /\ Kept(p)'
        BY <3>2 DEF Host!TypeOK, Kept
      <4>2. p.seq \in AtClient'
        BY <1>1, <4>1, HeldIsAtClientNext, SessionAssumption
      <4>3. QED
        BY <3>2, <4>2 DEF AcksGiven
    <3>3. QED
      BY <2>2, <3>1, <3>2 DEF Client!Receive
  <2>3. ASSUME ~\E p \in toClient : Client!Receive(p) PROVE toHost' \subseteq received
    BY <2>3, ClientOnPath DEF ClientStep, AcksGiven
  <2>4. received' = received \cup toHost'
    BY DEF ClientStep
  <2>5. toHost' \subseteq received \cup AtClient'
    BY <2>2, <2>3 DEF AcksGiven
  <2>6. QED
    BY <2>1, <2>4, <2>5 DEF ReceivedKept
<1>3. NothingBetween'
  <2>1. UNCHANGED <<cleared, sequenceNumber, recentPackets, sender, pkt>>
    BY DEF ClientStep, hostVars
  <2>2. Host!Recorded' = Host!Recorded /\ Host!BeingRecorded' = Host!BeingRecorded
    BY <2>1 DEF Host!Recorded, Host!BeingRecorded
  <2>3. QED
    BY <1>1, <2>1, <2>2 DEF SessionInv, NothingBetween
<1>4. QED
  BY <1>1, <1>2, <1>3 DEF SessionInv

(* The host's steps: what it hands over it records next, and what it       *)
(* strikes off the record has been acknowledged.                           *)
LEMMA HostStepPreserves ==
    ASSUME SessionInv, AcksGiven, Host!TypeOK, HostStep
    PROVE  SessionInv'
<1>1. UNCHANGED <<handVars, received, consumed>>
  BY DEF HostStep, clientVars, handVars
<1>2. ClientTypeOK' /\ HandsInv' /\ ReceivedKept' /\ AtClient' = AtClient
  BY <1>1 DEF handVars, SessionInv, ClientTypeOK, HandsInv, ReceivedKept, AtClient
<1>3. NothingBetween'
  <2>1. CASE Host!SetFrameSize \/ Host!Capture \/ Host!ReadChunkSize \/ Host!FrontFrame
    <3>1. /\ UNCHANGED <<cleared, sequenceNumber, recentPackets>>
          /\ Host!BeingRecorded' = Host!BeingRecorded
      BY <2>1 DEF Host!SetFrameSize, Host!Capture, Host!ReadChunkSize, Host!FrontFrame,
         Host!senderVars, Host!BeingRecorded
    <3>2. QED
      BY <1>1, <1>2, <3>1 DEF SessionInv, NothingBetween, Host!Recorded
  <2>2. CASE Host!SendPacket
    <3>1. /\ UNCHANGED <<cleared, recentPackets>>
          /\ sequenceNumber \in Nat /\ sequenceNumber' = sequenceNumber + 1
          /\ Host!BeingRecorded = {} /\ Host!BeingRecorded' = {sequenceNumber}
      BY <2>2 DEF Host!TypeOK, Host!SendPacket, Host!BeingRecorded
    <3>2. Host!Recorded' = Host!Recorded
      BY <3>1 DEF Host!Recorded
    <3>3. 0..(sequenceNumber' - 1) = 0..(sequenceNumber - 1) \cup {sequenceNumber}
      BY <3>1
    <3>4. QED
      BY <1>1, <1>2, <3>1, <3>2, <3>3 DEF SessionInv, NothingBetween
  <2>3. CASE Host!AddRecentPacket
    <3>1. /\ UNCHANGED <<cleared, sequenceNumber>>
          /\ recentPackets' = recentPackets \cup {pkt}
          /\ Host!BeingRecorded = {pkt.seq}
      BY <2>3 DEF Host!AddRecentPacket, Host!BeingRecorded
    <3>2. Host!Recorded' = Host!Recorded \cup Host!BeingRecorded
      BY <3>1 DEF Host!Recorded
    <3>3. QED
      BY <1>1, <1>2, <3>1, <3>2 DEF SessionInv, NothingBetween
  <2>4. CASE Host!AckPass
    <3>1. /\ UNCHANGED <<sequenceNumber, sender, pkt>>
          /\ cleared' \/ UNCHANGED <<cleared, recentPackets>>
      BY <2>4 DEF Host!AckPass, Host!senderVars
    <3>2. QED
      BY <1>1, <1>2, <3>1 DEF SessionInv, NothingBetween, Host!Recorded, Host!BeingRecorded
  <2>5. ASSUME NEW s \in toHost, Host!RemoveRecentPacket(s) PROVE NothingBetween'
    <3>1. /\ UNCHANGED <<cleared, sequenceNumber, sender, pkt>>
          /\ recentPackets' = {p \in recentPackets : p.seq # s}
      BY <2>5 DEF Host!RemoveRecentPacket, Host!senderVars
    <3>2. s \in AtClient \cup consumed
      BY DEF AcksGiven, SessionInv, ReceivedKept
    <3>3. Host!Recorded \subseteq Host!Recorded' \cup {s}
      BY <3>1 DEF Host!Recorded
    <3>4. Host!BeingRecorded' = Host!BeingRecorded
      BY <3>1 DEF Host!BeingRecorded
    <3>5. QED
      BY <1>1, <1>2, <3>1, <3>2, <3>3, <3>4 DEF SessionInv, NothingBetween
  <2>6. QED
    BY <2>1, <2>2, <2>3, <2>4, <2>5 DEF HostStep, Host!HostNext
<1>4. QED
  BY <1>2, <1>3 DEF SessionInv

LEMMA InitSession == Init => SessionInv
<1> SUFFICES ASSUME Init PROVE SessionInv
  OBVIOUS
<1>1. ClientTypeOK /\ HandsInv
  BY SessionAssumption DEF Init, Client!ClientInit, ClientTypeOK, HandsInv
<1>2. ReceivedKept /\ NothingBetween
  BY DEF Init, Host!Init, Host!HostInit, ReceivedKept, NothingBetween
<1>3. QED
  BY <1>1, <1>2 DEF SessionInv

LEMMA NextSession ==
    SessionInv /\ AcksGiven /\ Host!TypeOK /\ [Next]_vars => SessionInv'
<1> SUFFICES ASSUME SessionInv, AcksGiven, Host!TypeOK, [Next]_vars PROVE SessionInv'
  OBVIOUS
<1>1. CASE UNCHANGED vars
  BY <1>1 DEF vars, hostVars, clientVars, SessionInv, ClientTypeOK, HandsInv, ReceivedKept,
     NothingBetween, AtClient, Host!Recorded, Host!BeingRecorded
<1>2. QED
  BY <1>1, HostStepPreserves, ClientStepPreserves DEF Next

(* From the sender's hands to the consumer's, through resending, dropped   *)
(* duplicates and acknowledgements that overtake the record, no datagram   *)
(* is ever in nobody's keeping, until the host gives some up itself.       *)
THEOREM NothingFallsBetween == Spec => []NothingBetween
<1>1. SessionInv => NothingBetween
  BY DEF SessionInv
<1>2. QED
  BY <1>1, InitAcksGiven, NextAcksGiven, HostTypes, InitSession, NextSession, PTL DEF Spec
=============================================================================
