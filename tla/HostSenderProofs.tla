-------------------------- MODULE HostSenderProofs --------------------------
(***************************************************************************)
(* The streaming host for every size of frames, datagrams and record, and  *)
(* every number of frames.                                                 *)
(***************************************************************************)
EXTENDS HostSender, TLAPS

(* The sender thread is inside a frame: the chunk it is at begins before   *)
(* the frame ends.                                                         *)
InsideFrame ==
    sender \in {"packet", "track"} => frame > 0 /\ offset * payloadSize < frame

(* An acknowledgement on its way is one the client has given.              *)
AcksGiven == toHost \subseteq received

(* The stream is configured before there is a frame to send, and the       *)
(* sender thread reads the datagram size again after each frame.           *)
Configured ==
    /\ captured > 0 \/ frames # <<>> \/ sender \in {"packet", "track"} \/ frameNum > 0
          => frameSize = PACKET_SIZE
    /\ frameNum > 0 /\ sender # "chunk" => payloadSize = PACKET_SIZE - HEADER_SIZE

(* What has been sent and may be received or sent again, the datagram that *)
(* is just being recorded included.                                        *)
Outgoing == toClient \cup recentPackets \cup (IF sender = "track" THEN {pkt} ELSE {})

(* It belongs to the frames before the present one, or to the chunks of    *)
(* that before the present one, or is the present chunk.                   *)
SentInOrder ==
    /\ \A p \in Outgoing : p.frame <= frameNum
    /\ \A p \in Outgoing : p.frame = frameNum =>
          /\ sender \in {"packet", "track"} /\ p.slidingWindow = frame
          /\ p.offset < offset \/ (sender = "track" /\ p = pkt)
    /\ sender = "track" => pkt.offset = offset

Later(datagrams) == {p \in datagrams : p.frame > 0}

IInv ==
    /\ TypeOK
    /\ InsideFrame
    /\ AcksGiven
    /\ NothingForgotten
    /\ Configured
    /\ SentInOrder
    /\ WellCut(Later(Outgoing))

-----------------------------------------------------------------------------
(* Counting the chunks of a frame rounds up: fewer of them leave some of   *)
(* the frame, as many leave nothing.                                       *)
LEMMA ChunksRoundedUp ==
    ASSUME NEW size \in Nat, NEW chunk \in Nat \ {0}, NEW i \in Nat
    PROVE  LET chunks == (size + chunk - 1) \div chunk
           IN /\ chunks \in Nat
              /\ i < chunks => i * chunk < size
              /\ chunks <= i <=> size <= i * chunk
<1> DEFINE q == (size + chunk - 1) \div chunk
<1>1. q \in Nat /\ q * chunk <= size + chunk - 1 /\ size + chunk - 1 < q * chunk + chunk
  OBVIOUS
<1>2. i * chunk \in Int /\ q * chunk \in Int
  BY <1>1
<1>3. (i + 1) * chunk = i * chunk + chunk
  OBVIOUS
<1> HIDE DEF q
<1>4. i < q => (i + 1) * chunk <= q * chunk
  BY <1>1
<1>5. i < q => i * chunk < size
  BY <1>1, <1>2, <1>3, <1>4
<1>6. q <= i => q * chunk <= i * chunk
  BY <1>1
<1>7. q <= i => size <= i * chunk
  BY <1>1, <1>2, <1>6
<1>8. q <= i <=> size <= i * chunk
  BY <1>1, <1>2, <1>5, <1>7
<1>9. QED
  BY <1>1, <1>5, <1>8 DEF q

(* A cast to a WORD never makes a number larger, and keeps a small one.    *)
LEMMA WordCast ==
    ASSUME NEW n \in Nat, NEW w \in Nat \ {0}
    PROVE  n % w \in Nat /\ n % w <= n /\ (n < w => n % w = n)
<1>1. n = w * (n \div w) + (n % w) /\ n % w \in 0..(w - 1) /\ n \div w \in Nat
  OBVIOUS
<1>2. w * (n \div w) \in Nat
  BY <1>1
<1>3. n < w => n % w = n
  OBVIOUS
<1>4. QED
  BY <1>1, <1>2, <1>3

(* The number of a frame's datagrams.                                      *)
LEMMA DatagramCount ==
    ASSUME NEW size \in Nat, payloadSize \in Nat \ {0}
    PROVE  TotalPackets(size) \in Nat
<1>1. (size + payloadSize - 1) \div payloadSize \in Nat
  BY ChunksRoundedUp
<1>2. QED
  BY <1>1, SizesAssumption, WordCast DEF TotalPackets

(* So a chunk whose number is below that of the datagrams begins before    *)
(* the frame ends, and the datagrams of a frame that a WORD can count are  *)
(* all of its chunks.                                                      *)
LEMMA DatagramsOfAFrame ==
    ASSUME NEW size \in Nat, payloadSize \in Nat \ {0}, NEW i \in Nat
    PROVE  /\ i < TotalPackets(size) => i * payloadSize < size
           /\ size <= (WORD_SIZE - 1) * payloadSize /\ TotalPackets(size) <= i
                 => size <= i * payloadSize
<1> DEFINE q == (size + payloadSize - 1) \div payloadSize
<1>1. /\ q \in Nat /\ (i < q => i * payloadSize < size)
      /\ (q <= i => size <= i * payloadSize)
  BY ChunksRoundedUp
<1>2. WORD_SIZE \in Nat \ {0} /\ WORD_SIZE - 1 \in Nat
  BY SizesAssumption
<1>3. size <= (WORD_SIZE - 1) * payloadSize => q <= WORD_SIZE - 1
  BY <1>2, ChunksRoundedUp
<1>4. TotalPackets(size) = q % WORD_SIZE
  BY DEF TotalPackets
<1> HIDE DEF q
<1>5. q % WORD_SIZE \in Nat /\ q % WORD_SIZE <= q /\ (q < WORD_SIZE => q % WORD_SIZE = q)
  BY <1>1, <1>2, WordCast
<1>6. i < TotalPackets(size) => i < q
  BY <1>1, <1>4, <1>5
<1>7. ASSUME size <= (WORD_SIZE - 1) * payloadSize, TotalPackets(size) <= i
      PROVE  q <= i
  BY <1>1, <1>2, <1>3, <1>4, <1>5, <1>7
<1>8. QED
  BY <1>1, <1>6, <1>7

(* Less of what is well cut is well cut.                                   *)
LEMMA WellCutShrinks ==
    ASSUME NEW D, NEW E, E \subseteq D, WellCut(D)
    PROVE  WellCut(E)
  BY DEF WellCut

(* A step that sends nothing new, and in the middle of a frame stays where *)
(* it is, keeps the order and the cut; between two frames it may count a   *)
(* frame of which it sends nothing.                                        *)
LEMMA NothingNew ==
    ASSUME IInv, Outgoing' \subseteq Outgoing,
           \/ UNCHANGED <<sender, frame, frameNum, offset, pkt>>
           \/ /\ sender \in {"chunk", "front"} /\ sender' # "track"
              /\ frameNum' \in {frameNum, frameNum + 1}
    PROVE  SentInOrder' /\ WellCut(Later(Outgoing))'
<1>1. SentInOrder'
  <2>1. CASE UNCHANGED <<sender, frame, frameNum, offset, pkt>>
    BY <2>1 DEF IInv, SentInOrder
  <2>2. CASE sender \in {"chunk", "front"} /\ sender' # "track"
             /\ frameNum' \in {frameNum, frameNum + 1}
    <3>1. frameNum \in Nat /\ \A p \in Outgoing : p.frame \in Nat
      BY <2>2 DEF IInv, TypeOK, Outgoing, Packet
    <3>2. \A p \in Outgoing : p.frame < frameNum
      BY <2>2, <3>1 DEF IInv, SentInOrder
    <3>3. \A p \in Outgoing' : p.frame < frameNum'
      BY <2>2, <3>1, <3>2
    <3>4. \A p \in Outgoing' : p.frame <= frameNum' /\ p.frame # frameNum'
      BY <2>2, <3>1, <3>3
    <3>5. QED
      BY <2>2, <3>4 DEF SentInOrder
  <2>3. QED
    BY <2>1, <2>2
<1>2. Later(Outgoing') \subseteq Later(Outgoing)
  BY DEF Later
<1>3. WellCut(Later(Outgoing'))
  BY <1>2, WellCutShrinks DEF IInv
<1>4. QED
  BY <1>1, <1>3 DEF WellCut, Later

-----------------------------------------------------------------------------
(* The program starts in the invariant.                                    *)
LEMMA InitInv == Init => IInv
<1> SUFFICES ASSUME Init PROVE IInv
  OBVIOUS
<1>1. TypeOK
  <2>1. NoPacket \in Packet
    BY DEF Packet, NoPacket
  <2>2. /\ frames \in Seq(FrameSizes) /\ captured \in 0..MaxFrames
        /\ frame \in FrameSizes \cup {0} /\ frameNum \in Nat /\ offset \in Nat
        /\ sequenceNumber \in Nat
    BY SizesAssumption DEF Init, HostInit
  <2>3. QED
    BY <2>1, <2>2 DEF Init, HostInit, TypeOK
<1>2. /\ InsideFrame /\ AcksGiven /\ Configured /\ SentInOrder
      /\ WellCut(Later(Outgoing))
  BY DEF Init, HostInit, InsideFrame, AcksGiven, Configured, SentInOrder, Outgoing, Later,
         WellCut
<1>3. NothingForgotten
  BY DEF Init, HostInit, NothingForgotten
<1>4. QED
  BY <1>1, <1>2, <1>3 DEF IInv

(* The sizes the sender thread computes with.                              *)
LEMMA PayloadPositive == TypeOK => payloadSize \in Nat \ {0}
  BY SizesAssumption DEF TypeOK

(* SendPacket: the chunk is inside the frame and no longer than the        *)
(* datagram has room for.                                                  *)
LEMMA SendPacketInv ==
    ASSUME IInv, SendPacket, received' = received
    PROVE  IInv'
<1> USE DEF IInv
<1>1. /\ payloadSize \in Nat \ {0} /\ frame \in Nat /\ offset \in Nat
      /\ sequenceNumber \in Nat /\ frameNum \in Nat
  BY PayloadPositive, SizesAssumption DEF TypeOK
<1>2. sender = "packet" /\ sender' = "track" /\ frame > 0 /\ offset * payloadSize < frame
  BY DEF SendPacket, InsideFrame
<1>3. /\ DataSize(offset) \in Nat
      /\ DataSize(offset) <= payloadSize
  BY <1>1, <1>2 DEF DataSize
<1>4. /\ pkt' \in Packet /\ pkt'.seq = sequenceNumber /\ pkt'.frame = frameNum
      /\ pkt'.size = DataSize(offset)
  BY <1>1, <1>3 DEF SendPacket, Packet
<1>5. TypeOK'
  BY <1>1, <1>2, <1>4 DEF SendPacket, TypeOK, streamVars
<1>6. InsideFrame' /\ AcksGiven' /\ Configured'
  BY <1>2 DEF SendPacket, InsideFrame, AcksGiven, Configured, streamVars
<1>7. Outgoing' \subseteq Outgoing \cup {pkt'}
  BY <1>2 DEF SendPacket, Outgoing
<1>8. SentInOrder' /\ WellCut(Later(Outgoing))'
  <2>1. pkt'.offset = offset /\ pkt'.slidingWindow = frame /\ pkt'.size = DataSize(offset)
    BY DEF SendPacket
  <2>2. SentInOrder'
    BY <1>1, <1>2, <1>4, <1>7, <2>1 DEF SendPacket, SentInOrder
  <2>3. \A p \in Outgoing : p.frame = frameNum => p.slidingWindow = frame /\ p.offset < offset
    BY <1>2 DEF SentInOrder
  <2>4. Later(Outgoing') \subseteq Later(Outgoing) \cup {pkt'}
    BY <1>7 DEF Later
  <2>5. frameNum > 0 =>
          LET payload == PACKET_SIZE - HEADER_SIZE
              left == pkt'.slidingWindow - pkt'.offset * payload
          IN left > 0 /\ pkt'.size = IF payload < left THEN payload ELSE left
    BY <1>1, <1>2, <2>1, SizesAssumption DEF Configured, DataSize
  <2>6. WellCut(Later(Outgoing'))
    BY <1>1, <1>4, <2>1, <2>3, <2>4, <2>5 DEF WellCut, Later
  <2>7. QED
    BY <2>2, <2>6 DEF WellCut, Later
<1>9. NothingForgotten'
  BY <1>1, <1>2, <1>4 DEF SendPacket, NothingForgotten, Recorded, BeingRecorded
<1>10. QED
  BY <1>5, <1>6, <1>8, <1>9

(* AddRecentPacket: what has just been sent is recorded, and the sender    *)
(* goes on inside the frame or to the next one.                            *)
LEMMA AddRecentPacketInv ==
    ASSUME IInv, AddRecentPacket, received' = received
    PROVE  IInv'
<1> USE DEF IInv
<1>1. /\ payloadSize \in Nat \ {0} /\ frame \in Nat /\ offset \in Nat /\ frameNum \in Nat
      /\ offset + 1 \in Nat
  BY PayloadPositive, SizesAssumption DEF TypeOK
<1>2. sender = "track" /\ sender' \in {"packet", "chunk"} /\ frame > 0
  BY DEF AddRecentPacket, InsideFrame
<1>3. TypeOK'
  BY <1>1, <1>2 DEF AddRecentPacket, TypeOK, streamVars, netVars
<1>4. sender' = "packet" => (offset + 1) * payloadSize < frame
  BY <1>1, DatagramsOfAFrame DEF AddRecentPacket
<1>5. InsideFrame' /\ AcksGiven' /\ Configured'
  BY <1>1, <1>2, <1>4 DEF AddRecentPacket, InsideFrame, AcksGiven, Configured,
                          streamVars, netVars
<1>6. SentInOrder' /\ WellCut(Later(Outgoing))'
  <2>1. Outgoing' = Outgoing
    BY <1>2 DEF AddRecentPacket, Outgoing, netVars
  <2>2. /\ offset' = offset + 1 /\ frame' = frame
        /\ \/ sender' = "packet" /\ frameNum' = frameNum
           \/ sender' = "chunk" /\ frameNum' = frameNum + 1
    BY DEF AddRecentPacket
  <2>3. \A p \in Outgoing : p.frame \in Nat /\ p.offset \in Nat
    BY DEF TypeOK, Outgoing, Packet
  <2>4. SentInOrder'
    BY <1>1, <1>2, <2>1, <2>2, <2>3 DEF SentInOrder
  <2>5. WellCut(Later(Outgoing'))
    BY <2>1
  <2>6. QED
    BY <2>4, <2>5 DEF WellCut, Later
<1>7. NothingForgotten'
  BY <1>2 DEF AddRecentPacket, NothingForgotten, Recorded, BeingRecorded
<1>8. QED
  BY <1>3, <1>5, <1>6, <1>7

(* The other steps of the host.                                            *)
LEMMA HostNextInv ==
    ASSUME IInv, HostNext, received' = received
    PROVE  IInv'
<1> USE DEF IInv
<1>1. CASE SetFrameSize
  <2>1. TypeOK' /\ InsideFrame' /\ AcksGiven'
    BY <1>1 DEF SetFrameSize, TypeOK, InsideFrame, AcksGiven, senderVars, netVars
  <2>2. Configured' /\ SentInOrder' /\ WellCut(Later(Outgoing))'
    BY <1>1, NothingNew DEF SetFrameSize, Configured, Outgoing, senderVars, netVars
  <2>3. NothingForgotten'
    BY <1>1 DEF SetFrameSize, NothingForgotten, Recorded, BeingRecorded, senderVars
  <2>4. QED
    BY <2>1, <2>2, <2>3
<1>2. CASE Capture
  <2>1. TypeOK'
    <3>1. captured' \in 0..MaxFrames
      BY <1>2, SizesAssumption, SMTT(30) DEF Capture, TypeOK
    <3>2. frames' \in Seq(FrameSizes)
      <4>1. PICK size \in FrameSizes : frames' = Append(frames, size)
        BY <1>2 DEF Capture
      <4>2. QED
        BY <4>1 DEF TypeOK
    <3>3. QED
      BY <1>2, <3>1, <3>2 DEF Capture, TypeOK, senderVars, netVars
  <2>2. /\ InsideFrame' /\ AcksGiven' /\ Configured'
        /\ SentInOrder' /\ WellCut(Later(Outgoing))'
    BY <1>2, NothingNew DEF Capture, InsideFrame, AcksGiven, Configured, Outgoing,
                            senderVars, netVars
  <2>3. NothingForgotten'
    BY <1>2 DEF Capture, NothingForgotten, Recorded, BeingRecorded, senderVars
  <2>4. QED
    BY <2>1, <2>2, <2>3
<1>3. CASE ReadChunkSize
  <2>1. TypeOK' /\ InsideFrame' /\ AcksGiven'
    BY <1>3 DEF ReadChunkSize, TypeOK, InsideFrame, AcksGiven, streamVars, netVars
  <2>2. Configured' /\ SentInOrder' /\ WellCut(Later(Outgoing))'
    BY <1>3, NothingNew DEF ReadChunkSize, Configured, Outgoing, streamVars, netVars
  <2>3. NothingForgotten'
    BY <1>3 DEF ReadChunkSize, NothingForgotten, Recorded, BeingRecorded
  <2>4. QED
    BY <2>1, <2>2, <2>3
<1>4. CASE FrontFrame
  <2>1. frames # <<>> /\ Head(frames) \in FrameSizes /\ Tail(frames) \in Seq(FrameSizes)
    BY <1>4 DEF FrontFrame, TypeOK
  <2>2. /\ sender = "front"
        /\ \/ sender' = "packet" /\ frameNum' = frameNum
           \/ sender' = "chunk" /\ frameNum' = frameNum + 1
    BY <1>4, Zenon DEF FrontFrame
  <2>3. TypeOK'
    <3>1. /\ frames' \in Seq(FrameSizes) /\ frame' \in FrameSizes
          /\ offset' \in Nat /\ frameNum' \in Nat /\ sender' \in {"packet", "chunk"}
      BY <1>4, <2>1, <2>2 DEF FrontFrame, TypeOK
    <3>2. UNCHANGED <<frameSize, captured, payloadSize, pkt, sequenceNumber,
                      recentPackets, cleared, toClient, toHost>>
      BY <1>4 DEF FrontFrame, netVars
    <3>3. sender' \in {"chunk", "front", "packet", "track"} /\ frame' \in FrameSizes \cup {0}
      BY <3>1
    <3>4. QED
      BY <3>1, <3>2, <3>3, Zenon DEF TypeOK
  <2>4. InsideFrame'
    <3>1. payloadSize \in Nat
      BY PayloadPositive, Zenon
    <3>2. Head(frames) \in Nat \ {0}
      BY <2>1, SizesAssumption
    <3>3. 0 * payloadSize = 0
      BY <3>1
    <3>4. QED
      BY <1>4, <3>2, <3>3 DEF FrontFrame, InsideFrame
  <2>5. AcksGiven' /\ Configured' /\ SentInOrder' /\ WellCut(Later(Outgoing))'
    <3>1. AcksGiven' /\ Configured'
      BY <1>4, <2>1, <2>2 DEF FrontFrame, AcksGiven, Configured, netVars
    <3>2. Outgoing' \subseteq Outgoing
      BY <1>4, <2>2 DEF FrontFrame, Outgoing, netVars
    <3>3. sender' # "track" /\ frameNum' \in {frameNum, frameNum + 1}
      BY <2>2
    <3>4. QED
      BY <2>2, <3>1, <3>2, <3>3, NothingNew
  <2>6. NothingForgotten'
    BY <1>4 DEF FrontFrame, NothingForgotten, Recorded, BeingRecorded
  <2>7. QED
    BY <2>3, <2>4, <2>5, <2>6
<1>5. CASE SendPacket
  BY <1>5, SendPacketInv
<1>6. CASE AddRecentPacket
  BY <1>6, AddRecentPacketInv
<1>7. CASE AckPass
  <2>1. TypeOK' /\ InsideFrame' /\ AcksGiven' /\ Configured'
    BY <1>7 DEF AckPass, TypeOK, InsideFrame, AcksGiven, Configured, streamVars, senderVars
  <2>2. SentInOrder' /\ WellCut(Later(Outgoing))'
    BY <1>7, NothingNew DEF AckPass, Outgoing, senderVars
  <2>3. NothingForgotten'
    BY <1>7 DEF AckPass, NothingForgotten, Recorded, BeingRecorded, senderVars
  <2>4. QED
    BY <2>1, <2>2, <2>3
<1>8. ASSUME NEW s \in toHost, RemoveRecentPacket(s)
      PROVE  IInv'
  <2>1. /\ toHost' \subseteq toHost /\ toClient' = toClient
        /\ recentPackets' = {p \in recentPackets : p.seq # s}
        /\ s \in received
    BY <1>8 DEF RemoveRecentPacket, Consume, AcksGiven
  <2>2. TypeOK' /\ InsideFrame' /\ AcksGiven' /\ Configured'
    BY <1>8, <2>1 DEF RemoveRecentPacket, TypeOK, InsideFrame, AcksGiven, Configured,
                      streamVars, senderVars
  <2>3. SentInOrder' /\ WellCut(Later(Outgoing))'
    BY <1>8, <2>1, NothingNew DEF RemoveRecentPacket, Outgoing, senderVars
  <2>4. NothingForgotten'
    BY <1>8, <2>1 DEF RemoveRecentPacket, NothingForgotten, Recorded, BeingRecorded,
                      senderVars
  <2>5. QED
    BY <2>2, <2>3, <2>4
<1>9. QED
  BY <1>1, <1>2, <1>3, <1>4, <1>5, <1>6, <1>7, <1>8 DEF HostNext

(* The network and the client change neither the host nor what is sent.    *)
LEMMA NetworkInv ==
    ASSUME IInv, Lose \/ \E p \in toClient : ClientReceives(p)
    PROVE  IInv'
<1> USE DEF IInv
<1> DEFINE Narrows ==
      /\ UNCHANGED hostVars
      /\ toClient' \subseteq toClient
      /\ received \subseteq received' /\ toHost' \subseteq received'
      /\ toHost' \subseteq Nat /\ received' \subseteq Nat
<1>1. Narrows
  <2>1. CASE Lose
    BY <2>1 DEF Lose, AcksGiven, TypeOK
  <2>2. ASSUME NEW p \in toClient, ClientReceives(p)
        PROVE  Narrows
    <3>1. p.seq \in Nat
      BY <2>2 DEF TypeOK, Packet
    <3>2. QED
      BY <2>2, <3>1 DEF ClientReceives, Consume, AcksGiven, TypeOK
  <2>3. QED
    BY <2>1, <2>2
<1>2. TypeOK' /\ InsideFrame' /\ AcksGiven' /\ Configured'
  BY <1>1 DEF TypeOK, InsideFrame, AcksGiven, Configured, hostVars, streamVars, senderVars
<1>3. SentInOrder' /\ WellCut(Later(Outgoing))'
  BY <1>1, NothingNew DEF Outgoing, hostVars, senderVars
<1>4. NothingForgotten'
  BY <1>1 DEF NothingForgotten, Recorded, BeingRecorded, hostVars, senderVars
<1>5. QED
  BY <1>2, <1>3, <1>4

(* No step of the host, the network or the client leaves the invariant.    *)
LEMMA NextInv == IInv /\ [Next]_vars => IInv'
<1> SUFFICES ASSUME IInv, [Next]_vars PROVE IInv'
  OBVIOUS
<1>1. CASE HostNext /\ UNCHANGED received
  BY <1>1, HostNextInv
<1>2. CASE Lose \/ \E p \in toClient : ClientReceives(p)
  BY <1>2, NetworkInv
<1>3. CASE UNCHANGED vars
  <2>1. UNCHANGED Outgoing
    BY <1>3 DEF vars, hostVars, senderVars, netVars, Outgoing
  <2>2. SentInOrder' /\ WellCut(Later(Outgoing))'
    BY <1>3, <2>1, NothingNew DEF vars, hostVars, senderVars
  <2>3. QED
    BY <1>3, <2>2
       DEF vars, hostVars, streamVars, senderVars, netVars, IInv, TypeOK, InsideFrame,
           AcksGiven, Configured, NothingForgotten, Recorded, BeingRecorded
<1>4. QED
  BY <1>1, <1>2, <1>3 DEF Next

(* So every reachable state of the host satisfies it.                      *)
LEMMA IInvHolds == Safety => []IInv
<1>1. QED
  BY InitInv, NextInv, PTL DEF Safety

-----------------------------------------------------------------------------
(* Every variable keeps its type; in particular the length of each chunk   *)
(* is a natural number, since each begins before its frame ends.           *)
THEOREM TypeCorrect == Safety => []TypeOK
<1>1. IInv => TypeOK
  BY DEF IInv
<1>2. QED
  BY <1>1, IInvHolds, PTL

(* Unless the ack thread gives up, whatever was sent is acknowledged,      *)
(* recorded or just being recorded, however the network loses, doubles or  *)
(* reorders datagrams and acknowledgements.                                *)
THEOREM HostRemembers == Safety => []NothingForgotten
<1>1. IInv => NothingForgotten
  BY DEF IInv
<1>2. QED
  BY <1>1, IInvHolds, PTL

(* Only the first frame can be cut with the default datagram size, for     *)
(* every number of frames and every moment at which main() sets the size;  *)
(* the datagrams of all others, resent ones included, are the chunks the   *)
(* viewer was built for, each of them once.                                *)
THEOREM LaterFramesWellCut == Safety => []OnlyFirstFrameMischunked
<1>1. IInv => OnlyFirstFrameMischunked
  <2>1. {p \in toClient \cup recentPackets : p.frame > 0} \subseteq Later(Outgoing)
    BY DEF Outgoing, Later
  <2>2. QED
    BY <2>1, WellCutShrinks DEF IInv, OnlyFirstFrameMischunked
<1>2. QED
  BY <1>1, IInvHolds, PTL

(* The sender thread leaves a frame only behind the last of its chunks,    *)
(* for all sizes of frames and datagrams for which a WORD can count the    *)
(* chunks; in particular it skips no such frame.                           *)
THEOREM ShortFramesLeftWhole == Safety => FramesLeftWhole
<1>1. IInv /\ [Next]_vars =>
        [frameNum' # frameNum /\ frame' <= (WORD_SIZE - 1) * payloadSize
            => frame' <= offset' * payloadSize]_vars
  <2> SUFFICES ASSUME IInv, Next, frameNum' # frameNum,
                      frame' <= (WORD_SIZE - 1) * payloadSize
               PROVE  frame' <= offset' * payloadSize
    OBVIOUS
  <2>1. payloadSize \in Nat \ {0} /\ offset \in Nat /\ frame \in Nat
    BY PayloadPositive, SizesAssumption DEF IInv, TypeOK
  <2>2. CASE AddRecentPacket
    <3>1. offset' = offset + 1 /\ frame' = frame /\ ~(offset + 1 < TotalPackets(frame))
      BY <2>2 DEF AddRecentPacket
    <3>2. TotalPackets(frame) <= offset + 1
      BY <2>1, <3>1, DatagramCount
    <3>3. QED
      BY <2>1, <3>1, <3>2, DatagramsOfAFrame
  <2>3. CASE FrontFrame
    <3>1. frame' = Head(frames) /\ offset' = 0 /\ ~(0 < TotalPackets(frame'))
      BY <2>3 DEF FrontFrame
    <3>2. frame' \in Nat
      <4>1. frames \in Seq(FrameSizes) /\ frames # <<>>
        BY <2>3 DEF FrontFrame, IInv, TypeOK
      <4>2. frame' \in FrameSizes
        BY <3>1, <4>1
      <4>3. QED
        BY <4>2, SizesAssumption
    <3>3. TotalPackets(frame') <= 0
      BY <2>1, <3>1, <3>2, DatagramCount
    <3>4. QED
      BY <2>1, <3>1, <3>2, <3>3, DatagramsOfAFrame
  <2>4. QED
    BY <2>2, <2>3
       DEF Next, HostNext, SetFrameSize, Capture, ReadChunkSize, SendPacket, AckPass,
           RemoveRecentPacket, ClientReceives, Lose, hostVars, senderVars
<1>2. QED
  BY <1>1, IInvHolds, PTL DEF Safety, FramesLeftWhole
=============================================================================
